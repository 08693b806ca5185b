----------------------------- MODULE ClaudeSession -----------------------------
(***************************************************************************)
(* /nvim-last in Claude Code (pi-nvimotator, claude/src/claude-session.ts):*)
(* the command finds the transcript of the session that it was typed in    *)
(* and takes the assistant message that the user saw last from it.         *)
(*                                                                         *)
(* Claude Code is external.  Its transcripts are appended to and never     *)
(* rewritten: an entry names its parent, /rewind leaves a branch behind,   *)
(* /clear goes on in a new transcript while the metadata of the process    *)
(* still names the old one.  All sessions are of one project directory; an *)
(* entry's uuid is its index, a message is a number.                       *)
(***************************************************************************)
EXTENDS Integers, Sequences, FiniteSets, SequencesExt

CONSTANTS
    Claudes,            \* processes
    MaxSessions, MaxEntries,    \* bounds
    CommandIsWritten,   \* is the command in the transcript when it runs
    None

VARIABLES
    transcript,     \* session -> entries
    touched,        \* the sessions by their last write, oldest first
    metadata,       \* ~/.claude/sessions/<pid>.json: process -> session
    current,        \* process -> the session it is in
    screen,         \* session -> what the user sees of it
    command         \* a /nvim-last that runs
claudeVars == <<transcript, touched, metadata, current, screen, command>>

Sessions == 1 .. MaxSessions

(* The command is typed in one of the processes; of the others it matters  *)
(* only that their sessions are written to.                                *)
Ours == CHOOSE c \in Claudes : TRUE

Entry(kind, message, parent) == [kind |-> kind, message |-> message, parent |-> parent]
Shown(kind, message, at) == [kind |-> kind, message |-> message, at |-> at]

-----------------------------------------------------------------------------
(* Discovery.                                                              *)

(* findClaudeSessionsForCwd: the transcripts by mtime, newest first.       *)
FindClaudeSessions == Reverse(touched)
IsSessionRegistered_Never(s) == FALSE
IsSessionRegistered(s) == \E c \in Claudes : metadata[c] = s

(* resolveClaudeSessionByAncestorPids: a newer transcript that no process  *)
(* has in its metadata is the one that /clear went on in.                  *)
ByAncestorPids(c) ==
    LET candidates == FindClaudeSessions IN
    IF metadata[c] = None \/ metadata[c] \notin Range(candidates) THEN None
    ELSE IF candidates[1] # metadata[c] /\ ~IsSessionRegistered(candidates[1])
    THEN candidates[1] ELSE metadata[c]

(* resolveClaudeSession without a session id in the environment; the scan  *)
(* of the metadata by directory needs one with a transcript too.           *)
ByCwdScan ==
    LET registered == {metadata[c] : c \in Claudes} \cap Range(touched)
    IN  IF registered = {} THEN None ELSE CHOOSE s \in registered : \A r \in registered : r <= s
ResolveClaudeSession(c) ==
    CASE ByAncestorPids(c) # None -> ByAncestorPids(c)
      [] ByAncestorPids(c) = None /\ ByCwdScan # None -> ByCwdScan
      [] ByAncestorPids(c) = None /\ ByCwdScan = None /\ touched # <<>> -> FindClaudeSessions[1]
      [] OTHER -> None

-----------------------------------------------------------------------------
(* The transcript.                                                         *)

(* resolveActiveBranchIndices: from the last entry to the root.            *)
Branch_Everything(entries) == DOMAIN entries
Branch(entries) ==
    LET from[i \in 0 .. Len(entries)] == IF i = 0 THEN {} ELSE {i} \cup from[entries[i].parent]
    IN  from[Len(entries)]

(* findActiveTurnBeforeIndex                                               *)
Latest(S) == CHOOSE i \in S : \A j \in S : j <= i
BeforeIndex_End(entries) == Len(entries) + 1
BeforeIndex(entries) ==
    LET commands == {i \in DOMAIN entries : entries[i].kind = "command"}
        prompts == {i \in DOMAIN entries : entries[i].kind = "prompt"}
        answered == \E i \in Latest(prompts) .. Len(entries) : entries[i].kind = "answer"
    IN  IF commands # {} THEN Latest(commands)
        ELSE IF prompts = {} \/ answered THEN Len(entries) + 1
        ELSE Latest(prompts)

(* extractRecentClaudeMessages with the limit 1: all entries of the newest *)
(* message.                                                                *)
Extract(entries, before, branch) ==
    LET answers == {i \in branch : i < before /\ entries[i].kind = "answer"}
    IN  IF answers = {} THEN {}
        ELSE {i \in answers : entries[i].message = entries[Latest(answers)].message}

(* captureLatestClaudeMessage                                              *)
Capture(entries) ==
    LET branch == Branch(entries)
        pick(before) == IF Extract(entries, before, branch) # {} THEN Extract(entries, before, branch)
                        ELSE Extract(entries, before, DOMAIN entries)
    IN  IF pick(BeforeIndex(entries)) # {} THEN pick(BeforeIndex(entries))
        ELSE pick(Len(entries) + 1)

-----------------------------------------------------------------------------
(* Claude Code.                                                            *)

ClaudeInit ==
    /\ transcript = [s \in Sessions |-> <<>>] /\ screen = [s \in Sessions |-> <<>>]
    /\ touched = <<>>
    /\ metadata = [c \in Claudes |-> IF c = Ours THEN 1 ELSE None] /\ current = metadata
    /\ command = None

Used == {current[c] : c \in Claudes} \cup {metadata[c] : c \in Claudes} \cup Range(touched)
Fresh == {s \in Sessions \ Used : \A r \in Sessions \ Used : s <= r}
Start(c) ==
    /\ current[c] = None
    /\ \E s \in Fresh : current' = [current EXCEPT ![c] = s] /\ metadata' = [metadata EXCEPT ![c] = s]
    /\ UNCHANGED <<transcript, touched, screen, command>>
(* A session that is cleared has a transcript: one that has none yet would *)
(* send the discovery to another process of the directory.                 *)
Clear(c) ==
    /\ current[c] \in Range(touched) /\ command = None
    /\ \E s \in Fresh : current' = [current EXCEPT ![c] = s]
    /\ UNCHANGED <<transcript, touched, metadata, screen, command>>
Exit(c) ==
    /\ c # Ours /\ current[c] # None
    /\ current' = [current EXCEPT ![c] = None] /\ metadata' = [metadata EXCEPT ![c] = None]
    /\ command' = IF command = None THEN None ELSE [command EXCEPT !.alone = FALSE]
    /\ UNCHANGED <<transcript, touched, screen>>

(* The entry that the next one of a session follows.                       *)
Leaf(s) == IF screen[s] = <<>> THEN 0 ELSE screen[s][Len(screen[s])].at
Entries == FoldSet(LAMBDA s, n : n + Len(transcript[s]), 0, Sessions)

(* The metadata of the process names an older session than the one it is in.*)
Cleared(c) == metadata[c] # current[c]

Writes(c, kind, message) ==
    LET s == current[c]
        at == Len(transcript[s]) + 1
    IN  /\ s # None /\ Entries < MaxEntries
        /\ transcript' = [transcript EXCEPT ![s] = Append(@, Entry(kind, message, Leaf(s)))]
        /\ screen' = [screen EXCEPT ![s] = Append(@, Shown(kind, message, at))]
        /\ LET other(r) == r # s IN touched' = Append(SelectSeq(touched, other), s)
        /\ command' = IF command = None \/ command.by = c \/ ~(Cleared(c) \/ Cleared(command.by)) THEN command
                      ELSE [command EXCEPT !.alone = FALSE]
        /\ UNCHANGED <<metadata, current>>

Prompt(c) ==
    /\ IF c = Ours THEN command = None ELSE current[c] # None /\ transcript[current[c]] = <<>>
    /\ Writes(c, "prompt", 0)

(* An answer, which may have several entries.                              *)
Speaks(c) == current[c] # None /\ screen[current[c]] # <<>>
Answer(c) == Speaks(c) /\ Writes(c, "answer", Len(transcript[current[c]]) + 1)
More(c) ==
    /\ Speaks(c)
    /\ \E i \in DOMAIN screen[current[c]] :
          /\ screen[current[c]][i].kind = "answer"
          /\ \A j \in i + 1 .. Len(screen[current[c]]) : screen[current[c]][j].kind = "answer"
          /\ Writes(c, "answer", screen[current[c]][i].message)

Rewind(c) ==
    /\ current[c] # None /\ command = None
    /\ \E i \in DOMAIN screen[current[c]] :
          /\ screen[current[c]][i].kind \in {"prompt", "command"}
          /\ screen' = [screen EXCEPT ![current[c]] = SubSeq(@, 1, i - 1)]
    /\ UNCHANGED <<transcript, touched, metadata, current, command>>

-----------------------------------------------------------------------------
(* The command: what the user sees last, then what is taken.               *)

SeenLast(s) ==
    LET answers == {i \in DOMAIN screen[s] : screen[s][i].kind = "answer"}
        message == screen[s][Latest(answers)].message
    IN  IF answers = {} THEN {}
        ELSE {screen[s][i].at : i \in {j \in answers : screen[s][j].message = message}}

NvimLast(c) ==
    /\ command = None /\ current[c] # None
    /\ LET run == [by |-> c, session |-> current[c], seen |-> SeenLast(current[c]), alone |-> TRUE] IN
       IF CommandIsWritten
       THEN /\ Entries < MaxEntries
            /\ transcript' = [transcript EXCEPT ![current[c]] = Append(@, Entry("command", 0, Leaf(current[c])))]
            /\ screen' = [screen EXCEPT ![current[c]] =
                            Append(@, Shown("command", 0, Len(transcript[current[c]]) + 1))]
            /\ LET other(r) == r # current[c] IN touched' = Append(SelectSeq(touched, other), current[c])
            /\ command' = run
       ELSE command' = run /\ UNCHANGED <<transcript, touched, screen>>
    /\ UNCHANGED <<metadata, current>>

(* What the command takes when it runs, which may be at any moment.        *)
Takes(run) ==
    LET log == ResolveClaudeSession(run.by)
    IN  [session |-> log, entries |-> IF log = None THEN {} ELSE Capture(transcript[log])]
CaptureLatestClaudeMessage ==
    /\ command # None /\ command' = None
    /\ UNCHANGED <<transcript, touched, metadata, current, screen>>

ClaudeNext ==
    \/ \E c \in Claudes : Start(c) \/ Clear(c) \/ Exit(c) \/ Prompt(c)
    \/ Answer(Ours) \/ More(Ours) \/ Rewind(Ours) \/ NvimLast(Ours) \/ CaptureLatestClaudeMessage
ClaudeSpec == ClaudeInit /\ [][ClaudeNext]_claudeVars

-----------------------------------------------------------------------------
(* "Snapshots the latest rendered assistant text on the live conversation  *)
(* branch": the user sees in Neovim all of the message that they saw last, *)
(* when they saw one.  A Claude that writes in the same project between    *)
(* the command and its run does not matter, unless it exits again or one   *)
(* of the two has gone on in a new transcript.                             *)
LastMessageIsTheOne ==
    command # None /\ command.alone /\ command.seen # {} =>
        Takes(command) = [session |-> command.session, entries |-> command.seen]
=============================================================================
