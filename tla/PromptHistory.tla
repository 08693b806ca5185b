------------------------------ MODULE PromptHistory ------------------------------
(***************************************************************************)
(* The prompt history that Pi instances share (0005-shared-prompt-         *)
(* history.ts): all append lines to one file, and each follows it by       *)
(* polling from the offset that it has reached, so that prompts of the     *)
(* others come up in its editor's history.  One instance is modelled, with *)
(* its sessions one after the other; the others only append.               *)
(*                                                                         *)
(* A prompt is a number, its line a head and a tail, which has the newline.*)
(* Most lines are appended in one piece; a large one in two, the second of *)
(* which may never come.                                                   *)
(***************************************************************************)
EXTENDS Integers, Sequences, FiniteSets, SequencesExt

CONSTANTS
    MAX_SEEN_IDS,
    MaxPrompts, MaxPieces, MaxTrims, MaxSessions,    \* bounds
    None

VARIABLES
    history,        \* the file
    mine,           \* the prompts of this instance
    written,        \* prompts so far
    half,           \* large lines whose second piece is to come
    pieces, trims,
    session,        \* number of the session; active or not
    sync,           \* session -> its loop
    seenIds,        \* oldest first
    sessionTexts,   \* prompts that the session has itself
    editor,         \* None until it is mounted, then its history
    pendingHistory,
    overlapped      \* history: a loop of an earlier session delivered
fileVars == <<history, mine, written, half, pieces, trims>>
historyVars ==
    <<fileVars, session, sync, seenIds, sessionTexts, editor, pendingHistory, overlapped>>

HeadOf(n) == [of |-> n, part |-> "head"]
TailOf(n) == [of |-> n, part |-> "tail"]
Idle == [at |-> "idle", offset |-> 0, size |-> 0, remainder |-> <<>>, mode |-> "replay",
         rerun |-> FALSE, disposed |-> FALSE]
Stopped == [Idle EXCEPT !.disposed = TRUE]

HistoryInit ==
    /\ history = <<>> /\ mine = {} /\ written = 0 /\ half = {} /\ pieces = 0 /\ trims = 0
    /\ session = [number |-> 0, active |-> FALSE]
    /\ sync = [n \in 1 .. MaxSessions |-> Idle]
    /\ seenIds = <<>> /\ sessionTexts = {} /\ editor = None /\ pendingHistory = <<>>
    /\ overlapped = FALSE

-----------------------------------------------------------------------------
(* The file.  Whoever trims it leaves the newest line or nothing, less     *)
(* than was read of it; it is assumed not to grow beyond that before the   *)
(* next poll, which sees nothing but the size.                             *)

Current == sync[session.number]
Unnoticed == session.active /\ Len(history) < Current.offset
MayGrow == Unnoticed => Len(history) + 2 < Current.offset

AppendPrompt(own) ==
    /\ written < MaxPrompts /\ MayGrow /\ (own => session.active)
    /\ written' = written + 1
    /\ mine' = IF own THEN mine \cup {written'} ELSE mine
    /\ sessionTexts' = IF own THEN sessionTexts \cup {written'} ELSE sessionTexts
    /\ \/ /\ history' = history \o <<HeadOf(written'), TailOf(written')>>
          /\ UNCHANGED <<half, pieces>>
       \/ /\ pieces < MaxPieces /\ ~own
          /\ history' = Append(history, HeadOf(written'))
          /\ half' = half \cup {written'} /\ pieces' = pieces + 1
    /\ UNCHANGED <<trims, session, sync, seenIds, editor, pendingHistory, overlapped>>
AppendRest(n) ==
    /\ n \in half /\ MayGrow
    /\ half' = half \ {n}
    /\ history' = Append(history, TailOf(n))
    /\ UNCHANGED <<mine, written, pieces, trims, session, sync, seenIds, sessionTexts, editor, pendingHistory,
                   overlapped>>
Trim ==
    /\ trims < MaxTrims /\ half = {} /\ history # <<>>
    /\ \A n \in DOMAIN sync : sync[n].at \notin {"stat", "read"}
    /\ trims' = trims + 1
    /\ \E kept \in {0, 2} :
           /\ kept < Len(history) /\ (session.active => kept < Current.offset)
           /\ history' = SubSeq(history, Len(history) - kept + 1, Len(history))
    /\ UNCHANGED <<mine, written, half, pieces, session, sync, seenIds, sessionTexts, editor, pendingHistory,
                   overlapped>>

-----------------------------------------------------------------------------
(* processChunk                                                            *)

Newlines(units) == {i \in DOMAIN units : units[i].part = "tail"}
Pieces(units) ==
    LET ends == SetToSortSeq(Newlines(units), <)
    IN  [k \in DOMAIN ends |-> SubSeq(units, IF k = 1 THEN 1 ELSE ends[k - 1] + 1, ends[k])]
AfterLast(units) ==
    LET last == IF Newlines(units) = {} THEN 0 ELSE CHOOSE i \in Newlines(units) : \A j \in Newlines(units) : j <= i
    IN  SubSeq(units, last + 1, Len(units))

ParseHistoryEntry(line) ==
    IF Len(line) = 2 /\ line[1].part = "head" /\ line[1].of = line[2].of THEN line[1].of ELSE None

Remembered_Never(ids, n) == FALSE
Remembered(ids, n) == n \in Range(ids)
RememberId(ids, n) ==
    LET all == Append(ids, n) IN IF Len(all) > MAX_SEEN_IDS THEN SubSeq(all, 2, Len(all)) ELSE all

Wants(n, mode) == n \notin mine /\ ~(mode = "replay" /\ n \in sessionTexts)

(* The new ids, and what goes into the editor.                             *)
Taken(chunk, mode) ==
    LET lines == Pieces(chunk)
        step(state, line) ==
            LET n == ParseHistoryEntry(line) IN
            IF n = None \/ Remembered(state.ids, n) THEN state
            ELSE [ids |-> RememberId(state.ids, n),
                  texts |-> IF Wants(n, mode) THEN Append(state.texts, n) ELSE state.texts]
    IN  FoldLeft(step, [ids |-> seenIds, texts |-> <<>>], lines)

Combined_WithoutRest(rest, chunk) == chunk
Combined(rest, chunk) == rest \o chunk
ProcessChunk(s, units) ==
    LET combined == Combined(s.remainder, units)
        taken == Taken(combined, s.mode)
    IN  /\ seenIds' = taken.ids
        /\ IF editor = None
           THEN pendingHistory' = pendingHistory \o taken.texts /\ UNCHANGED editor
           ELSE editor' = editor \o taken.texts /\ UNCHANGED pendingHistory

-----------------------------------------------------------------------------
(* syncOnce; what it awaits are steps.  A loop that was disposed finishes  *)
(* what it began.                                                          *)

Begun(s, mode) ==
    IF s.disposed THEN s
    ELSE IF s.at # "idle" THEN [s EXCEPT !.rerun = TRUE]
    ELSE [s EXCEPT !.at = "stat", !.mode = mode]
Finished(s) ==
    IF s.disposed THEN Stopped
    ELSE LET idle == [s EXCEPT !.at = "idle", !.size = 0, !.mode = "replay", !.rerun = FALSE]
         IN  IF s.rerun THEN Begun(idle, "live") ELSE idle

(* Once replayed, what waits for the editor is flushed.                    *)
Stat(n) ==
    /\ sync[n].at = "stat"
    /\ LET size == Len(history)
           s == IF size < sync[n].offset THEN [sync[n] EXCEPT !.offset = 0, !.remainder = <<>>] ELSE sync[n]
       IN  sync' = [sync EXCEPT ![n] = IF size - s.offset <= 0 THEN Finished(s)
                                       ELSE [s EXCEPT !.at = "read", !.size = size]]
    /\ UNCHANGED <<fileVars, session, seenIds, sessionTexts, editor, pendingHistory, overlapped>>
Read(n) ==
    /\ sync[n].at = "read"
    /\ LET s == sync[n]
           units == SubSeq(history, s.offset + 1, s.size)
       IN  /\ ProcessChunk(s, units)
           /\ sync' = [sync EXCEPT ![n] =
                  Finished([s EXCEPT !.offset = s.size, !.remainder = AfterLast(Combined(s.remainder, units))])]
    /\ overlapped' = (overlapped \/ n # session.number)
    /\ UNCHANGED <<fileVars, session, sessionTexts>>
(* The file cannot be opened or read for the moment.                       *)
Fails(n) ==
    /\ sync[n].at \in {"stat", "read"}
    /\ sync' = [sync EXCEPT ![n] = Finished(sync[n])]
    /\ UNCHANGED <<fileVars, session, seenIds, sessionTexts, editor, pendingHistory, overlapped>>

Replaying == session.active /\ Current.at # "idle" /\ Current.mode = "replay"

(* The timer, or the watcher after its delay.                              *)
Poll ==
    /\ session.active /\ ~Replaying
    /\ ~(Current.at # "idle" /\ Current.rerun)
    /\ sync' = [sync EXCEPT ![session.number] = Begun(@, "live")]
    /\ UNCHANGED <<fileVars, session, seenIds, sessionTexts, editor, pendingHistory, overlapped>>

-----------------------------------------------------------------------------
(* Sessions: reset, the texts of the branch, the loop; the editor is       *)
(* mounted at some time.  Pi awaits the replay.                            *)

SessionStart ==
    /\ ~session.active /\ session.number < MaxSessions
    /\ session' = [number |-> session.number + 1, active |-> TRUE]
    /\ seenIds' = <<>> /\ pendingHistory' = <<>> /\ editor' = None /\ overlapped' = FALSE
    /\ \E own \in SUBSET (1 .. written) : Cardinality(own) <= 1 /\ sessionTexts' = own
    /\ sync' = [sync EXCEPT ![session.number + 1] = Begun(Idle, "replay")]
    /\ UNCHANGED fileVars
Mount ==
    /\ session.active /\ editor = None
    /\ editor' = pendingHistory /\ pendingHistory' = <<>>
    /\ UNCHANGED <<fileVars, session, sync, seenIds, sessionTexts, overlapped>>
SessionShutdown ==
    /\ session.active /\ ~Replaying
    /\ session' = [session EXCEPT !.active = FALSE]
    /\ seenIds' = <<>> /\ pendingHistory' = <<>> /\ editor' = None /\ sessionTexts' = {}
    /\ sync' = [sync EXCEPT ![session.number] =
           IF @.at = "idle" THEN Stopped ELSE [@ EXCEPT !.disposed = TRUE, !.rerun = FALSE]]
    /\ UNCHANGED <<fileVars, overlapped>>

HistoryNext ==
    \/ \E own \in BOOLEAN : AppendPrompt(own)
    \/ \E n \in half : AppendRest(n)
    \/ Trim \/ Poll \/ SessionStart \/ Mount \/ SessionShutdown
    \/ \E n \in DOMAIN sync : Stat(n) \/ Read(n) \/ Fails(n)
HistorySpec == HistoryInit /\ [][HistoryNext]_historyVars

-----------------------------------------------------------------------------
Ingested == IF editor = None THEN pendingHistory ELSE editor
PromptsInFile == {ParseHistoryEntry(l) : l \in Range(Pieces(history))} \ {None}

(* A prompt of another instance comes up once in the history of the        *)
(* editor, in the order of the file unless a loop of the session before    *)
(* delivers late; its own never do.                                        *)
EachPromptOnce ==
    /\ \A i, j \in DOMAIN Ingested : i # j => Ingested[i] # Ingested[j]
    /\ ~overlapped => \A i, j \in DOMAIN Ingested : i < j => Ingested[i] < Ingested[j]
    /\ Range(Ingested) \cap mine = {}

(* A session that has read all of the file missed none of its prompts,     *)
(* whatever was cut in two, failed, trimmed or read by a loop before.      *)
NoPromptMissed ==
    session.active /\ Current.at = "idle" /\ Current.offset = Len(history) =>
        PromptsInFile \ (mine \cup sessionTexts) \subseteq Range(Ingested)
=============================================================================
