------------------------------ MODULE UnifiedEdit ------------------------------
(***************************************************************************)
(* The hash-anchored edit tool (pi-unified-edit).  A read records a        *)
(* snapshot of the whole file and which of its lines were shown; an edit   *)
(* is checked against the snapshot of the file as it is, takes the         *)
(* mutation queues of all its files, checks again and commits file by      *)
(* file; when a commit fails those before it are rolled back as far as     *)
(* that works.  Calls of the session overlap, and outsiders (a shell, an   *)
(* editor) write the files without any queue.                              *)
(*                                                                         *)
(* A file is a number, the order of its path; its text is a number, None   *)
(* is a file that is missing.  A line is only touched or not.              *)
(***************************************************************************)
EXTENDS Integers, Sequences, FiniteSets, SequencesExt

CONSTANTS
    Files,               \* numbers
    Texts,               \* numbers; Torn is none of them
    Lines,
    Calls,               \* edit calls, numbered as they are made
    HASH_HISTORY_DEPTH,
    MaxReads, MaxMishaps,   \* bounds
    None

VARIABLES
    file,       \* file -> its text, None or Torn
    store,      \* HashSnapshotStore: file -> its snapshots, newest first
    reading,    \* a read whose result is not formatted yet
    call,       \* call -> where it is
    held,       \* file -> the call its mutation queue runs, or None
    shown,      \* history: <<file, text, line>> that a read gave or, when
                \* the file changed meanwhile, took for given
    unshown,    \* history: an applied edit replaced a line not among them
    disturbed,  \* history: an outsider or a torn write got into a commit
    stuck,      \* files that a rollback could not put back
    reads, writes, failures

vars == <<file, store, reading, call, held, shown, unshown, disturbed, stuck, reads, writes,
          failures>>
counters == <<stuck, reads, writes, failures>>

Torn == 0
Exists(f) == file[f] # None

(* Trailing blanks do not count for a tag, and texts 1 and 2 only differ   *)
(* in them.                                                                *)
HashTag(text) == IF text = 2 THEN 1 ELSE text

(* A change of one file: what it had, what it gets; None is no file.       *)
Change(f, old, new) == [file |-> f, old |-> old, new |-> new]
FilesOf(changes) == {changes[i].file : i \in DOMAIN changes}
Idle == [at |-> "idle", changes |-> <<>>, done |-> 0, lines |-> {}]

Init ==
    /\ file \in [Files -> {1, None}]
    /\ store = [f \in Files |-> <<>>]
    /\ reading = None
    /\ call = [c \in Calls |-> Idle]
    /\ held = [f \in Files |-> None]
    /\ shown = {} /\ unshown = FALSE /\ disturbed = FALSE
    /\ stuck = 0 /\ reads = 0 /\ writes = 0 /\ failures = 0

-----------------------------------------------------------------------------
(* Snapshots.                                                              *)

(* The snapshot of a text: the tag selects, the whole text decides.  There *)
(* is one at most, since a text that is recorded again keeps its snapshot. *)
Found(history, text) ==
    {i \in DOMAIN history : HashTag(history[i].text) = HashTag(text) /\ history[i].text = text}

Recorded(history, text, lines) ==
    LET existing == Found(history, text)
        i == CHOOSE j \in existing : TRUE
        all == <<[text |-> text, seen |-> lines]>> \o history
    IN  IF existing = {}
        THEN SubSeq(all, 1, IF Len(all) < HASH_HISTORY_DEPTH THEN Len(all) ELSE HASH_HISTORY_DEPTH)
        ELSE <<[text |-> text, seen |-> history[i].seen \cup lines]>> \o RemoveAt(history, i)

Find(history, text) == {history[i] : i \in Found(history, text)}

(* After the last edit no read or write of others matters.                 *)
EditsToCome ==
    \E c \in Calls : call[c].at \in {"idle", "queueing", "committing", "rolling back", "restoring"}

(* The read tool reads; its result is formatted from a second read.        *)
ReadFile ==
    /\ reading = None /\ reads < MaxReads /\ EditsToCome
    /\ reads' = reads + 1
    /\ \E f \in Files, lines \in (SUBSET Lines) \ {{}} :
          /\ Exists(f) /\ file[f] # Torn
          /\ reading' = [file |-> f, text |-> file[f], lines |-> lines]
    /\ UNCHANGED <<file, store, call, held, shown, unshown, disturbed, stuck, writes, failures>>
FormatHashReadResult ==
    /\ reading # None
    /\ LET f == reading.file IN
       /\ store' = IF Exists(f) THEN [store EXCEPT ![f] = Recorded(@, file[f], reading.lines)] ELSE store
       /\ shown' = shown \cup {<<f, text, l>> : text \in {reading.text, file[f]}, l \in reading.lines}
    /\ reading' = None
    /\ UNCHANGED <<file, call, held, unshown, disturbed, counters>>

-----------------------------------------------------------------------------
(* An edit call.                                                           *)

At(c, where) == call[c].at = where
Goes(c, where) == call' = [call EXCEPT ![c].at = where]
Ends(c) == call' = [call EXCEPT ![c] = [Idle EXCEPT !.at = "ended"]]

(* A section of the payload: its changes and the lines that they touch.    *)
(* MV deletes and adds, in this order.                                     *)
Section(f, changes, touches) == [changes |-> changes, lines |-> {<<f, file[f], l>> : l \in touches}]
Known(f) == Find(store[f], file[f])
Touchable(f) == SUBSET UNION {s.seen : s \in Known(f)}
SectionsOf(f) ==
    {Section(f, <<Change(f, file[f], None)>>, {})}
    \cup {Section(f, <<Change(f, file[f], text)>>, ls) : text \in Texts \ {file[f]}, ls \in Touchable(f)}
    \cup {Section(f, <<Change(f, file[f], None), Change(g, None, text)>>, ls) :
            text \in Texts, g \in {h \in Files : ~Exists(h)}, ls \in Touchable(f)}
Sections == UNION {SectionsOf(f) : f \in {g \in Files : Exists(g) /\ Known(g) # {}}}

(* buildHashChanges; a payload that does not fit is refused and nothing    *)
(* happens.  Its files are read one by one, but each is checked again.     *)
BuildHashChanges(c) ==
    /\ At(c, "idle") /\ \A d \in Calls : d < c => ~At(d, "idle")
    /\ \E first \in Sections :
          \/ call' = [call EXCEPT ![c] = [Idle EXCEPT !.at = "queueing", !.changes = first.changes,
                                                      !.lines = first.lines]]
          \/ \E second \in Sections :
                LET changes == first.changes \o second.changes IN
                /\ FilesOf(first.changes) \cap FilesOf(second.changes) = {}
                /\ call' = [call EXCEPT ![c] = [Idle EXCEPT !.at = "queueing", !.changes = changes,
                                                            !.lines = first.lines \cup second.lines]]
    /\ UNCHANGED <<file, store, reading, held, shown, unshown, disturbed, counters>>

(* withMutationQueues: the keys of all files, in their order.              *)
Missing(c) == {f \in FilesOf(call[c].changes) : held[f] # c}
NextKey_InPayloadOrder(c) ==
    LET keys == call[c].changes
        missing == {i \in DOMAIN keys : keys[i].file \in Missing(c)}
    IN  keys[CHOOSE i \in missing : \A j \in missing : i <= j].file
NextKey(c) == CHOOSE f \in Missing(c) : \A g \in Missing(c) : f <= g
Acquire(c) ==
    /\ At(c, "queueing") /\ Missing(c) # {}
    /\ held[NextKey(c)] = None
    /\ held' = [held EXCEPT ![NextKey(c)] = c]
    /\ UNCHANGED <<file, store, reading, call, shown, unshown, disturbed, counters>>

Released(c) == [f \in Files |-> IF held[f] = c THEN None ELSE held[f]]

(* prepareFileChange of every change: the text must be the one that the    *)
(* change was built from, a file to add must be missing.                   *)
StillFits(change) == file[change.file] = change.old
Prepare(c) ==
    /\ At(c, "queueing") /\ Missing(c) = {}
    /\ IF \A i \in DOMAIN call[c].changes : StillFits(call[c].changes[i])
       THEN Goes(c, "committing") /\ UNCHANGED held
       ELSE Ends(c) /\ held' = Released(c)
    /\ UNCHANGED <<file, store, reading, shown, unshown, disturbed, counters>>

(* commitPreparedChange: an unlink needs the file, an add needs it missing *)
(* (the wx flag), an update overwrites what is there.                      *)
Committable(change) ==
    /\ change.new = None => Exists(change.file)
    /\ change.old = None => ~Exists(change.file)
NextChange(c) == call[c].changes[call[c].done + 1]
Commit(c) ==
    /\ At(c, "committing")
    /\ LET change == NextChange(c)
           last == call[c].done + 1 = Len(call[c].changes)
       IN  IF ~Committable(change)
           THEN Goes(c, "rolling back") /\ UNCHANGED <<file, held, unshown>>
           ELSE /\ file' = [file EXCEPT ![change.file] = change.new]
                /\ call' = [call EXCEPT ![c].done = @ + 1, ![c].at = IF last THEN "applied" ELSE @]
                /\ held' = IF last THEN Released(c) ELSE held
                /\ unshown' = (unshown \/ (last /\ ~(call[c].lines \subseteq shown)))
    /\ UNCHANGED <<store, reading, shown, disturbed, counters>>

(* An abort between two changes, or a write that fails: a failed write can *)
(* leave a file torn, which is not among those that are rolled back.       *)
CommitFails(c) ==
    /\ At(c, "committing") /\ writes + failures < MaxMishaps
    /\ failures' = failures + 1
    /\ Goes(c, "rolling back")
    /\ \/ UNCHANGED <<file, disturbed>>
       \/ /\ NextChange(c).new # None
          /\ file' = [file EXCEPT ![NextChange(c).file] = Torn]
          /\ disturbed' = TRUE
    /\ UNCHANGED <<store, reading, held, shown, unshown, stuck, reads, writes>>

(* The rollback, last change first: each file is read, and written back if *)
(* it is still what the call made of it.                                   *)
LastDone(c) == call[c].changes[call[c].done]
PassedBy(c) == call' = [call EXCEPT ![c].done = @ - 1, ![c].at = "rolling back"]
RollBack(c) ==
    /\ At(c, "rolling back")
    /\ IF call[c].done = 0
       THEN Ends(c) /\ held' = Released(c)
       ELSE /\ IF file[LastDone(c).file] = LastDone(c).new THEN Goes(c, "restoring") ELSE PassedBy(c)
            /\ UNCHANGED held
    /\ UNCHANGED <<file, store, reading, shown, unshown, disturbed, counters>>
Restore(c) ==
    /\ At(c, "restoring")
    /\ PassedBy(c)
    /\ file' = [file EXCEPT ![LastDone(c).file] = LastDone(c).old]
    /\ UNCHANGED <<store, reading, held, shown, unshown, disturbed, counters>>

(* The read, the write or the unlink fails: the file stays as it is, or is *)
(* torn, and the rollback goes on with the one before it.                  *)
RestoreFails(c) ==
    /\ call[c].at \in {"rolling back", "restoring"} /\ call[c].done > 0
    /\ stuck < MaxMishaps
    /\ stuck' = stuck + 1
    /\ PassedBy(c)
    /\ \/ UNCHANGED file
       \/ /\ At(c, "restoring") /\ LastDone(c).old # None
          /\ file' = [file EXCEPT ![LastDone(c).file] = Torn]
    /\ UNCHANGED <<store, reading, held, shown, unshown, disturbed, reads, writes, failures>>

(* recordAppliedHashChanges: new texts are known, none of their lines.     *)
RecordApplied(c) ==
    /\ At(c, "applied")
    /\ Ends(c)
    /\ store' = [f \in Files |->
          IF f \notin FilesOf(call[c].changes) THEN store[f]
          ELSE LET change == call[c].changes[CHOOSE i \in DOMAIN call[c].changes :
                                                call[c].changes[i].file = f]
               IN  IF change.new = None THEN <<>> ELSE Recorded(store[f], change.new, {})]
    /\ UNCHANGED <<file, reading, held, shown, unshown, disturbed, counters>>

-----------------------------------------------------------------------------
Between(c) == call[c].at \in {"committing", "rolling back", "restoring"}

(* Somebody else writes, removes or creates a file.                        *)
Outsider ==
    /\ writes + failures < MaxMishaps /\ EditsToCome /\ (reads > 0)
    /\ writes' = writes + 1
    /\ \E f \in Files, text \in Texts \cup {None} :
          /\ text # file[f]
          /\ file' = [file EXCEPT ![f] = text]
          /\ disturbed' = (disturbed \/ \E c \in Calls : Between(c) /\ f \in FilesOf(call[c].changes))
    /\ UNCHANGED <<store, reading, call, held, shown, unshown, stuck, reads, failures>>

Next ==
    \/ ReadFile \/ FormatHashReadResult \/ Outsider
    \/ \E c \in Calls :
          \/ BuildHashChanges(c) \/ Acquire(c) \/ Prepare(c) \/ Commit(c) \/ CommitFails(c)
          \/ RollBack(c) \/ Restore(c) \/ RestoreFails(c) \/ RecordApplied(c)

Spec == Init /\ [][Next]_vars

-----------------------------------------------------------------------------
(* "Only lines shown by read may be replaced/deleted/anchored": a line     *)
(* that an edit touched was shown, of this very text, unless the file      *)
(* changed between the two reads of a read.                                *)
OnlyShownLines ==
    ~unshown

(* The files without the commits of calls that are not through.            *)
Committed ==
    [f \in Files |->
        LET open == {c \in Calls : Between(c) /\ \E i \in 1..call[c].done : call[c].changes[i].file = f}
        IN  IF open = {} THEN file[f]
            ELSE LET changes == call[CHOOSE c \in open : TRUE].changes
                 IN  changes[CHOOSE i \in DOMAIN changes : changes[i].file = f].old]

(* "An all-or-nothing multi-file edit": the files change by whole edits,   *)
(* each from the texts it was built from, or by an outsider, whatever      *)
(* calls overlap, abort or fail; a file that a rollback could not put back *)
(* stays behind alone.                                                     *)
WholeEdit ==
    \E c \in Calls : \A f \in Files :
        LET changes == call[c].changes
            of == {i \in DOMAIN changes : changes[i].file = f}
        IN  IF of = {} THEN Committed'[f] = Committed[f]
            ELSE \A i \in of : Committed[f] = changes[i].old /\ Committed'[f] = changes[i].new
StaysBehind ==
    /\ stuck' # stuck
    /\ \E f \in Files : \A g \in Files \ {f} : Committed'[g] = Committed[g]
EditsAreAtomic == [][WholeEdit \/ StaysBehind \/ writes' # writes \/ disturbed']_Committed

(* Overlapping calls never wait for each other's queues, however many.     *)
Waits(c) == At(c, "queueing") /\ Missing(c) # {}
NoQueueCycle ==
    \A ring \in (SUBSET Calls) \ {{}} : \E c \in ring : Waits(c) => held[NextKey(c)] \notin ring
=============================================================================
