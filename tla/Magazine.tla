-------------------------------- MODULE Magazine --------------------------------
(***************************************************************************)
(* The prompt magazine (packages/pi-prompt-magazine): drafts stashed in a  *)
(* queue per Pi session, one SQLite row per session, shared by the         *)
(* processes of one working directory.  Every mutation is one IMMEDIATE    *)
(* transaction that rereads the row; what a process shows is the state of  *)
(* its last transaction or poll, and its dialogs keep what they showed     *)
(* when they were opened.                                                  *)
(*                                                                         *)
(* A draft is the number of its entry; its text plays no part.  A session  *)
(* whose file Pi has not written yet, or that the user deleted, looks      *)
(* orphaned, also to itself.  Sessions of --no-session, whose queue stays   *)
(* in memory, are left out.                                                *)
(***************************************************************************)
EXTENDS Integers, FiniteSets, SequencesExt

CONSTANTS
    Procs,          \* Pi processes of one working directory
    None,           \* no session, no draft
    Sessions,       \* the sessions of this directory
    Browsers,       \* bound: the processes whose user opens the browser
    MAGAZINE_MAX,   \* entries a queue holds
    MaxEntries,     \* bound on the drafts stashed
    MaxRevision,    \* bound on the revision of a row
    MaxStarts       \* bound on the sessions started

ASSUME MagazineAssumption ==
    /\ None \notin Sessions \cup Procs /\ Browsers \subseteq Procs
    /\ MAGAZINE_MAX \in Nat \ {0} /\ MaxEntries \in Nat /\ MaxRevision \in Nat
    /\ MaxStarts \in Nat

VARIABLES
    rows,       \* session -> its row: queue and revision, or NoRow
    files,      \* the sessions whose session file exists
    life,       \* process -> no session, its initialization, open, or no storage
    session,    \* process -> the session of its closure, or None
    parent,     \* process -> the session a fork copies from, or None
    view,       \* process -> `state` and `revision` of the closure
    dialog,     \* process -> the dialog the user is in
    editor,     \* the draft that the last step put into an editor, or None
    entries,    \* drafts made so far
    starts,     \* sessions started so far
    forked      \* history: the drafts a fork has copied

vars == <<rows, files, life, session, parent, view, dialog, editor, entries, starts, forked>>

NoRow == [queue |-> <<>>, revision |-> -1]
NoDialog == [at |-> "none"]

-----------------------------------------------------------------------------
(* Mutants: slips in the extension that the properties must notice.        *)

Queue_FromScreen(p) == view[p].queue
Drained_SameRevision(row) == [row EXCEPT !.queue = <<>>]
Drained_Not(row) == [row EXCEPT !.revision = @ + 1]
SourceUnchanged_Ignored(d) == TRUE
Reconcile_KeepsGrab(q, d) ==
    IF q = <<>> THEN [d EXCEPT !.cursor = None, !.index = 1, !.grabbed = FALSE]
    ELSE IF Contains(q, d.cursor) THEN [d EXCEPT !.index = CHOOSE i \in DOMAIN q : q[i] = d.cursor]
    ELSE LET i == IF d.index <= Len(q) THEN d.index ELSE Len(q)
         IN  [d EXCEPT !.index = i, !.cursor = q[i]]

-----------------------------------------------------------------------------
(* The queue (magazine.ts).                                                *)

Push(q, e) ==
    IF Len(q) = MAGAZINE_MAX THEN Append(Tail(q), e) ELSE Append(q, e)

IndexOf(q, e) == CHOOSE i \in DOMAIN q : q[i] = e

Within(q, to) == IF to < 1 THEN 1 ELSE IF to > Len(q) THEN Len(q) ELSE to
Move(q, from, to) == InsertAt(RemoveAt(q, from), Within(q, to), q[from])

-----------------------------------------------------------------------------
(* Storage (storage.ts).  A transaction on a session without a row starts  *)
(* from an empty one of revision 0.                                        *)

Row(s) == IF rows[s] = NoRow THEN [queue |-> <<>>, revision |-> 0] ELSE rows[s]

(* What a mutation is applied to: the row as the transaction finds it.     *)
Queue(p) == Row(session[p]).queue

(* Storage is open.                                                        *)
Writable(p) == life[p] = "open"

(* commitMutation with a changed queue: revision and row together, and the *)
(* closure adopts the result.                                              *)
Commit(p, q) ==
    LET row == [queue |-> q, revision |-> Row(session[p]).revision + 1]
    IN  /\ row.revision <= MaxRevision
        /\ rows' = [rows EXCEPT ![session[p]] = row]
        /\ view' = [view EXCEPT ![p] = row]

(* commitMutation that changed nothing adopts what it read.                *)
Adopt(p) ==
    /\ rows' = [rows EXCEPT ![session[p]] = Row(session[p])]
    /\ view' = [view EXCEPT ![p] = Row(session[p])]

(* syncFromStorage succeeds.                                               *)
InSync(p) == Writable(p) /\ rows[session[p]] # NoRow

-----------------------------------------------------------------------------
Init ==
    /\ rows = [s \in Sessions |-> NoRow]
    /\ files = {}
    /\ life = [p \in Procs |-> "off"]
    /\ session = [p \in Procs |-> None]
    /\ parent = [p \in Procs |-> None]
    /\ view = [p \in Procs |-> NoRow]
    /\ dialog = [p \in Procs |-> NoDialog]
    /\ editor = None
    /\ entries = 0
    /\ starts = 0
    /\ forked = {}

(* session_start of any session: one of this directory again, a new one,   *)
(* or one whose parent forkSourceFile names, because it was just forked or *)
(* because its header says so.                                             *)
SessionStart(p, s, from) ==
    /\ life[p] = "off"
    /\ starts < MaxStarts
    /\ from # s
    /\ starts' = starts + 1
    /\ session' = [session EXCEPT ![p] = s]
    /\ parent' = [parent EXCEPT ![p] = from]
    /\ life' = [life EXCEPT ![p] = "starting"]
    /\ UNCHANGED <<rows, files, view, dialog, entries, forked>>

(* The rest of the handler once the dependency is there: loadOrCreate      *)
(* finds the row, or makes one from the parent's or an empty one.          *)
Load(p) ==
    /\ life[p] = "starting"
    /\ LET s == session[p]
           copied == IF parent[p] # None /\ rows[s] = NoRow THEN Row(parent[p]).queue ELSE <<>>
           row == IF rows[s] # NoRow THEN rows[s] ELSE [queue |-> copied, revision |-> 0]
       IN  /\ rows' = [rows EXCEPT ![s] = row]
           /\ view' = [view EXCEPT ![p] = row]
           /\ forked' = forked \cup ToSet(copied)
    /\ life' = [life EXCEPT ![p] = "open"]
    /\ parent' = [parent EXCEPT ![p] = None]
    /\ UNCHANGED <<files, session, dialog, entries, starts>>

(* The dependency or the database cannot be had: the closure has no        *)
(* storage, and every mutation is refused.                                 *)
InitializationFails(p) ==
    /\ life[p] = "starting"
    /\ life' = [life EXCEPT ![p] = "closed"]
    /\ parent' = [parent EXCEPT ![p] = None]
    /\ UNCHANGED <<rows, files, session, view, dialog, entries, starts, forked>>

(* session_shutdown, for a reload, another session or the end; or a crash, *)
(* which may come in a dialog.                                             *)
SessionEnds(p) ==
    /\ life[p] # "off"
    /\ life' = [life EXCEPT ![p] = "off"]
    /\ session' = [session EXCEPT ![p] = None]
    /\ parent' = [parent EXCEPT ![p] = None]
    /\ view' = [view EXCEPT ![p] = NoRow]
    /\ dialog' = [dialog EXCEPT ![p] = NoDialog]
    /\ UNCHANGED <<rows, files, entries, starts, forked>>

-----------------------------------------------------------------------------
(* Pi and the user's file system: a session file appears with the first    *)
(* assistant message and may be deleted.                                   *)

FileWritten(s) ==
    /\ s \in Sessions \ files
    /\ \E p \in Procs : session[p] = s
    /\ files' = files \cup {s}
    /\ UNCHANGED <<rows, life, session, parent, view, dialog, entries, starts, forked>>

FileDeleted(s) ==
    /\ s \in files
    /\ files' = files \ {s}
    /\ UNCHANGED <<rows, life, session, parent, view, dialog, entries, starts, forked>>

(* The interval timer: another process's commit is noticed by its          *)
(* revision.                                                               *)
Polls(p) == life[p] = "open"

Poll(p) ==
    /\ Polls(p)
    /\ rows[session[p]].revision # view[p].revision
    /\ view' = [view EXCEPT ![p] = rows[session[p]]]
    /\ UNCHANGED <<rows, files, life, session, parent, dialog, entries, starts, forked>>

(* The widget of a stale context throws, and the poller closes storage.    *)
PollFails(p) ==
    /\ Polls(p)
    /\ rows[session[p]].revision # view[p].revision
    /\ view' = [view EXCEPT ![p] = rows[session[p]]]
    /\ life' = [life EXCEPT ![p] = "closed"]
    /\ UNCHANGED <<rows, files, session, parent, dialog, entries, starts, forked>>

-----------------------------------------------------------------------------
(* Commands.  A dialog has the keyboard: commands start outside one.  A    *)
(* commit that fails is rolled back and nothing is changed, except that a  *)
(* draft handed to the editor stays there.                                 *)

around == <<files, life, session, parent, starts>>
Closes(p) == dialog' = [dialog EXCEPT ![p] = NoDialog]
Shows(p, d) == dialog' = [dialog EXCEPT ![p] = d]

(* A submission that ends in `;;`, or /stash.                              *)
Stash(p) ==
    /\ Writable(p) /\ dialog[p] = NoDialog
    /\ entries < MaxEntries
    /\ Commit(p, Push(Queue(p), entries + 1))
    /\ entries' = entries + 1
    /\ UNCHANGED <<around, dialog, forked>>

(* popToEditor inside the transaction, and its end.                        *)
PopTo(p, i) ==
    /\ editor' = Queue(p)[i]
    /\ \/ Commit(p, RemoveAt(Queue(p), i))
       \/ UNCHANGED <<rows, view>>

(* /magazine N takes what is at N when the transaction runs.               *)
PopNth(p, n) ==
    /\ Writable(p) /\ dialog[p] = NoDialog
    /\ IF n \in DOMAIN Queue(p)
       THEN PopTo(p, n)
       ELSE Adopt(p) /\ editor' = None
    /\ UNCHANGED <<around, dialog, entries, forked>>

(* One round of the browser: synchronize, show the queue, and take the     *)
(* user's choice of an entry or of "clear all" from what is shown.         *)
BrowserRound(p) ==
    /\ p \in Browsers
    /\ dialog[p] \in {NoDialog, [at |-> "browser"]}
    /\ InSync(p)
    /\ view' = [view EXCEPT ![p] = rows[session[p]]]
    /\ LET shown == rows[session[p]].queue
       IN  \/ Closes(p)
          \/ /\ shown # <<>>
             /\ \/ \E e \in ToSet(shown) : Shows(p, [at |-> "entry", id |-> e])
                \/ Shows(p, [at |-> "clear", seen |-> shown, again |-> dialog[p] # NoDialog])
    /\ UNCHANGED <<around, rows, entries, forked>>

(* The browser ends when storage is gone.                                  *)
BrowserFails(p) ==
    /\ dialog[p] = [at |-> "browser"]
    /\ ~InSync(p)
    /\ Closes(p)
    /\ UNCHANGED <<around, rows, view, entries, forked>>

RestoreEntry(p) ==
    /\ dialog[p].at = "entry"
    /\ Closes(p)
    /\ IF Writable(p)
       THEN IF Contains(Queue(p), dialog[p].id)
            THEN PopTo(p, IndexOf(Queue(p), dialog[p].id))
            ELSE Adopt(p) /\ editor' = None
       ELSE editor' = None /\ UNCHANGED <<rows, view>>
    /\ UNCHANGED <<around, entries, forked>>

DeleteEntry(p) ==
    /\ dialog[p].at = "entry"
    /\ Shows(p, [at |-> "browser"])
    /\ \/ /\ Writable(p)
          /\ IF Contains(Queue(p), dialog[p].id)
             THEN Commit(p, RemoveAt(Queue(p), IndexOf(Queue(p), dialog[p].id)))
             ELSE Adopt(p)
       \/ UNCHANGED <<rows, view>>
    /\ UNCHANGED <<around, entries, forked>>

(* Back, or the full text was looked at.                                   *)
LeaveEntry(p) ==
    /\ dialog[p].at = "entry"
    /\ Shows(p, [at |-> "browser"])
    /\ UNCHANGED <<around, rows, view, entries, forked>>

(* The confirmed clear happens only if the queue is the one that was       *)
(* shown.                                                                  *)
ConfirmClear(p) ==
    /\ dialog[p].at = "clear"
    /\ Closes(p)
    /\ \/ /\ Writable(p)
          /\ IF Queue(p) = dialog[p].seen THEN Commit(p, <<>>) ELSE Adopt(p)
       \/ UNCHANGED <<rows, view>>
    /\ UNCHANGED <<around, entries, forked>>

DeclineClear(p) ==
    /\ dialog[p].at = "clear"
    /\ Shows(p, IF dialog[p].again THEN [at |-> "browser"] ELSE NoDialog)
    /\ UNCHANGED <<around, rows, view, entries, forked>>

-----------------------------------------------------------------------------
(* Order mode (order-mode.ts).                                             *)

(* The cursor follows its entry; an entry that another process removed is  *)
(* replaced by the nearest row, and the grab is released.                  *)
Reconcile(q, d) ==
    IF q = <<>> THEN [d EXCEPT !.cursor = None, !.index = 1, !.grabbed = FALSE]
    ELSE IF Contains(q, d.cursor) THEN [d EXCEPT !.index = IndexOf(q, d.cursor)]
    ELSE LET i == IF d.index <= Len(q) THEN d.index ELSE Len(q)
         IN  [d EXCEPT !.index = i, !.cursor = q[i], !.grabbed = FALSE]

OpenOrder(p) ==
    /\ dialog[p].at = "entry"
    /\ IF InSync(p)
       THEN LET q == rows[session[p]].queue
            IN  /\ view' = [view EXCEPT ![p] = rows[session[p]]]
                /\ IF Contains(q, dialog[p].id)
                   THEN Shows(p, [at |-> "order", cursor |-> dialog[p].id,
                                  index |-> IndexOf(q, dialog[p].id), grabbed |-> TRUE])
                   ELSE Closes(p)
       ELSE Closes(p) /\ UNCHANGED view
    /\ UNCHANGED <<around, rows, entries, forked>>

Repaint(p) ==
    /\ dialog[p].at = "order"
    /\ Shows(p, Reconcile(view[p].queue, dialog[p]))
    /\ UNCHANGED <<around, rows, view, entries, forked>>

Enter(p) ==
    /\ dialog[p].at = "order"
    /\ LET d == Reconcile(view[p].queue, dialog[p])
       IN  Shows(p, IF d.cursor = None THEN d ELSE [d EXCEPT !.grabbed = ~@])
    /\ UNCHANGED <<around, rows, view, entries, forked>>

(* moveById: the entry is looked up again in the row.                      *)
MoveById(p, e, delta) ==
    LET q == Queue(p)
        from == IndexOf(q, e)
        moved == IF Contains(q, e) THEN Move(q, from, from + delta) ELSE q
    IN  \/ Writable(p) /\ IF moved # q THEN Commit(p, moved) ELSE Adopt(p)
        \/ UNCHANGED <<rows, view>>

Arrow(p, delta) ==
    /\ dialog[p].at = "order"
    /\ LET shown == view[p].queue
           d == Reconcile(shown, dialog[p])
           to == IF d.index + delta \in DOMAIN shown THEN d.index + delta ELSE d.index
       IN  IF d.cursor = None
           THEN Shows(p, d) /\ UNCHANGED <<rows, view>>
           ELSE IF d.grabbed
           THEN /\ MoveById(p, d.cursor, delta)
                /\ Shows(p, Reconcile(view'[p].queue, d))
           ELSE /\ Shows(p, [d EXCEPT !.index = to, !.cursor = shown[to]])
                /\ UNCHANGED <<rows, view>>
    /\ UNCHANGED <<around, entries, forked>>

Escape(p) ==
    /\ dialog[p].at = "order"
    /\ Closes(p)
    /\ UNCHANGED <<around, rows, view, entries, forked>>

-----------------------------------------------------------------------------
(* Recovery of an orphan: a session of this directory, not this one, whose *)
(* queue is not empty and whose file does not exist.                       *)

Recoverable(s, target) == s # target /\ Row(s).queue # <<>> /\ s \notin files

OpenRecovery(p, s) ==
    /\ dialog[p] = NoDialog
    /\ InSync(p)
    /\ view' = [view EXCEPT ![p] = rows[session[p]]]
    /\ IF rows[session[p]].queue = <<>> /\ Recoverable(s, session[p])
       THEN Shows(p, [at |-> "recover", source |-> s, revision |-> rows[s].revision,
                     seen |-> rows[s].queue])
       ELSE UNCHANGED dialog
    /\ UNCHANGED <<around, rows, entries, forked>>

SourceUnchanged(d) == rows[d.source].revision = d.revision /\ d.source \notin files

Drained(row) == [queue |-> <<>>, revision |-> row.revision + 1]

(* recoverInto: the source moves only as it was listed, into a target that *)
(* is still empty.                                                         *)
ConfirmRecovery(p) ==
    /\ dialog[p].at = "recover"
    /\ Closes(p)
    /\ LET source == dialog[p].source
           target == Row(session[p])
           filled == [queue |-> Row(source).queue, revision |-> target.revision + 1]
       IN  CASE ~Writable(p) \/ ~SourceUnchanged(dialog[p]) -> UNCHANGED <<rows, view>>
             [] Writable(p) /\ SourceUnchanged(dialog[p]) /\ target.queue # <<>> ->
                   /\ view' = [view EXCEPT ![p] = target]
                   /\ UNCHANGED rows
             [] Writable(p) /\ SourceUnchanged(dialog[p]) /\ target.queue = <<>> ->
                   /\ filled.revision <= MaxRevision /\ Row(source).revision < MaxRevision
                   /\ rows' = [rows EXCEPT ![session[p]] = filled, ![source] = Drained(@)]
                   /\ view' = [view EXCEPT ![p] = filled]
    /\ UNCHANGED <<around, entries, forked>>

DeclineRecovery(p) ==
    /\ dialog[p].at = "recover"
    /\ Closes(p)
    /\ UNCHANGED <<around, rows, view, entries, forked>>

-----------------------------------------------------------------------------
Pop(p) == (\E n \in 1..MAGAZINE_MAX : PopNth(p, n)) \/ RestoreEntry(p)

Command(p) ==
    \/ Stash(p)
    \/ BrowserRound(p) \/ BrowserFails(p) \/ DeleteEntry(p) \/ LeaveEntry(p)
    \/ ConfirmClear(p) \/ DeclineClear(p)
    \/ OpenOrder(p) \/ Repaint(p) \/ Enter(p) \/ Arrow(p, -1) \/ Arrow(p, 1) \/ Escape(p)
    \/ (\E s \in Sessions : OpenRecovery(p, s)) \/ ConfirmRecovery(p) \/ DeclineRecovery(p)

Lifecycle(p) ==
    \/ \E s \in Sessions, from \in Sessions \cup {None} : SessionStart(p, s, from)
    \/ Load(p) \/ InitializationFails(p) \/ SessionEnds(p)
    \/ Poll(p) \/ PollFails(p)

Next ==
    \/ \E p \in Procs : Pop(p)
    \/ /\ \/ \E p \in Procs : Command(p) \/ Lifecycle(p)
          \/ \E s \in Sessions : FileWritten(s) \/ FileDeleted(s)
       /\ editor' = None

Spec == Init /\ [][Next]_vars

-----------------------------------------------------------------------------
(* Properties.                                                             *)

Drafts == 1..MaxEntries
IsRow(row) ==
    /\ Len(row.queue) <= MAGAZINE_MAX /\ ToSet(row.queue) \subseteq Drafts
    /\ row.revision \in -1..MaxRevision

TypeOK ==
    /\ \A s \in Sessions : IsRow(rows[s])
    /\ files \subseteq Sessions
    /\ life \in [Procs -> {"off", "starting", "open", "closed"}]
    /\ session \in [Procs -> Sessions \cup {None}] /\ parent \in [Procs -> Sessions \cup {None}]
    /\ \A p \in Procs : IsRow(view[p])
    /\ editor \in Drafts \cup {None}
    /\ entries \in 0..MaxEntries /\ starts \in 0..MaxStarts /\ forked \subseteq Drafts

InRow(s, e) == Contains(rows[s].queue, e)

(* A draft leaves a row only for a reason its user gave: it is in the      *)
(* editor of the process that popped it, its deletion or the clear was     *)
(* confirmed with it on the screen, it was the oldest of a full queue, or  *)
(* a recovery moved it to another row, confirmed with it in the list and   *)
(* from a session that could not be resumed.  No stale snapshot of another *)
(* process overwrites it.                                                  *)
DraftsLeaveDeliberately ==
    [][rows' # rows => \A s \in Sessions, e \in Drafts : InRow(s, e) /\ ~InRow(s, e)' =>
          \/ \E p \in Procs :
                /\ session[p] = s
                /\ \/ editor' = e
                   \/ dialog[p].at = "entry" /\ dialog[p].id = e
                   \/ dialog[p].at = "clear" /\ Contains(dialog[p].seen, e)
          \/ rows[s].queue[1] = e /\ Len(rows[s].queue) = MAGAZINE_MAX
          \/ /\ s \notin files
             /\ \E p \in Procs :
                   /\ dialog[p].at = "recover" /\ dialog[p].source = s
                   /\ Contains(dialog[p].seen, e) /\ InRow(session[p], e)'
       ]_vars

(* Recovery moves drafts, a fork copies them: only a draft that a fork has *)
(* copied is in two queues, and none twice in one, whoever recovers the    *)
(* queue of a session that comes back meanwhile.                           *)
OneQueuePerDraft ==
    /\ \A s \in Sessions : IsInjective(rows[s].queue)
    /\ \A s, t \in Sessions, e \in Drafts :
          s # t /\ InRow(s, e) /\ InRow(t, e) => e \in forked

(* Polling compares revisions only: two states of a row never share one,   *)
(* so a process that has the row's revision shows the row's queue.         *)
RevisionNamesQueue ==
    \A p \in Procs :
        life[p] = "open" /\ view[p].revision = rows[session[p]].revision
            => view[p].queue = rows[session[p]].queue

(* Order mode moves the entry the user grabbed and no other, also when     *)
(* another process removed that entry under the cursor.                    *)
OnlyTheGrabbedMoves ==
    [][rows' # rows => \A s \in Sessions :
          /\ ToSet(rows'[s].queue) = ToSet(rows[s].queue)
          /\ rows'[s].queue # rows[s].queue
          => \E p \in Procs :
                /\ session[p] = s /\ dialog[p].at = "order" /\ dialog[p].grabbed
                /\ InRow(s, dialog[p].cursor)
                /\ IndexOf(rows'[s].queue, dialog[p].cursor) # IndexOf(rows[s].queue, dialog[p].cursor)
      ]_vars

=============================================================================
