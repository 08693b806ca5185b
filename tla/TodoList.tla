------------------------------- MODULE TodoList -------------------------------
(***************************************************************************)
(* The todo tool (agent_extensions/0022-todo.ts): a list of phases, each a *)
(* sequence of tasks, that the model edits with one operation per call.    *)
(* The list is nowhere stored but in the tool results of the session: each *)
(* result carries the whole list, and a session start or a move in the     *)
(* session tree takes the list from the last result of the branch.         *)
(*                                                                         *)
(* A task is addressed by its content, a model value; blockers, wording    *)
(* and the check of names (non-empty, trimmed, one line) are left out.     *)
(***************************************************************************)
EXTENDS Integers, Sequences, FiniteSets, SequencesExt

CONSTANTS
    Tasks,       \* contents of tasks
    Names,       \* names of phases
    MaxEntries,  \* entries of a branch
    None

VARIABLES
    phases,      \* the list in memory
    branch,      \* the entries of the session's branch: snapshots and Other
    result       \* the snapshot of an executed call whose result is not in the branch yet

vars == <<phases, branch, result>>

(* Entries of a branch: the list of a todo result, or anything else.      *)
Snapshot(list) == <<list>>
Other == <<>>

Open == {"pending", "in_progress", "blocked"}

TasksOf(list) == FlattenSeq([i \in DOMAIN list |-> list[i].tasks])
Contents(list) == {TasksOf(list)[i].content : i \in DOMAIN TasksOf(list)}
Phase(list, name) == {i \in DOMAIN list : list[i].name = name}
With(list, status(_, _)) ==
    [i \in DOMAIN list |-> [list[i] EXCEPT !.tasks =
        [j \in DOMAIN @ |-> [@[j] EXCEPT !.status = status(list[i], list[i].tasks[j])]]]]
WithContent(list, content, status) ==
    With(list, LAMBDA p, t : IF t.content = content THEN status ELSE t.status)

(* Items as new tasks of a phase.                                          *)
Fresh(items) == [i \in DOMAIN items |-> [content |-> items[i], status |-> "pending"]]

(* The first of several active tasks stays active; without one the first   *)
(* pending task becomes active.                                            *)
FirstOf(list, status) ==
    LET all == TasksOf(list)
        of == {i \in DOMAIN all : all[i].status = status}
    IN  IF of = {} THEN None
        ELSE all[CHOOSE i \in of : \A j \in of : i <= j].content
NormalizeProgress(list) ==
    LET active == FirstOf(list, "in_progress")
    IN  IF active # None
        THEN With(list, LAMBDA p, t : IF t.status = "in_progress" /\ t.content # active
                                      THEN "pending" ELSE t.status)
        ELSE IF FirstOf(list, "pending") = None THEN list
        ELSE WithContent(list, FirstOf(list, "pending"), "in_progress")

-----------------------------------------------------------------------------
(* The operations; an operation that is refused leaves the list alone.     *)

Failed == [failed |-> TRUE, list |-> <<>>]
Ok(list) == [failed |-> FALSE, list |-> list]

InitPhases(list) ==
    LET items == FlattenSeq([i \in DOMAIN list |-> list[i].items])
    IN  IF list = <<>> \/ (\E i \in DOMAIN list : list[i].items = <<>>)
           \/ Cardinality(Range(items)) # Len(items)
           \/ (\E i, j \in DOMAIN list : i # j /\ list[i].phase = list[j].phase)
        THEN Failed
        ELSE Ok([i \in DOMAIN list |-> [name |-> list[i].phase, tasks |-> Fresh(list[i].items)]])

(* A task's status after start: every active task waits for the started.   *)
Start(list, task) ==
    IF task \notin Contents(list) THEN Failed
    ELSE Ok(With(list, LAMBDA p, t : IF t.content = task THEN "in_progress"
                                     ELSE IF t.status = "in_progress" THEN "pending"
                                     ELSE t.status))

Settled(op, status) ==
    CASE op = "done" -> "completed"
      [] op = "drop" -> "abandoned"
      [] op = "block" -> IF status \in Open THEN "blocked" ELSE status
      [] op = "unblock" -> IF status = "blocked" THEN "pending" ELSE status

(* done, drop, block and unblock want exactly one of a task and a phase.   *)
Target(list, op, task, phase) ==
    CASE (task = None) = (phase = None) -> Failed
      [] task # None /\ task \notin Contents(list) -> Failed
      [] phase # None /\ Phase(list, phase) = {} -> Failed
      [] OTHER -> Ok(With(list, LAMBDA p, t :
                      IF t.content = task \/ p.name = phase THEN Settled(op, t.status)
                      ELSE t.status))

AppendItems_AnyContent(list, phase, items) ==
    IF phase = None \/ items = <<>> THEN Failed
    ELSE IF Phase(list, phase) = {}
    THEN Ok(Append(list, [name |-> phase, tasks |-> Fresh(items)]))
    ELSE Ok([i \in DOMAIN list |-> IF list[i].name # phase THEN list[i]
             ELSE [list[i] EXCEPT !.tasks = @ \o Fresh(items)]])
AppendItems(list, phase, items) ==
    IF phase = None \/ items = <<>> \/ Cardinality(Range(items)) # Len(items)
       \/ Range(items) \cap Contents(list) # {}
    THEN Failed
    ELSE IF Phase(list, phase) = {}
    THEN Ok(Append(list, [name |-> phase, tasks |-> Fresh(items)]))
    ELSE Ok([i \in DOMAIN list |-> IF list[i].name # phase THEN list[i]
             ELSE [list[i] EXCEPT !.tasks = @ \o Fresh(items)]])

(* A phase that loses its last task goes; rm without a target clears.      *)
Rm(list, task, phase) ==
    LET without == [i \in DOMAIN list |->
                       [list[i] EXCEPT !.tasks = SelectSeq(@, LAMBDA t : t.content # task)]]
    IN  CASE task # None /\ phase # None -> Failed
          [] task # None /\ phase = None ->
                IF task \notin Contents(list) THEN Failed
                ELSE Ok(SelectSeq(without, LAMBDA p : p.tasks # <<>>))
          [] task = None /\ phase # None ->
                IF Phase(list, phase) = {} THEN Failed
                ELSE Ok(SelectSeq(list, LAMBDA p : p.name # phase))
          [] OTHER -> Ok(<<>>)

Apply(list, op) ==
    CASE op.op = "view" -> Ok(list)
      [] op.op = "init" -> InitPhases(op.list)
      [] op.op = "start" -> Start(list, op.task)
      [] op.op \in {"done", "drop", "block", "unblock"} -> Target(list, op.op, op.task, op.phase)
      [] op.op = "append" -> AppendItems(list, op.phase, op.items)
      [] op.op = "rm" -> Rm(list, op.task, op.phase)

ApplyTodoOperation(list, op) ==
    LET applied == Apply(list, op)
    IN  IF applied.failed THEN list
        ELSE IF op.op = "view" THEN applied.list
        ELSE NormalizeProgress(applied.list)

Items == {<<t>> : t \in Tasks} \cup {<<t, u>> : t, u \in Tasks}
Operations ==
    [op : {"view"}]
    \cup [op : {"init"}, list : {<<>>} \cup {<<[phase |-> n, items |-> i]>> : n \in Names, i \in Items}]
    \cup [op : {"start"}, task : Tasks]
    \cup [op : {"done", "drop", "block", "unblock", "rm"}, task : Tasks \cup {None},
          phase : Names \cup {None}]
    \cup [op : {"append"}, phase : Names \cup {None}, items : Items]

-----------------------------------------------------------------------------
(* The session.                                                            *)

(* The list of the last result in a branch.                                *)
SnapshotFromContext_First(entries) ==
    LET of == {i \in DOMAIN entries : entries[i] # Other}
    IN  IF of = {} THEN <<>> ELSE entries[CHOOSE i \in of : \A j \in of : i <= j][1]
SnapshotFromContext(entries) ==
    LET of == {i \in DOMAIN entries : entries[i] # Other}
    IN  IF of = {} THEN <<>> ELSE entries[CHOOSE i \in of : \A j \in of : i >= j][1]

Init ==
    /\ phases = <<>>
    /\ branch = <<>>
    /\ result = None

(* The tool runs; its result carries the list, changed or not.             *)
Execute(op) ==
    /\ result = None
    /\ Len(branch) < MaxEntries
    /\ phases' = ApplyTodoOperation(phases, op)
    /\ result' = phases'
    /\ UNCHANGED branch

(* Pi appends the tool result to the branch.                               *)
Record ==
    /\ result # None
    /\ branch' = Append(branch, Snapshot(result))
    /\ result' = None
    /\ UNCHANGED phases

(* Any other entry: prompts, answers, compactions, results of other tools. *)
Say ==
    /\ result = None
    /\ Len(branch) < MaxEntries
    /\ branch' = Append(branch, Other)
    /\ UNCHANGED <<phases, result>>

(* session_tree: the user moves to an earlier entry, and a new branch may  *)
(* grow from there; the list follows.                                      *)
Navigate ==
    /\ result = None
    /\ \E n \in 0..Len(branch) - 1 : branch' = SubSeq(branch, 1, n)
    /\ phases' = SnapshotFromContext(branch')
    /\ UNCHANGED result

(* The process ends, at any time, and the session is opened again.         *)
Restart ==
    /\ result' = None
    /\ phases' = SnapshotFromContext(branch)
    /\ UNCHANGED branch

Next == (\E op \in Operations : Execute(op)) \/ Record \/ Say \/ Navigate \/ Restart

Spec == Init /\ [][Next]_vars

-----------------------------------------------------------------------------
(* Exactly one task is active while there is one to work on, and none is   *)
(* listed twice: the contents are the addresses.                           *)
ListIsWellFormed ==
    LET all == TasksOf(phases)
        active == {i \in DOMAIN all : all[i].status = "in_progress"}
        pending == {i \in DOMAIN all : all[i].status = "pending"}
    IN  /\ Cardinality(Contents(phases)) = Len(all)
        /\ Cardinality(active) <= 1
        /\ pending # {} => active # {}
        /\ \A i, j \in DOMAIN phases : phases[i].name = phases[j].name => i = j
        /\ \A i \in DOMAIN phases : phases[i].tasks # <<>>

(* What the tool works on is what the branch says, wherever the user moved *)
(* and however the session came to an end.                                 *)
ListFollowsBranch ==
    phases = IF result # None THEN result ELSE SnapshotFromContext(branch)
=============================================================================
