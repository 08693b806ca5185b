---------------------------- MODULE ReplayOrdinals ----------------------------
(***************************************************************************)
(* The keys of a resumable run when the script calls pipeline(): agent()   *)
(* (src/workflow.ts) gives each call the next ordinal, the ordinal is part *)
(* of the journal key, and the calls of the later stages are made when the *)
(* earlier ones settle.                                                    *)
(*                                                                         *)
(* The script is the simplest deterministic one: every stage of every item *)
(* is one agent() whose prompt depends on the item and the stage alone.    *)
(* No call waits for a slot, none fails and the journal loses nothing.     *)
(***************************************************************************)
EXTENDS Naturals, Sequences

CONSTANTS
    NumItems,   \* items of the pipeline
    NumStages,  \* stages of the pipeline
    MaxResumes  \* bound: how often the run is interrupted and resumed

Items == 1..NumItems

VARIABLES
    ordinal,   \* state.ordinal of the process that runs now
    journal,   \* keys <<ordinal, item, stage>> in the journal file
    stage,     \* stages of each item that were called in this process
    key,       \* key of the item's call that is with the runner, or <<>>
    ready,     \* items whose continuation is queued as a microtask
    finished,  \* history: calls <<item, stage>> that were journaled
    resumes    \* counter of the bound

vars == <<ordinal, journal, stage, key, ready, finished, resumes>>

(* items.map starts every item before any of them settles.                 *)
Started ==
    /\ ordinal' = 0
    /\ stage' = [i \in Items |-> 0]
    /\ key' = [i \in Items |-> <<>>]
    /\ ready' = [n \in Items |-> n]

Init ==
    /\ ordinal = 0
    /\ journal = {}
    /\ stage = [i \in Items |-> 0]
    /\ key = [i \in Items |-> <<>>]
    /\ ready = [n \in Items |-> n]
    /\ finished = {}
    /\ resumes = 0

(* The oldest continuation: its item is through, or agent() takes an       *)
(* ordinal and is answered by the journal or handed to the runner.         *)
Continue ==
    /\ ready # <<>>
    /\ LET i == Head(ready)
           k == <<ordinal + 1, i, stage[i] + 1>>
       IN IF stage[i] = NumStages
          THEN /\ ready' = Tail(ready)
               /\ UNCHANGED <<ordinal, stage, key>>
          ELSE /\ ordinal' = ordinal + 1
               /\ stage' = [stage EXCEPT ![i] = @ + 1]
               /\ IF k \in journal
                  THEN ready' = Append(Tail(ready), i) /\ UNCHANGED key
                  ELSE ready' = Tail(ready) /\ key' = [key EXCEPT ![i] = k]
    /\ UNCHANGED <<journal, finished, resumes>>

(* A subagent answers, after the microtasks have run: subagents may answer *)
(* in any order.                                                           *)
Complete(i) ==
    /\ ready = <<>>
    /\ key[i] # <<>>
    /\ journal' = journal \cup {key[i]}
    /\ finished' = finished \cup {<<i, stage[i]>>}
    /\ key' = [key EXCEPT ![i] = <<>>]
    /\ ready' = <<i>>
    /\ UNCHANGED <<ordinal, stage, resumes>>

(* The process ends and the run is resumed with the same script.           *)
Resume ==
    /\ ready = <<>>
    /\ resumes < MaxResumes
    /\ resumes' = resumes + 1
    /\ Started
    /\ UNCHANGED <<journal, finished>>

Next == Continue \/ (\E i \in Items : Complete(i)) \/ Resume

Spec == Init /\ [][Next]_vars

(* workflow.ts: the ordinals of a deterministic script are stable across   *)
(* replays, "including inside parallel()/pipeline()"; README.md: completed *)
(* agents replay from cache.  No finished call is handed to the runner.    *)
FinishedCallsReplay ==
    \A i \in Items : key[i] # <<>> => <<i, stage[i]>> \notin finished
=============================================================================
