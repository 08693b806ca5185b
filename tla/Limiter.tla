------------------------------- MODULE Limiter -------------------------------
(***************************************************************************)
(* The slot limiter of pi-dynamic-workflow.  The code has it twice, with   *)
(* the same body: createLimiter (src/workflow.ts), which bounds subagents, *)
(* and WorktreeManager.acquireSlot / releaseSlot (src/worktree.ts), which  *)
(* bounds git worktrees.                                                   *)
(*                                                                         *)
(* The limiter is single-threaded but not atomic.  `if (active >= limit)   *)
(* await ...; active++` splits a call that has to wait into two jobs: it   *)
(* parks its resolver in `queue`, a later release resolves the promise,    *)
(* and the continuation that does `active++` is a microtask that runs      *)
(* after the jobs already queued ahead of it.  In between the call is in   *)
(* `woken`.  Microtasks run in the order they were queued, so `woken` is a *)
(* FIFO; which other jobs sit ahead of its head is up to the caller, so    *)
(* any call may be made while it waits.                                    *)
(***************************************************************************)
EXTENDS Naturals, Sequences, FiniteSets

CONSTANTS
    NumCalls,     \* bound: how many callers there are
    Concurrency   \* limit / maxSlots: the code clamps both to at least 1

ASSUME LimiterAssumption == NumCalls \in Nat /\ Concurrency \in Nat \ {0}

(* The callers: each makes one call of the limiter at a time.              *)
Calls == 1..NumCalls

VARIABLES
    active,     \* the counter `active`
    queue,      \* parked resolvers, oldest first
    woken,      \* promise resolved, continuation not run yet, oldest first
    slot,       \* where each caller is
    excess      \* history: slots given away twice and not yet paid back

limiter == <<active, queue, woken, slot, excess>>

States == {"idle", "parked", "woken", "running", "done"}

RunningTasks == {t \in Calls : slot[t] = "running"}

-----------------------------------------------------------------------------
(* Mutants: slips in createLimiter that the properties below must notice.  *)

SlotFree_OffByOne == active <= Concurrency
Wakes_UnlessLast == Len(queue) > 1
Parked_Front(t) == <<t>> \o queue
Counted_Forgotten == active

-----------------------------------------------------------------------------
LInit ==
    /\ active = 0
    /\ queue = <<>>
    /\ woken = <<>>
    /\ slot = [t \in Calls |-> "idle"]
    /\ excess = 0

(* The complement of the check that makes a caller wait: active >= limit.  *)
SlotFree == active < Concurrency

(* `active++`: the same counter step for a call that waited and one that   *)
(* did not.                                                                *)
Counted == active + 1

(* The slots in use or already promised to a woken caller.                 *)
Committed == active + Len(woken)

(* The slot a call finds now was promised to a woken caller.               *)
Barges == woken # <<>> /\ Committed >= Concurrency

(* A call that finds a slot: the check and active++ are one synchronous    *)
(* step.                                                                   *)
Enter(t) ==
    /\ slot[t] = "idle"
    /\ SlotFree
    /\ active' = Counted
    /\ slot' = [slot EXCEPT ![t] = "running"]
    /\ excess' = IF Barges THEN excess + 1 ELSE excess
    /\ UNCHANGED <<queue, woken>>

(* queue.push(resolve).                                                    *)
Parked(t) == Append(queue, t)

(* A call that finds none parks its resolver.                              *)
Park(t) ==
    /\ slot[t] = "idle"
    /\ ~SlotFree
    /\ queue' = Parked(t)
    /\ slot' = [slot EXCEPT ![t] = "parked"]
    /\ UNCHANGED <<active, woken, excess>>

(* The continuation of the oldest woken call: active++ with no re-check.   *)
Resume(t) ==
    /\ woken # <<>>
    /\ t = Head(woken)
    /\ active' = Counted
    /\ woken' = Tail(woken)
    /\ slot' = [slot EXCEPT ![t] = "running"]
    /\ UNCHANGED <<queue, excess>>

(* queue.shift()?.(): whether a release has a parked call to resolve.      *)
Wakes == queue # <<>>

(* next() / releaseSlot(): give the slot back and resolve one parked call. *)
Release(t) ==
    /\ slot[t] = "running"
    /\ active' = active - 1
    /\ IF Wakes
       THEN /\ queue' = Tail(queue)
            /\ woken' = Append(woken, Head(queue))
            /\ slot' = [slot EXCEPT ![t] = "done", ![Head(queue)] = "woken"]
            /\ UNCHANGED excess
       ELSE /\ slot' = [slot EXCEPT ![t] = "done"]
            /\ excess' = IF excess = 0 THEN 0 ELSE excess - 1
            /\ UNCHANGED <<queue, woken>>

(* The same caller comes back, as `while (...) await agent()` does.        *)
Recall(t) ==
    /\ slot[t] = "done"
    /\ slot' = [slot EXCEPT ![t] = "idle"]
    /\ UNCHANGED <<active, queue, woken, excess>>

Step(t) == Enter(t) \/ Park(t) \/ Resume(t) \/ Release(t) \/ Recall(t)

LNext == \E t \in Calls : Step(t)

(* A queued microtask always runs; the work inside a slot ends (the stall  *)
(* guard, the abort signal or the exit of the git process see to that).    *)
LFairness == \A t \in Calls : WF_limiter(Resume(t)) /\ WF_limiter(Release(t))

LSpec == LInit /\ [][LNext]_limiter
LFairSpec == LSpec /\ LFairness

-----------------------------------------------------------------------------
(* The types: the queues hold callers only and the counters never go below *)
(* zero, whatever the order of releases.                                   *)
LTypeOK ==
    /\ active \in Nat
    /\ queue \in Seq(Calls)
    /\ woken \in Seq(Calls)
    /\ slot \in [Calls -> States]
    /\ excess \in Nat

(* `active` is the number of callers inside a slot, after any mix of       *)
(* direct entries and hand-overs: no slot is counted twice or leaked.      *)
ActiveCountsRunning == active = Cardinality(RunningTasks)

(* A call waits only while every slot is in use or promised to a woken     *)
(* call: no release is lost while somebody is parked.                      *)
NoLostWakeup == queue # <<>> => Committed >= Concurrency

(* The bound createLimiter really gives: the slots in use or promised pass *)
(* Concurrency by no more than the calls that took a promised slot.        *)
OverflowOnlyByBarging == Committed <= Concurrency + excess

(* README.md says of the run "Concurrency is capped at min(16, cpus - 2)", *)
(* and worktree.ts of its slots that they bound how many exist.            *)
ActiveWithinLimit == active <= Concurrency

(* Every parked call is eventually admitted, also when the others keep     *)
(* coming back and barge into the slots released for it.                   *)
ParkedIsAdmitted == \A t \in Calls : (slot[t] = "parked") ~> (slot[t] = "running")
=============================================================================
