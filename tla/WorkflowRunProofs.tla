--------------------------- MODULE WorkflowRunProofs ---------------------------
(***************************************************************************)
(* What runWorkflow guarantees for every number of calls, every limit and  *)
(* every set of journaled and isolated calls.                              *)
(*                                                                         *)
(* First the limiter by itself.  Its properties are not inductive alone:   *)
(* that `active` stays the number of running calls needs the hand-over to  *)
(* reach a call that is parked and in the queue once, which                *)
(* ListsMatchStates adds.                                                  *)
(*                                                                         *)
(* Every step of the run is a step of the limiter or leaves it alone       *)
(* (LimiterStep), so LimiterInv holds inside a run.  What is added,        *)
(* CallInv, ties the fields of one call to the place it is at.             *)
(***************************************************************************)
EXTENDS WorkflowRun, FiniteSetTheorems, SequenceTheorems, NaturalsInduction, WellFoundedInduction, TLAPS

NoRepeats(s) == \A i, j \in 1..Len(s) : s[i] = s[j] => i = j

(* Each list holds calls of its own state, each call once.                 *)
ListsMatchStates ==
    /\ NoRepeats(queue)
    /\ NoRepeats(woken)
    /\ \A i \in 1..Len(queue) : slot[queue[i]] = "parked"
    /\ \A i \in 1..Len(woken) : slot[woken[i]] = "woken"

LimiterInv ==
    /\ LTypeOK
    /\ ListsMatchStates
    /\ ActiveCountsRunning
    /\ NoLostWakeup
    /\ OverflowOnlyByBarging

Undecided == {"uncalled", "queued"} \cup InBody
InSlot == InBody \cup {"releasing", "closing"}

CallInv(c) ==
    /\ stage[c] = "uncalled" <=> c > ordinal
    /\ outcome[c] = "none" <=> stage[c] \in Undecided
    /\ stage[c] \notin {"uncalled", "settled"} => c \notin Journaled
    /\ c \in journal \ Journaled <=> outcome[c] = "value"
    /\ c \in killControls <=> stage[c] \in InBody
    /\ slot[c] = "running" <=> stage[c] \in InSlot
    /\ slot[c] \in {"parked", "woken"} <=> stage[c] = "queued"
    /\ stage[c] \in {"uncalled", "queued"} => shown[c] = "none"
    /\ stage[c] \in InBody => shown[c] \in {"running", "skipped"}
    /\ shown[c] = "skipped" => aborted

RunInv ==
    /\ RunTypeOK
    /\ Journaled \subseteq journal
    /\ \A c \in Calls : CallInv(c)

IInv == LimiterInv /\ RunInv

-----------------------------------------------------------------------------
(* The limiter.                                                            *)

LEMMA CallsFinite == Concurrency \in Nat \ {0} /\ IsFiniteSet(Calls)
<1>1. 1 \in Int /\ NumCalls \in Int /\ Concurrency \in Nat \ {0}
  BY LimiterAssumption DEF LimiterAssumption
<1> QED BY <1>1, FS_Interval DEF Calls

(* Dropping the head keeps a list free of repeats and drops only the head. *)
LEMMA TailFacts ==
    ASSUME NEW S, NEW s \in Seq(S), s # <<>>, NoRepeats(s)
    PROVE  /\ Head(s) \in S
           /\ Head(s) = s[1]
           /\ Tail(s) \in Seq(S)
           /\ Len(s) \in Nat \ {0}
           /\ Len(Tail(s)) = Len(s) - 1
           /\ NoRepeats(Tail(s))
           /\ \A i \in 1..Len(Tail(s)) : /\ Tail(s)[i] = s[i + 1]
                                         /\ i + 1 \in 1..Len(s)
                                         /\ Tail(s)[i] # Head(s)
<1>1. /\ Head(s) \in S
      /\ Head(s) = s[1]
      /\ Tail(s) \in Seq(S)
      /\ Len(s) \in Nat \ {0}
      /\ Len(Tail(s)) = Len(s) - 1
      /\ \A i \in 1..Len(Tail(s)) : Tail(s)[i] = s[i + 1]
  BY HeadTailProperties, EmptySeq, LenProperties
<1>2. \A i \in 1..Len(Tail(s)) : i + 1 \in 1..Len(s) /\ i + 1 # 1
  BY <1>1
<1>3. 1 \in 1..Len(s)
  BY <1>1
<1>4. NoRepeats(Tail(s))
  BY <1>1, <1>2 DEF NoRepeats
<1>5. \A i \in 1..Len(Tail(s)) : Tail(s)[i] # Head(s)
  BY <1>1, <1>2, <1>3 DEF NoRepeats
<1> QED BY <1>1, <1>2, <1>4, <1>5

(* Appending a new element keeps a list free of repeats.                   *)
LEMMA AppendFacts ==
    ASSUME NEW S, NEW s \in Seq(S), NEW e \in S, NoRepeats(s),
           \A i \in 1..Len(s) : s[i] # e
    PROVE  /\ Append(s, e) \in Seq(S)
           /\ Append(s, e) # <<>>
           /\ Len(s) \in Nat
           /\ Len(Append(s, e)) = Len(s) + 1
           /\ NoRepeats(Append(s, e))
           /\ \A i \in 1..Len(Append(s, e)) :
                 Append(s, e)[i] = IF i = Len(s) + 1 THEN e ELSE s[i]
<1>1. /\ Append(s, e) \in Seq(S)
      /\ Append(s, e) # <<>>
      /\ Len(s) \in Nat
      /\ Len(Append(s, e)) = Len(s) + 1
      /\ \A i \in 1..Len(s) : Append(s, e)[i] = s[i]
      /\ Append(s, e)[Len(s) + 1] = e
  BY AppendProperties, LenProperties
<1>2. \A i \in 1..(Len(s) + 1) : i = Len(s) + 1 \/ i \in 1..Len(s)
  BY <1>1
<1>3. NoRepeats(Append(s, e))
  BY <1>1, <1>2 DEF NoRepeats
<1> QED BY <1>1, <1>2, <1>3

(* A caller that enters a slot makes the running callers one more, and one *)
(* that leaves makes them one fewer.                                       *)
LEMMA RunningFacts ==
    ASSUME slot \in [Calls -> States]
    PROVE  /\ IsFiniteSet(RunningTasks)
           /\ Cardinality(RunningTasks) \in Nat
           /\ \A t \in Calls : slot[t] = "running" => Cardinality(RunningTasks) > 0
           /\ \A t \in Calls : slot[t] = "running" =>
                 Cardinality(RunningTasks \ {t}) = Cardinality(RunningTasks) - 1
           /\ \A t \in Calls : slot[t] # "running" =>
                 Cardinality(RunningTasks \cup {t}) = Cardinality(RunningTasks) + 1
<1>1. IsFiniteSet(RunningTasks)
  BY CallsFinite, FS_Subset DEF RunningTasks
<1>2. Cardinality(RunningTasks) \in Nat
  BY <1>1, FS_CardinalityType
<1>3. ASSUME NEW t \in Calls, slot[t] = "running"
      PROVE  /\ Cardinality(RunningTasks) > 0
             /\ Cardinality(RunningTasks \ {t}) = Cardinality(RunningTasks) - 1
  <2>1. t \in RunningTasks
    BY <1>3 DEF RunningTasks
  <2>2. Cardinality(RunningTasks) # 0
    BY <1>1, <2>1, FS_EmptySet
  <2>3. Cardinality(RunningTasks \ {t}) = Cardinality(RunningTasks) - 1
    BY <1>1, <2>1, FS_RemoveElement
  <2> QED BY <1>2, <2>2, <2>3
<1>4. ASSUME NEW t \in Calls, slot[t] # "running"
      PROVE  Cardinality(RunningTasks \cup {t}) = Cardinality(RunningTasks) + 1
  <2>1. t \notin RunningTasks
    BY <1>4 DEF RunningTasks
  <2> QED BY <1>1, <2>1, FS_AddElement
<1> QED BY <1>1, <1>2, <1>3, <1>4

-----------------------------------------------------------------------------
(* The idle limiter satisfies the invariant.                               *)
LEMMA LimiterInit == LInit => LimiterInv
<1> SUFFICES ASSUME LInit PROVE LimiterInv
  OBVIOUS
<1>1. LTypeOK
  BY DEF LInit, LTypeOK, States
<1>2. ListsMatchStates
  BY DEF LInit, ListsMatchStates, NoRepeats
<1>3. ActiveCountsRunning
  <2>1. RunningTasks = {}
    BY DEF LInit, RunningTasks
  <2> QED BY <2>1, FS_EmptySet DEF LInit, ActiveCountsRunning
<1>4. NoLostWakeup
  BY DEF LInit, NoLostWakeup
<1>5. OverflowOnlyByBarging
  BY CallsFinite DEF LInit, OverflowOnlyByBarging, Committed
<1> QED BY <1>1, <1>2, <1>3, <1>4, <1>5 DEF LimiterInv

(* A direct entry takes a free slot, or barges and is counted in excess.   *)
LEMMA LimiterEnters ==
    ASSUME LimiterInv, NEW t \in Calls, Enter(t) PROVE LimiterInv'
<1> USE DEF Enter, SlotFree, Counted, Barges
<1>1. LTypeOK'
  BY DEF LimiterInv, LTypeOK, States
<1>2. ListsMatchStates'
  BY DEF LimiterInv, LTypeOK, ListsMatchStates, NoRepeats
<1>3. ActiveCountsRunning'
  <2>1. RunningTasks' = RunningTasks \cup {t}
    BY DEF LimiterInv, LTypeOK, RunningTasks
  <2> QED BY <2>1, RunningFacts DEF LimiterInv, LTypeOK, ActiveCountsRunning
<1>4. Len(woken) \in Nat /\ active \in Nat /\ excess \in Nat /\ Concurrency \in Nat
  BY CallsFinite, LenProperties DEF LimiterInv, LTypeOK
<1>5. NoLostWakeup'
  BY <1>4 DEF LimiterInv, NoLostWakeup, Committed
<1>6. OverflowOnlyByBarging'
  <2>1. woken = <<>> => Len(woken) = 0
    OBVIOUS
  <2> QED BY <1>4, <2>1 DEF LimiterInv, OverflowOnlyByBarging, Committed
<1> QED BY <1>1, <1>2, <1>3, <1>5, <1>6 DEF LimiterInv

(* A call parks only while every slot is in use.                           *)
LEMMA LimiterParks ==
    ASSUME LimiterInv, NEW t \in Calls, Park(t) PROVE LimiterInv'
<1> USE DEF Park, SlotFree, Parked
<1>0. \A i \in 1..Len(queue) : queue[i] # t
  BY DEF LimiterInv, ListsMatchStates
<1>1. /\ Append(queue, t) \in Seq(Calls)
      /\ Len(queue) \in Nat
      /\ Len(Append(queue, t)) = Len(queue) + 1
      /\ NoRepeats(Append(queue, t))
      /\ \A i \in 1..Len(Append(queue, t)) :
            Append(queue, t)[i] = IF i = Len(queue) + 1 THEN t ELSE queue[i]
  BY <1>0, AppendFacts DEF LimiterInv, LTypeOK, ListsMatchStates
<1>2. LTypeOK'
  BY <1>1 DEF LimiterInv, LTypeOK, States
<1>3. ListsMatchStates'
  <2>1. \A i \in 1..Len(queue') : slot'[queue'[i]] = "parked"
    <3> SUFFICES ASSUME NEW i \in 1..Len(queue') PROVE slot'[queue'[i]] = "parked"
      OBVIOUS
    <3>1. CASE i = Len(queue) + 1
      BY <1>1, <3>1 DEF LimiterInv, LTypeOK
    <3>2. CASE i \in 1..Len(queue)
      BY <1>0, <1>1, <3>2, ElementOfSeq DEF LimiterInv, LTypeOK, ListsMatchStates
    <3> QED BY <1>1, <3>1, <3>2
  <2>2. \A i \in 1..Len(woken') : slot'[woken'[i]] = "woken"
    BY ElementOfSeq DEF LimiterInv, LTypeOK, ListsMatchStates
  <2> QED BY <1>1, <2>1, <2>2 DEF LimiterInv, ListsMatchStates, NoRepeats
<1>4. ActiveCountsRunning'
  <2>1. RunningTasks' = RunningTasks
    BY DEF LimiterInv, LTypeOK, RunningTasks
  <2> QED BY <2>1 DEF LimiterInv, ActiveCountsRunning
<1>5. Len(woken) \in Nat /\ active \in Nat /\ Concurrency \in Nat
  BY CallsFinite, LenProperties DEF LimiterInv, LTypeOK
<1>6. NoLostWakeup'
  BY <1>5 DEF NoLostWakeup, Committed
<1>7. OverflowOnlyByBarging'
  BY DEF LimiterInv, OverflowOnlyByBarging, Committed
<1> QED BY <1>2, <1>3, <1>4, <1>6, <1>7 DEF LimiterInv

(* A woken call turns its promise into a slot in use.                      *)
LEMMA LimiterResumes ==
    ASSUME LimiterInv, NEW t \in Calls, Resume(t) PROVE LimiterInv'
<1> USE DEF Resume, Counted
<1>1. /\ t = woken[1]
      /\ Tail(woken) \in Seq(Calls)
      /\ Len(woken) \in Nat \ {0}
      /\ Len(Tail(woken)) = Len(woken) - 1
      /\ NoRepeats(Tail(woken))
      /\ \A i \in 1..Len(Tail(woken)) : /\ Tail(woken)[i] = woken[i + 1]
                                        /\ i + 1 \in 1..Len(woken)
                                        /\ Tail(woken)[i] # t
  BY TailFacts DEF LimiterInv, LTypeOK, ListsMatchStates
<1>2. slot[t] = "woken"
  BY <1>1 DEF LimiterInv, ListsMatchStates
<1>3. LTypeOK'
  BY <1>1 DEF LimiterInv, LTypeOK, States
<1>4. ListsMatchStates'
  <2>1. \A i \in 1..Len(queue') : slot'[queue'[i]] = "parked"
    BY <1>2, ElementOfSeq DEF LimiterInv, LTypeOK, ListsMatchStates
  <2>2. \A i \in 1..Len(woken') : slot'[woken'[i]] = "woken"
    BY <1>1, ElementOfSeq DEF LimiterInv, LTypeOK, ListsMatchStates
  <2> QED BY <1>1, <2>1, <2>2 DEF LimiterInv, ListsMatchStates, NoRepeats
<1>5. ActiveCountsRunning'
  <2>1. RunningTasks' = RunningTasks \cup {t}
    BY DEF LimiterInv, LTypeOK, RunningTasks
  <2> QED BY <1>2, <2>1, RunningFacts DEF LimiterInv, LTypeOK, ActiveCountsRunning
<1>6. active \in Nat /\ Concurrency \in Nat
  BY CallsFinite DEF LimiterInv, LTypeOK
<1>7. Committed' = Committed
  BY <1>1, <1>6 DEF Committed
<1>8. NoLostWakeup' /\ OverflowOnlyByBarging'
  BY <1>7 DEF LimiterInv, NoLostWakeup, OverflowOnlyByBarging
<1> QED BY <1>3, <1>4, <1>5, <1>8 DEF LimiterInv

(* A release moves its slot to the oldest parked call, or frees it.        *)
LEMMA LimiterReleases ==
    ASSUME LimiterInv, NEW t \in Calls, Release(t) PROVE LimiterInv'
<1> USE DEF Release, Wakes
<1>1. active \in Nat \ {0} /\ Concurrency \in Nat \ {0} /\ excess \in Nat /\ Len(woken) \in Nat
  BY CallsFinite, RunningFacts, LenProperties
  DEF LimiterInv, LTypeOK, ActiveCountsRunning
<1>2. ASSUME RunningTasks' = RunningTasks \ {t} PROVE ActiveCountsRunning'
  BY <1>2, RunningFacts DEF LimiterInv, LTypeOK, ActiveCountsRunning
<1>3. CASE queue = <<>>
  <2>1. LTypeOK'
    BY <1>1, <1>3 DEF LimiterInv, LTypeOK, States
  <2>2. ListsMatchStates'
    BY <1>3, ElementOfSeq DEF LimiterInv, LTypeOK, ListsMatchStates, NoRepeats
  <2>3. RunningTasks' = RunningTasks \ {t}
    BY <1>3 DEF LimiterInv, LTypeOK, RunningTasks
  <2>4. NoLostWakeup'
    BY <1>3 DEF NoLostWakeup
  <2>5. OverflowOnlyByBarging'
    BY <1>1, <1>3 DEF LimiterInv, OverflowOnlyByBarging, Committed
  <2> QED BY <1>2, <2>1, <2>2, <2>3, <2>4, <2>5 DEF LimiterInv
<1>4. CASE queue # <<>>
  <2> DEFINE h == Head(queue)
  <2>1. /\ h \in Calls
        /\ h = queue[1]
        /\ Tail(queue) \in Seq(Calls)
        /\ Len(queue) \in Nat \ {0}
        /\ NoRepeats(Tail(queue))
        /\ \A i \in 1..Len(Tail(queue)) : /\ Tail(queue)[i] = queue[i + 1]
                                          /\ i + 1 \in 1..Len(queue)
                                          /\ Tail(queue)[i] # h
    BY <1>4, TailFacts DEF LimiterInv, LTypeOK, ListsMatchStates
  <2>2. slot[h] = "parked" /\ h # t
    BY <2>1 DEF LimiterInv, ListsMatchStates
  <2>3. \A i \in 1..Len(woken) : woken[i] # h
    BY <2>2 DEF LimiterInv, ListsMatchStates
  <2>4. /\ Append(woken, h) \in Seq(Calls)
        /\ Len(Append(woken, h)) = Len(woken) + 1
        /\ NoRepeats(Append(woken, h))
        /\ \A i \in 1..Len(Append(woken, h)) :
              Append(woken, h)[i] = IF i = Len(woken) + 1 THEN h ELSE woken[i]
    <3>1. woken \in Seq(Calls) /\ NoRepeats(woken)
      BY DEF LimiterInv, LTypeOK, ListsMatchStates
    <3> HIDE DEF h
    <3> QED BY <2>1, <2>3, <3>1, AppendFacts
  <2>5. /\ queue' = Tail(queue)
        /\ woken' = Append(woken, h)
        /\ slot' = [slot EXCEPT ![t] = "done", ![h] = "woken"]
        /\ excess' = excess
        /\ active' = active - 1
    BY <1>4
  <2>6. LTypeOK'
    BY <1>1, <2>1, <2>4, <2>5 DEF LimiterInv, LTypeOK, States
  <2>7. ListsMatchStates'
    <3>1. \A i \in 1..Len(queue') : slot'[queue'[i]] = "parked"
      BY <2>1, <2>2, <2>5 DEF LimiterInv, LTypeOK, ListsMatchStates
    <3>2. \A i \in 1..Len(woken') : slot'[woken'[i]] = "woken"
      <4> SUFFICES ASSUME NEW i \in 1..Len(woken') PROVE slot'[woken'[i]] = "woken"
        OBVIOUS
      <4>1. CASE i = Len(woken) + 1
        BY <2>1, <2>2, <2>4, <2>5, <4>1 DEF LimiterInv, LTypeOK
      <4>2. CASE i \in 1..Len(woken)
        BY <1>1, <2>2, <2>4, <2>5, <4>2, ElementOfSeq DEF LimiterInv, LTypeOK, ListsMatchStates
      <4> QED BY <1>1, <2>4, <2>5, <4>1, <4>2
    <3> QED BY <2>1, <2>4, <2>5, <3>1, <3>2 DEF ListsMatchStates
  <2>8. RunningTasks' = RunningTasks \ {t}
    BY <2>2, <2>5 DEF LimiterInv, LTypeOK, RunningTasks
  <2>9. Committed' = Committed
    BY <1>1, <2>4, <2>5 DEF Committed
  <2>10. NoLostWakeup' /\ OverflowOnlyByBarging'
    BY <1>4, <2>5, <2>9 DEF LimiterInv, NoLostWakeup, OverflowOnlyByBarging
  <2> QED BY <1>2, <2>6, <2>7, <2>8, <2>10 DEF LimiterInv
<1> QED BY <1>3, <1>4

(* A caller that comes back holds nothing.                                 *)
LEMMA LimiterRecalls ==
    ASSUME LimiterInv, NEW t \in Calls, Recall(t) PROVE LimiterInv'
<1> USE DEF Recall
<1>1. LTypeOK'
  BY DEF LimiterInv, LTypeOK, States
<1>2. ListsMatchStates'
  BY ElementOfSeq DEF LimiterInv, LTypeOK, ListsMatchStates, NoRepeats
<1>3. RunningTasks' = RunningTasks
  BY DEF LimiterInv, LTypeOK, RunningTasks
<1> QED BY <1>1, <1>2, <1>3
  DEF LimiterInv, ActiveCountsRunning, NoLostWakeup, OverflowOnlyByBarging, Committed

(* Every step of the limiter preserves the invariant.                      *)
LEMMA LimiterKeeps == LimiterInv /\ [LNext]_limiter => LimiterInv'
<1> SUFFICES ASSUME LimiterInv, [LNext]_limiter PROVE LimiterInv'
  OBVIOUS
<1>1. ASSUME NEW t \in Calls, Step(t) PROVE LimiterInv'
  BY <1>1, LimiterEnters, LimiterParks, LimiterResumes, LimiterReleases, LimiterRecalls DEF Step
<1>2. CASE UNCHANGED limiter
  BY <1>2 DEF limiter, LimiterInv, LTypeOK, ListsMatchStates, NoRepeats, ActiveCountsRunning,
              RunningTasks, NoLostWakeup, OverflowOnlyByBarging, Committed
<1> QED BY <1>1, <1>2 DEF LNext

-----------------------------------------------------------------------------
(* The strengthening holds in every reachable state.                       *)
THEOREM LimiterInvariant == LSpec => []LimiterInv
<1>1. LInit => LimiterInv
  BY LimiterInit
<1>2. LimiterInv /\ [LNext]_limiter => LimiterInv'
  BY LimiterKeeps
<1> QED BY <1>1, <1>2, PTL DEF LSpec

(* The types of the limiter's state: in particular `active` never goes     *)
(* below zero, whatever the order of hand-overs and releases.              *)
THEOREM LimiterTypes == LSpec => []LTypeOK
<1>1. LimiterInv => LTypeOK
  BY DEF LimiterInv
<1> QED BY <1>1, LimiterInvariant, PTL

(* createLimiter: `active` is always the number of calls inside a slot.    *)
THEOREM SlotsAreNeverLeaked == LSpec => []ActiveCountsRunning
<1>1. LimiterInv => ActiveCountsRunning
  BY DEF LimiterInv
<1> QED BY <1>1, LimiterInvariant, PTL

(* createLimiter: no release is lost while a call is parked.               *)
THEOREM WaitersAreCovered == LSpec => []NoLostWakeup
<1>1. LimiterInv => NoLostWakeup
  BY DEF LimiterInv
<1> QED BY <1>1, LimiterInvariant, PTL

(* createLimiter: it overshoots its limit by barging calls only.           *)
THEOREM OvershootIsBarging == LSpec => []OverflowOnlyByBarging
<1>1. LimiterInv => OverflowOnlyByBarging
  BY DEF LimiterInv
<1> QED BY <1>1, LimiterInvariant, PTL

-----------------------------------------------------------------------------
(* The run.                                                                *)

(* Every step of a run is a step of the limiter or leaves it alone.        *)
LEMMA LimiterStep ==
    ASSUME [Next]_vars
    PROVE  [LNext]_limiter
<1>1. ASSUME NEW c \in Calls, Call(c)
      PROVE  [LNext]_limiter
  <2>1. CASE CallEnters(c)
    BY <2>1 DEF CallEnters, LNext, Step
  <2>2. CASE CallQueues(c)
    BY <2>2 DEF CallQueues, LNext, Step
  <2>3. CASE CallCancelled(c) \/ CallReplayed(c) \/ CallOverCap(c) \/ CallOverBudget(c)
    BY <2>3 DEF CallCancelled, CallReplayed, CallOverCap, CallOverBudget, Throws, limiter
  <2> QED BY <1>1, <2>1, <2>2, <2>3 DEF Call
<1>2. ASSUME NEW c \in Calls, Body(c)
      PROVE  [LNext]_limiter
  <2>1. CASE Admitted(c)
    BY <2>1 DEF Admitted, LNext, Step
  <2>2. CASE Close(c)
    BY <2>2 DEF Close, LNext, Step
  <2>3. CASE \E s \in Stages : Inside(c, s)
    BY <2>3 DEF Inside, limiter
  <2>4. Body(c) => Admitted(c) \/ Close(c) \/ \E s \in Stages : Inside(c, s)
    BY DEF Body, WorktreeReady, WorktreeFails, Prompt, Answers, Rejects, Retry, GiveUp, Finish,
           FinishFails, Catch, WorktreeReleased, Stages
  <2> QED BY <1>2, <2>1, <2>2, <2>3, <2>4
<1>3. ASSUME NEW c \in Calls, StallTimerFires(c) \/ Kill(c)
      PROVE  [LNext]_limiter
  BY <1>3 DEF StallTimerFires, Inside, Kill, limiter
<1>4. ASSUME Abort \/ RunAborts \/ \E r \in {"returned", "failed"} : ScriptEnds(r)
      PROVE  [LNext]_limiter
  BY <1>4 DEF Abort, RunAborts, ScriptEnds, limiter
<1>5. CASE UNCHANGED vars
  BY <1>5 DEF vars, limiter
<1> QED BY <1>1, <1>2, <1>3, <1>4, <1>5 DEF Next

(* What the limiter's steps do to the slot of the call they are about, and *)
(* to the others: a release may wake a parked call and touches no other.   *)
LEMMA SlotMoves ==
    ASSUME LimiterInv, NEW c \in Calls
    PROVE  /\ slot \in [Calls -> States]
           /\ Enter(c) => slot[c] = "idle" /\ slot' = [slot EXCEPT ![c] = "running"]
           /\ Park(c) => slot[c] = "idle" /\ slot' = [slot EXCEPT ![c] = "parked"]
           /\ Resume(c) => slot[c] = "woken" /\ slot' = [slot EXCEPT ![c] = "running"]
           /\ Release(c) =>
                 /\ slot[c] = "running" /\ slot'[c] = "done"
                 /\ \A d \in Calls \ {c} :
                       slot'[d] = slot[d] \/ (slot[d] = "parked" /\ slot'[d] = "woken")
<1>1. /\ slot \in [Calls -> States]
      /\ queue \in Seq(Calls) /\ woken \in Seq(Calls)
      /\ \A i \in 1..Len(queue) : slot[queue[i]] = "parked"
      /\ \A i \in 1..Len(woken) : slot[woken[i]] = "woken"
  BY DEF LimiterInv, LTypeOK, ListsMatchStates
<1>2. Enter(c) => slot[c] = "idle" /\ slot' = [slot EXCEPT ![c] = "running"]
  BY DEF Enter
<1>3. Park(c) => slot[c] = "idle" /\ slot' = [slot EXCEPT ![c] = "parked"]
  BY DEF Park
<1>4. ASSUME Resume(c)
      PROVE  slot[c] = "woken" /\ slot' = [slot EXCEPT ![c] = "running"]
  <2>1. 1 \in 1..Len(woken) /\ c = woken[1]
    BY <1>1, <1>4 DEF Resume
  <2> QED BY <1>1, <1>4, <2>1 DEF Resume
<1>5. ASSUME Release(c)
      PROVE  /\ slot[c] = "running" /\ slot'[c] = "done"
             /\ \A d \in Calls \ {c} :
                   slot'[d] = slot[d] \/ (slot[d] = "parked" /\ slot'[d] = "woken")
  <2>1. CASE queue # <<>>
    <3>1. 1 \in 1..Len(queue) /\ Head(queue) = queue[1] /\ Head(queue) \in Calls
      BY <1>1, <2>1
    <3>2. slot[Head(queue)] = "parked"
      BY <1>1, <3>1
    <3> QED BY <1>1, <1>5, <2>1, <3>1, <3>2 DEF Release, Wakes
  <2>2. CASE queue = <<>>
    BY <1>1, <1>5, <2>2 DEF Release, Wakes
  <2> QED BY <2>1, <2>2
<1> QED BY <1>1, <1>2, <1>3, <1>4, <1>5

-----------------------------------------------------------------------------
(* The fields of the other calls stay, but for one that a release wakes.   *)
OthersKeep(c) ==
    \A d \in Calls \ {c} :
        /\ stage'[d] = stage[d] /\ outcome'[d] = outcome[d] /\ shown'[d] = shown[d]
        /\ d \in journal' <=> d \in journal
        /\ d \in killControls' <=> d \in killControls
        /\ slot'[d] = slot[d] \/ (slot[d] = "parked" /\ slot'[d] = "woken")

(* So a step about one call needs a look at that call only.                *)
LEMMA OnlyThisCall ==
    ASSUME RunAssumption, IInv, NEW c \in Calls, OthersKeep(c), aborted' = aborted,
           ordinal' = ordinal \/ (c = ordinal + 1 /\ ordinal' = c),
           CallInv(c)'
    PROVE  \A d \in Calls : CallInv(d)'
<1>1. ASSUME NEW d \in Calls, d # c
      PROVE  CallInv(d)'
  <2>1. CallInv(d) /\ ordinal \in Nat /\ c \in Nat /\ d \in Nat
    BY DEF IInv, RunInv, RunTypeOK, RunAssumption, Calls
  <2>2. d > ordinal' <=> d > ordinal
    BY <1>1, <2>1
  <2>3. /\ stage'[d] = stage[d] /\ outcome'[d] = outcome[d] /\ shown'[d] = shown[d]
        /\ d \in journal' <=> d \in journal
        /\ d \in killControls' <=> d \in killControls
        /\ slot'[d] = slot[d] \/ (slot[d] = "parked" /\ slot'[d] = "woken")
    BY <1>1 DEF OthersKeep
  <2> QED BY <2>1, <2>2, <2>3 DEF CallInv, Undecided, InSlot, InBody
<1> QED BY <1>1

(* The runner is called: one more try, and the stall timer starts over.    *)
LEMMA Launched ==
    ASSUME RunTypeOK, NEW c \in Calls, Launch(c)
    PROVE  /\ stage' = [stage EXCEPT ![c] = "starting"] /\ stage' \in [Calls -> Stages]
           /\ tries' \in [Calls -> Nat] /\ stalled' \in [Calls -> BOOLEAN]
           /\ prompts' = prompts /\ cost' = cost
<1>1. stage' = [stage EXCEPT ![c] = "starting"] /\ stage' \in [Calls -> Stages]
  BY DEF Launch, RunTypeOK, Stages
<1>2. tries' \in [Calls -> Nat]
  BY DEF Launch, RunTypeOK
<1>3. stalled' \in [Calls -> BOOLEAN]
  <2>1. stalled \in [Calls -> BOOLEAN] /\ stalled' = [stalled EXCEPT ![c] = FALSE]
    BY DEF Launch, RunTypeOK
  <2> QED BY <2>1
<1>4. prompts' = prompts /\ cost' = cost
  BY DEF Launch
<1> QED BY <1>1, <1>2, <1>3, <1>4

-----------------------------------------------------------------------------
(* A call that is refused settles at once, with an error.                  *)
LEMMA Refused ==
    ASSUME RunAssumption, IInv, NEW c \in Calls, Called(c), Throws(c),
           spawned' \in Nat, fatal' \in BOOLEAN
    PROVE  RunInv'
<1>1. slot \in [Calls -> States] /\ slot' = slot
  BY SlotMoves DEF Throws, limiter, IInv
<1>2. RunTypeOK /\ Journaled \subseteq journal /\ CallInv(c)
  BY DEF IInv, RunInv
<1>3. RunTypeOK' /\ Journaled \subseteq journal'
  <2>1. /\ stage' \in [Calls -> Stages] /\ outcome' \in [Calls -> Outcomes]
        /\ ordinal' \in 0..NumCalls
    BY <1>2 DEF Called, Throws, RunTypeOK, RunAssumption, Calls, Stages, Outcomes
  <2> QED BY <1>2, <2>1 DEF Throws, RunTypeOK, attempt
<1>4. OthersKeep(c)
  BY <1>1, <1>2 DEF OthersKeep, Throws, RunTypeOK
<1>5. CallInv(c)'
  <2>1. /\ stage'[c] = "settled" /\ outcome'[c] = "threw" /\ ordinal' = c /\ c = ordinal + 1
        /\ UNCHANGED <<journal, killControls, slot, shown, aborted>>
        /\ ordinal \in Nat
    BY <1>1, <1>2 DEF Called, Throws, RunTypeOK
  <2> QED BY <1>2, <2>1 DEF CallInv, Undecided, InSlot, InBody
<1> QED BY <1>3, <1>4, <1>5, OnlyThisCall DEF RunInv, Called, Throws

(* A replayed call settles at once, with the value of the journal.         *)
LEMMA Replayed ==
    ASSUME RunAssumption, IInv, NEW c \in Calls, CallReplayed(c)
    PROVE  RunInv'
<1>1. slot \in [Calls -> States] /\ slot' = slot
  BY SlotMoves DEF CallReplayed, limiter, IInv
<1>2. RunTypeOK /\ Journaled \subseteq journal /\ CallInv(c)
  BY DEF IInv, RunInv
<1>3. RunTypeOK' /\ Journaled \subseteq journal'
  BY <1>2 DEF CallReplayed, Called, Calls, RunTypeOK, RunAssumption, Stages, Outcomes, Statuses
<1>4. OthersKeep(c)
  BY <1>1, <1>2 DEF OthersKeep, CallReplayed, RunTypeOK
<1>5. CallInv(c)'
  BY <1>1, <1>2 DEF CallInv, Called, CallReplayed, RunTypeOK, RunAssumption, Calls, Undecided,
                    InSlot, InBody
<1> QED BY <1>3, <1>4, <1>5, OnlyThisCall DEF RunInv, Called, CallReplayed

(* A call without a slot waits for one and nothing else is decided.        *)
LEMMA Queued ==
    ASSUME RunAssumption, IInv, NEW c \in Calls, CallQueues(c)
    PROVE  RunInv'
<1>1. /\ slot \in [Calls -> States]
      /\ slot[c] = "idle" /\ slot' = [slot EXCEPT ![c] = "parked"]
  BY SlotMoves DEF CallQueues, IInv
<1>2. RunTypeOK /\ Journaled \subseteq journal /\ CallInv(c)
  BY DEF IInv, RunInv
<1>3. RunTypeOK' /\ Journaled \subseteq journal'
  BY <1>2 DEF CallQueues, Spawns, attempt, Called, Calls, RunTypeOK, RunAssumption, Stages
<1>4. OthersKeep(c)
  BY <1>1, <1>2 DEF OthersKeep, CallQueues, RunTypeOK
<1>5. CallInv(c)'
  BY <1>1, <1>2 DEF CallInv, CallQueues, Spawns, Called, RunTypeOK, RunAssumption, Calls,
                    Undecided, InSlot, InBody
<1> QED BY <1>3, <1>4, <1>5, OnlyThisCall DEF RunInv, CallQueues, Spawns, Called

(* The body of a call begins, at once or after a wait for its slot: it     *)
(* ends there when the run was cancelled meanwhile.                        *)
LEMMA Begun ==
    ASSUME RunAssumption, IInv, NEW c \in Calls, Begin(c),
           slot' = [slot EXCEPT ![c] = "running"],
           stage[c] \in {"uncalled", "queued"}, c \notin Journaled,
           ordinal' \in 0..NumCalls, spawned' \in Nat, c <= ordinal',
           ordinal' = ordinal \/ (c = ordinal + 1 /\ ordinal' = c)
    PROVE  RunInv'
<1>1. slot \in [Calls -> States]
  BY SlotMoves DEF IInv
<1>2. RunTypeOK /\ Journaled \subseteq journal /\ CallInv(c)
  BY DEF IInv, RunInv
<1>3. RunTypeOK' /\ Journaled \subseteq journal'
  <2>1. CASE Cancelled
    BY <1>2, <2>1 DEF Begin, attempt, RunTypeOK, Stages, Outcomes, Statuses
  <2>2. CASE ~Cancelled /\ c \in Isolated
    BY <1>2, <2>2 DEF Begin, attempt, RunTypeOK, Stages, Outcomes, Statuses
  <2>3. CASE ~Cancelled /\ c \notin Isolated
    <3>1. Launch(c)
      BY <2>3 DEF Begin
    <3>2. shown' \in [Calls -> Statuses] /\ killControls' \subseteq Calls /\ agentCount' \in Nat
      BY <1>2, <2>3 DEF Begin, RunTypeOK, Statuses
    <3> QED BY <1>2, <2>3, <3>1, <3>2, Launched DEF Begin, RunTypeOK
  <2> QED BY <2>1, <2>2, <2>3
<1>4. OthersKeep(c)
  BY <1>1, <1>2 DEF OthersKeep, Begin, Launch, RunTypeOK
<1>5. CallInv(c)'
  <2>1. CASE Cancelled
    <3>1. /\ stage'[c] = "closing" /\ slot'[c] = "running" /\ outcome'[c] = "threw"
          /\ journal' = journal /\ killControls' = killControls /\ aborted' = aborted
          /\ shown'[c] \in {shown[c], "running"}
      BY <1>1, <1>2, <2>1 DEF Begin, RunTypeOK
    <3>2. c \notin journal /\ c \notin killControls /\ shown[c] = "none"
      BY <1>2 DEF CallInv, Undecided, InBody
    <3>3. ~(c > ordinal')
      BY RunAssumption DEF Calls, RunAssumption
    <3> QED BY <3>1, <3>2, <3>3 DEF CallInv, Undecided, InSlot, InBody
  <2>2. CASE ~Cancelled
    <3>1. /\ stage'[c] \in {"starting", "worktree"} /\ slot'[c] = "running"
          /\ shown'[c] = "running" /\ outcome' = outcome /\ journal' = journal
          /\ killControls' = killControls \cup {c} /\ aborted' = aborted
      BY <1>1, <1>2, <2>2 DEF Begin, Launch, Cancelled, RunTypeOK
    <3>2. outcome[c] = "none" /\ c \notin journal
      BY <1>2 DEF CallInv, Undecided
    <3>3. ~(c > ordinal')
      BY RunAssumption DEF Calls, RunAssumption
    <3>4. c \notin journal' /\ outcome'[c] = "none" /\ c \in killControls'
      BY <3>1, <3>2
    <3> QED BY <3>1, <3>3, <3>4 DEF CallInv, Undecided, InSlot, InBody
  <2> QED BY <2>1, <2>2
<1> QED BY <1>3, <1>4, <1>5, OnlyThisCall DEF RunInv, Begin

(* The steps of a body that leave the call in its body.                    *)
LEMMA StaysInBody ==
    ASSUME RunAssumption, IInv, NEW c \in Calls,
           stage[c] \in InBody, stage' \in [Calls -> Stages], stage'[c] \in InBody,
           \A d \in Calls \ {c} : stage'[d] = stage[d],
           error' \in [Calls -> Errors], stalled' \in [Calls -> BOOLEAN],
           tries' \in [Calls -> Nat], prompts' \in [Calls -> Nat], cost' \in [Calls -> Nat],
           UNCHANGED <<limiter, counters, fatal, aborted, run, killed, killControls, journal,
                       shown, outcome>>
    PROVE  RunInv'
<1>1. slot \in [Calls -> States] /\ slot' = slot /\ ordinal' = ordinal
  BY SlotMoves DEF limiter, counters, IInv
<1>2. RunTypeOK /\ Journaled \subseteq journal /\ CallInv(c)
  BY DEF IInv, RunInv
<1>3. RunTypeOK' /\ Journaled \subseteq journal'
  BY <1>2 DEF RunTypeOK, counters
<1>4. OthersKeep(c)
  BY <1>1 DEF OthersKeep
<1>5. CallInv(c)'
  BY <1>1, <1>2 DEF CallInv, Undecided, InSlot, InBody
<1> QED BY <1>1, <1>3, <1>4, <1>5, OnlyThisCall DEF RunInv

(* ... which are all but those that end it.                                *)
LEMMA InBodySteps ==
    ASSUME RunAssumption, IInv, NEW c \in Calls,
           \/ WorktreeReady(c) \/ WorktreeFails(c) \/ Prompt(c) \/ StallTimerFires(c) \/ Answers(c)
           \/ Rejects(c) \/ Retry(c) \/ GiveUp(c) \/ FinishFails(c)
    PROVE  RunInv'
<1>1. RunTypeOK
  BY DEF IInv, RunInv
<1>2. CASE WorktreeReady(c) \/ Retry(c)
  <2>1. UNCHANGED <<limiter, counters, fatal, aborted, run, killed, killControls, journal, shown,
                    outcome, error>>
    BY <1>2 DEF WorktreeReady, Retry, Inside, counters
  <2>2. stage[c] \in InBody /\ Launch(c)
    BY <1>2 DEF WorktreeReady, Retry, Inside, InBody
  <2> QED BY <1>1, <2>1, <2>2, StaysInBody, Launched DEF RunTypeOK, InBody
<1>3. CASE WorktreeFails(c) \/ GiveUp(c) \/ FinishFails(c)
  <2>1. UNCHANGED <<limiter, counters, fatal, aborted, run, killed, killControls, journal, shown,
                    outcome, attempt>>
    BY <1>3 DEF WorktreeFails, GiveUp, FinishFails, Inside, counters
  <2>2. stage[c] \in InBody /\ stage' = [stage EXCEPT ![c] = "thrown"]
    BY <1>3 DEF WorktreeFails, GiveUp, FinishFails, Inside, ThrownWith, InBody
  <2>3. error' \in [Calls -> Errors]
    BY <1>1, <1>3 DEF WorktreeFails, GiveUp, FinishFails, ThrownWith, RunTypeOK, Errors
  <2> QED BY <1>1, <2>1, <2>2, <2>3, StaysInBody DEF RunTypeOK, InBody, Stages, attempt
<1>4. CASE Prompt(c)
  <2>1. UNCHANGED <<limiter, counters, fatal, aborted, run, killed, killControls, journal, shown,
                    outcome, error, stalled, tries>>
    BY <1>4 DEF Prompt, Inside, counters
  <2> QED BY <1>1, <1>4, <2>1, StaysInBody DEF Prompt, Inside, RunTypeOK, InBody, Stages
<1>5. CASE StallTimerFires(c)
  <2>1. UNCHANGED <<limiter, counters, fatal, aborted, run, killed, killControls, journal, shown,
                    outcome, error, stage, tries, prompts, cost>>
    BY <1>5 DEF StallTimerFires, Inside, counters
  <2> QED BY <1>1, <1>5, <2>1, StaysInBody DEF StallTimerFires, RunTypeOK, InBody
<1>6. CASE Answers(c)
  <2>1. UNCHANGED <<limiter, counters, fatal, aborted, run, killed, killControls, journal, shown,
                    outcome, error, attempt>>
    BY <1>6 DEF Answers, Inside, counters
  <2> QED BY <1>1, <1>6, <2>1, StaysInBody DEF Answers, Inside, RunTypeOK, InBody, Stages, attempt
<1>7. CASE Rejects(c)
  <2>1. UNCHANGED <<limiter, counters, fatal, aborted, run, killed, killControls, journal, shown,
                    outcome, attempt>>
    BY <1>7 DEF Rejects, Inside, counters
  <2>2. RunnerError(c) \in Errors
    BY DEF RunnerError, Errors
  <2>3. /\ stage[c] \in InBody /\ stage' \in [Calls -> Stages] /\ stage'[c] \in InBody
        /\ \A d \in Calls \ {c} : stage'[d] = stage[d]
        /\ error' \in [Calls -> Errors]
    BY <1>1, <1>7, <2>2 DEF Rejects, ThrownWith, RunTypeOK, InBody, Stages
  <2> QED BY <1>1, <2>1, <2>3, StaysInBody DEF RunTypeOK, attempt
<1> QED BY <1>2, <1>3, <1>4, <1>5, <1>6, <1>7

(* A body ends with its answer journaled, or with an error and without.    *)
LEMMA BodyEnds ==
    ASSUME RunAssumption, IInv, NEW c \in Calls, Finish(c) \/ Catch(c)
    PROVE  RunInv'
<1>1. slot \in [Calls -> States] /\ slot' = slot /\ ordinal' = ordinal /\ aborted' = aborted
  BY SlotMoves DEF Finish, Catch, Inside, limiter, IInv
<1>2. RunTypeOK /\ Journaled \subseteq journal /\ CallInv(c)
  BY DEF IInv, RunInv
<1>3. /\ stage[c] \in InBody /\ stage' = Leaves(c) /\ killControls' = killControls \ {c}
      /\ stage'[c] \in {"releasing", "closing"} /\ stage' \in [Calls -> Stages]
      /\ \A d \in Calls \ {c} : stage'[d] = stage[d]
      /\ spent' \in Nat
  BY <1>2 DEF Finish, Catch, Inside, MayFinish, Leave, Leaves, RunTypeOK, Recorded, InBody, Stages
<1>4. /\ UNCHANGED <<ordinal, agentCount, spawned, fatal, aborted, run, error, killed, attempt>>
      /\ \/ /\ journal' = journal \cup {c}
            /\ outcome' = [outcome EXCEPT ![c] = "value"]
            /\ shown' = [shown EXCEPT ![c] = "done"]
         \/ /\ journal' = journal
            /\ \/ /\ outcome' = [outcome EXCEPT ![c] = "threw"]
                  /\ shown' = shown
               \/ /\ outcome' = [outcome EXCEPT ![c] = "null"]
                  /\ \E s \in {"killed", "error"} : shown' = [shown EXCEPT ![c] = s]
  BY DEF Finish, Catch, Inside, Persist
<1>5. RunTypeOK' /\ Journaled \subseteq journal'
  BY <1>2, <1>3, <1>4 DEF RunTypeOK, attempt, Outcomes, Statuses
<1>6. OthersKeep(c)
  BY <1>1, <1>2, <1>3, <1>4 DEF OthersKeep, RunTypeOK
<1>7. CallInv(c)'
  BY <1>1, <1>2, <1>3, <1>4 DEF CallInv, RunTypeOK, Undecided, InSlot, InBody
<1> QED BY <1>1, <1>5, <1>6, <1>7, OnlyThisCall DEF RunInv

(* The worktree goes first, then the slot.                                 *)
LEMMA SlotGoesBack ==
    ASSUME RunAssumption, IInv, NEW c \in Calls, WorktreeReleased(c) \/ Close(c)
    PROVE  RunInv'
<1>1. /\ slot \in [Calls -> States]
      /\ \A d \in Calls \ {c} :
            slot'[d] = slot[d] \/ (slot[d] = "parked" /\ slot'[d] = "woken")
      /\ \/ stage[c] = "releasing" /\ stage' = [stage EXCEPT ![c] = "closing"] /\ slot' = slot
         \/ /\ stage[c] = "closing" /\ stage' = [stage EXCEPT ![c] = "settled"]
            /\ slot'[c] = "done"
  BY SlotMoves DEF WorktreeReleased, Close, Inside, limiter, IInv
<1>2. RunTypeOK /\ Journaled \subseteq journal /\ CallInv(c)
  BY DEF IInv, RunInv
<1>3. UNCHANGED <<ordinal, agentCount, spawned, spent, fatal, aborted, run, error, killed,
                  killControls, attempt, journal, shown, outcome>>
  BY DEF WorktreeReleased, Close, Inside, counters
<1>4. RunTypeOK' /\ Journaled \subseteq journal'
  BY <1>1, <1>2, <1>3 DEF RunTypeOK, attempt, Stages
<1>5. OthersKeep(c)
  BY <1>1, <1>2, <1>3 DEF OthersKeep, RunTypeOK
<1>6. CallInv(c)'
  BY <1>1, <1>2, <1>3 DEF CallInv, RunTypeOK, Undecided, InSlot, InBody
<1> QED BY <1>3, <1>4, <1>5, <1>6, OnlyThisCall DEF RunInv

(* What happens around the run moves no call: an abort may mark it.        *)
LEMMA Around ==
    ASSUME RunAssumption, IInv,
           \/ \E c \in Calls : Kill(c)
           \/ Abort \/ RunAborts \/ \E r \in {"returned", "failed"} : ScriptEnds(r)
           \/ UNCHANGED vars
    PROVE  RunInv'
<1>1. RunTypeOK /\ Journaled \subseteq journal /\ \A d \in Calls : CallInv(d)
  BY DEF IInv, RunInv
<1>2. /\ UNCHANGED <<slot, counters, fatal, stage, error, killControls, attempt, journal, outcome>>
      /\ killed' \subseteq Calls
      /\ run' \in {"running", "returned", "failed"}
      /\ aborted' \in BOOLEAN /\ (aborted => aborted')
      /\ \/ shown' = shown
         \/ /\ aborted
            /\ shown' = [c \in Calls |-> IF shown[c] = "running" THEN "skipped" ELSE shown[c]]
  BY <1>1 DEF Kill, Abort, RunAborts, ScriptEnds, vars, limiter, RunTypeOK
<1>3. RunTypeOK' /\ Journaled \subseteq journal'
  BY <1>1, <1>2 DEF RunTypeOK, counters, attempt, Statuses
<1>4. ASSUME NEW d \in Calls
      PROVE  CallInv(d)'
  <2>1. CallInv(d) /\ ordinal' = ordinal
    BY <1>1, <1>2 DEF counters
  <2>2. \/ shown'[d] = shown[d]
        \/ aborted /\ shown[d] = "running" /\ shown'[d] = "skipped"
    BY <1>2
  <2> QED BY <1>2, <2>1, <2>2 DEF CallInv, Undecided, InSlot, InBody
<1> QED BY <1>3, <1>4 DEF RunInv

(* Every step of the run preserves its part of the invariant.              *)
LEMMA StepRunInv ==
    ASSUME RunAssumption, IInv, [Next]_vars
    PROVE  RunInv'
<1>1. RunTypeOK /\ Journaled \subseteq journal /\ \A d \in Calls : CallInv(d)
  BY DEF IInv, RunInv
<1>2. ASSUME NEW c \in Calls, Call(c)
      PROVE  RunInv'
  <2>1. CASE CallCancelled(c)
    BY <1>1, <2>1, Refused DEF CallCancelled, RunTypeOK
  <2>2. CASE CallReplayed(c)
    BY <2>2, Replayed
  <2>3. CASE CallOverCap(c)
    BY <1>1, <2>3, Refused DEF CallOverCap, RunTypeOK
  <2>4. CASE CallOverBudget(c)
    BY <1>1, <2>4, Refused DEF CallOverBudget, RunTypeOK
  <2>5. CASE CallEnters(c)
    <3>1. c = ordinal + 1 /\ ordinal' = c /\ spawned' = spawned + 1 /\ c \notin Journaled
      BY <1>1, <2>5 DEF CallEnters, Spawns, Called
    <3>2. ordinal' \in 0..NumCalls /\ spawned' \in Nat /\ c <= ordinal' /\ c > ordinal
      BY <1>1, <3>1 DEF RunTypeOK, Calls, RunAssumption
    <3>3. stage[c] = "uncalled"
      BY <1>1, <3>2 DEF CallInv
    <3>4. slot' = [slot EXCEPT ![c] = "running"] /\ Begin(c)
      BY <2>5, SlotMoves DEF CallEnters, IInv
    <3> QED BY <3>1, <3>2, <3>3, <3>4, Begun
  <2>6. CASE CallQueues(c)
    BY <2>6, Queued
  <2> QED BY <1>2, <2>1, <2>2, <2>3, <2>4, <2>5, <2>6 DEF Call
<1>3. ASSUME NEW c \in Calls, Admitted(c)
      PROVE  RunInv'
  <2>1. slot[c] = "woken" /\ slot' = [slot EXCEPT ![c] = "running"]
    BY <1>3, SlotMoves DEF Admitted, IInv
  <2>2. stage[c] = "queued" /\ c \notin Journaled /\ ~(c > ordinal)
    BY <1>1, <2>1 DEF CallInv
  <2>3. ordinal' = ordinal /\ spawned' = spawned /\ Begin(c)
    BY <1>3 DEF Admitted
  <2>4. ordinal' \in 0..NumCalls /\ spawned' \in Nat /\ c <= ordinal'
    BY <1>1, <2>2, <2>3 DEF RunTypeOK, Calls
  <2> QED BY <2>1, <2>2, <2>3, <2>4, Begun
<1>4. ASSUME NEW c \in Calls, Body(c) \/ StallTimerFires(c), ~Admitted(c)
      PROVE  RunInv'
  BY <1>4, InBodySteps, BodyEnds, SlotGoesBack DEF Body
<1> QED BY <1>2, <1>3, <1>4, Around DEF Next

(* A run starts with an idle limiter and no call made.                     *)
LEMMA InitInv ==
    ASSUME RunAssumption, Init
    PROVE  IInv
<1>1. LInit
  BY DEF Init
<1>2. LimiterInv
  BY <1>1, LimiterInit
<1>3. RunTypeOK /\ Journaled \subseteq journal
  <2>1. ordinal \in 0..NumCalls /\ journal = Journaled /\ Journaled \subseteq Calls
    BY LimiterAssumption DEF Init, RunAssumption, LimiterAssumption
  <2>2. /\ stage \in [Calls -> Stages] /\ error \in [Calls -> Errors]
        /\ shown \in [Calls -> Statuses] /\ outcome \in [Calls -> Outcomes]
    BY DEF Init, Stages, Errors, Statuses, Outcomes
  <2>3. /\ tries \in [Calls -> Nat] /\ prompts \in [Calls -> Nat] /\ cost \in [Calls -> Nat]
        /\ stalled \in [Calls -> BOOLEAN]
    BY DEF Init
  <2> QED BY <2>1, <2>2, <2>3 DEF Init, RunTypeOK
<1>4. ASSUME NEW d \in Calls
      PROVE  CallInv(d)
  BY <1>1 DEF Init, CallInv, Undecided, InSlot, InBody, LInit, Calls, RunAssumption
<1> QED BY <1>2, <1>3, <1>4 DEF IInv, RunInv

(* Every step of the run preserves the invariant, the limiter included.    *)
LEMMA StepInv ==
    ASSUME RunAssumption, IInv, [Next]_vars
    PROVE  IInv'
<1>1. LimiterInv'
  BY LimiterStep, LimiterKeeps DEF IInv
<1> QED BY <1>1, StepRunInv DEF IInv

-----------------------------------------------------------------------------
(* The strengthened invariant holds of every behaviour of a run.           *)
THEOREM RunInvariant == Spec => []IInv
<1>1. Init => IInv
  BY InitInv, RunAssumption
<1>2. IInv /\ [Next]_vars => IInv'
  BY StepInv, RunAssumption
<1> QED BY <1>1, <1>2, PTL DEF Spec

(* A run uses its limiter as Limiter.tla says: it implements that          *)
(* specification, so what is proved of the limiter holds in a run.         *)
THEOREM RunImplementsLimiter == Spec => LSpec
<1>1. Init => LInit
  BY DEF Init
<1>2. [Next]_vars => [LNext]_limiter
  BY LimiterStep
<1> QED BY <1>1, <1>2, PTL DEF Spec, LSpec

(* The types of a run's state, the limiter's included.                     *)
THEOREM RunTypes == Spec => []TypeOK
<1>1. IInv => TypeOK
  BY DEF IInv, RunInv, TypeOK, LimiterInv
<1> QED BY <1>1, RunInvariant, PTL

(* agent(): the journal grows by exactly the calls that returned a value.  *)
THEOREM ReplayIsFaithful == Spec => []JournaledIffDelivered
<1>1. IInv => JournaledIffDelivered
  BY DEF IInv, RunInv, CallInv, JournaledIffDelivered
<1> QED BY <1>1, RunInvariant, PTL

(* killAgents(): it reaches a call exactly while its body runs.            *)
THEOREM KillsReachBodies == Spec => []KillableIffInBody
<1>1. IInv => KillableIffInBody
  BY DEF IInv, RunInv, RunTypeOK, CallInv, KillableIffInBody
<1> QED BY <1>1, RunInvariant, PTL

(* runWorkflow(): the sessions of a run are covered by limiter slots.      *)
THEOREM SessionsAreBounded == Spec => []SessionsHoldSlots
<1>1. RunAssumption /\ IInv => SessionsHoldSlots
  <2> SUFFICES ASSUME RunAssumption, IInv
               PROVE  SessionsHoldSlots
    OBVIOUS
  <2>1. \A c \in Calls : slot[c] = "running" <=> stage[c] \in InSlot
    BY DEF IInv, RunInv, CallInv
  <2> DEFINE bodies == {c \in Calls : stage[c] \in InBody}
             holders == {c \in Calls : slot[c] = "running"}
  <2>2. bodies \in SUBSET holders /\ holders \in SUBSET Calls
    BY <2>1 DEF InSlot
  <2>3. IsFiniteSet(holders)
    BY <2>2, CallsFinite, FS_Subset
  <2>4. Cardinality(bodies) <= Cardinality(holders)
    BY <2>2, <2>3, FS_Subset
  <2>5. Cardinality(bodies) \in Nat /\ Cardinality(holders) \in Nat
    BY <2>2, <2>3, FS_Subset, FS_CardinalityType
  <2>6. active = Cardinality(holders)
    BY DEF IInv, LimiterInv, ActiveCountsRunning, RunningTasks
  <2>7. active + Len(woken) <= Concurrency + excess /\ Len(woken) \in Nat /\ excess \in Nat
    BY DEF IInv, LimiterInv, OverflowOnlyByBarging, Committed, LTypeOK
  <2>8. Cardinality(bodies) <= Concurrency + excess
    BY <2>4, <2>5, <2>6, <2>7, CallsFinite
  <2> QED BY <2>1, <2>8 DEF SessionsHoldSlots, InSlot
<1> QED BY <1>1, RunInvariant, RunAssumption, PTL

-----------------------------------------------------------------------------
(* What a step may do to the outcome and the status of a call.             *)
LEMMA OutcomeSteps ==
    ASSUME IInv, [Next]_vars, NEW d \in Calls
    PROVE  /\ Cancelled /\ outcome'[d] # outcome[d] => outcome'[d] = "threw"
           /\ shown[d] \notin {"none", "running"} => shown'[d] = shown[d]
<1>1. /\ outcome \in [Calls -> Outcomes] /\ shown \in [Calls -> Statuses]
      /\ ordinal \in Nat /\ \A c \in Calls : c \in Nat /\ CallInv(c)
  BY DEF IInv, RunInv, RunTypeOK, Calls
<1>2. ASSUME NEW c \in Calls, Call(c)
      PROVE  /\ Cancelled /\ outcome'[d] # outcome[d] => outcome'[d] = "threw"
             /\ shown[d] \notin {"none", "running"} => shown'[d] = shown[d]
  <2>1. c = ordinal + 1
    BY <1>2 DEF Call, CallCancelled, CallReplayed, CallOverCap, CallOverBudget, CallEnters, CallQueues,
                Spawns, Called
  <2>2. shown[c] = "none"
    BY <1>1, <2>1 DEF CallInv
  <2>3. CASE CallCancelled(c) \/ CallOverCap(c) \/ CallOverBudget(c)
    BY <1>1, <2>3 DEF CallCancelled, CallOverCap, CallOverBudget, Throws
  <2>4. CASE CallReplayed(c)
    BY <1>1, <2>2, <2>4 DEF CallReplayed
  <2>5. CASE CallEnters(c)
    BY <1>1, <2>2, <2>5 DEF CallEnters, Begin
  <2>6. CASE CallQueues(c)
    BY <2>6 DEF CallQueues
  <2> QED BY <1>2, <2>3, <2>4, <2>5, <2>6 DEF Call
<1>3. ASSUME NEW c \in Calls, Admitted(c)
      PROVE  /\ Cancelled /\ outcome'[d] # outcome[d] => outcome'[d] = "threw"
             /\ shown[d] \notin {"none", "running"} => shown'[d] = shown[d]
  <2>1. slot[c] = "woken"
    BY <1>3, SlotMoves DEF Admitted, IInv
  <2>2. shown[c] = "none"
    BY <1>1, <2>1 DEF CallInv
  <2> QED BY <1>1, <1>3, <2>2 DEF Admitted, Begin
<1>4. ASSUME NEW c \in Calls, Finish(c) \/ Catch(c)
      PROVE  /\ Cancelled /\ outcome'[d] # outcome[d] => outcome'[d] = "threw"
             /\ shown[d] \notin {"none", "running"} => shown'[d] = shown[d]
  <2>1. shown[c] \in {"running", "skipped"} /\ (shown[c] = "skipped" => Cancelled)
    BY <1>1, <1>4 DEF CallInv, Cancelled, Finish, Catch, Inside, InBody
  <2> QED BY <1>1, <1>4, <2>1 DEF Finish, Catch, MayFinish, Discards
<1>5. ASSUME NEW c \in Calls, Body(c) \/ StallTimerFires(c) \/ Kill(c),
             ~Admitted(c), ~Finish(c), ~Catch(c)
      PROVE  outcome' = outcome /\ shown' = shown
  BY <1>5 DEF Body, WorktreeReady, WorktreeFails, Prompt, StallTimerFires, Answers, Rejects, Retry,
              GiveUp, FinishFails, WorktreeReleased, Close, Kill
<1>6. ASSUME \/ Abort \/ RunAborts \/ \E r \in {"returned", "failed"} : ScriptEnds(r)
             \/ UNCHANGED vars
      PROVE  /\ Cancelled /\ outcome'[d] # outcome[d] => outcome'[d] = "threw"
             /\ shown[d] \notin {"none", "running"} => shown'[d] = shown[d]
  BY <1>1, <1>6 DEF Abort, RunAborts, ScriptEnds, vars
<1> QED BY <1>2, <1>3, <1>4, <1>5, <1>6 DEF Next

(* runWorkflow(): a cancelled run gives its script nothing but errors.     *)
THEOREM CancelledDeliversNothing == Spec => NothingDeliveredAfterCancel
<1>1. IInv /\ [Next]_vars =>
         [\A c \in Calls : Cancelled /\ outcome'[c] # outcome[c] => outcome'[c] = "threw"]_vars
  BY OutcomeSteps
<1> QED BY <1>1, RunInvariant, PTL DEF Spec, NothingDeliveredAfterCancel

(* The live snapshot: an agent is not relabelled once its status is final. *)
THEOREM FinalStatusStays == Spec => StatusIsFinal
<1>1. IInv /\ [Next]_vars =>
         [\A c \in Calls : shown[c] \notin {"none", "running"} => shown'[c] = shown[c]]_vars
  BY OutcomeSteps
<1> QED BY <1>1, RunInvariant, PTL DEF Spec, StatusIsFinal

-----------------------------------------------------------------------------
(* The calls that were charged to the cap and got past it.                 *)
Charged == {c \in Calls : tries[c] > 0 \/ stage[c] \in {"queued"} \cup InBody}

CapInv == Cardinality(Charged) <= spawned /\ Cardinality(Charged) <= MaxAgents

(* A call joins them only as it is charged and the cap is not reached.     *)
LEMMA ChargedSteps ==
    ASSUME IInv, [Next]_vars
    PROVE  /\ spawned \in Nat
           /\ \/ Charged' \subseteq Charged /\ spawned' \in {spawned, spawned + 1}
              \/ /\ spawned < MaxAgents /\ spawned' = spawned + 1
                 /\ \E c \in Calls : Charged' \subseteq Charged \cup {c}
<1>1. /\ tries \in [Calls -> Nat] /\ stage \in [Calls -> Stages] /\ spawned \in Nat
      /\ \A c \in Calls : slot[c] = "woken" => stage[c] = "queued"
  BY DEF IInv, RunInv, RunTypeOK, CallInv
<1>2. ASSUME NEW c \in Calls,
             CallCancelled(c) \/ CallReplayed(c) \/ CallOverCap(c) \/ CallOverBudget(c)
      PROVE  Charged' \subseteq Charged /\ spawned' \in {spawned, spawned + 1}
  BY <1>1, <1>2 DEF Charged, InBody, CallCancelled, CallReplayed, CallOverCap, CallOverBudget, Throws, attempt
<1>3. ASSUME NEW c \in Calls, CallEnters(c) \/ CallQueues(c)
      PROVE  /\ spawned < MaxAgents /\ spawned' = spawned + 1
             /\ Charged' \subseteq Charged \cup {c}
  BY <1>1, <1>3, RunAssumption
     DEF Charged, InBody, CallEnters, CallQueues, Spawns, CapReached, Begin, Launch, attempt, RunAssumption
<1>4. ASSUME NEW c \in Calls, Admitted(c)
      PROVE  Charged' \subseteq Charged /\ spawned' = spawned
  <2>1. slot[c] = "woken"
    BY <1>4, SlotMoves DEF Admitted, IInv
  <2> QED BY <1>1, <1>4, <2>1 DEF Charged, InBody, Admitted, Begin, Launch, attempt
<1>5. ASSUME NEW c \in Calls, WorktreeReady(c) \/ Retry(c)
      PROVE  Charged' \subseteq Charged /\ spawned' = spawned
  BY <1>1, <1>5 DEF Charged, InBody, WorktreeReady, Retry, Inside, Launch, MayRetry
<1>6. ASSUME NEW c \in Calls, Body(c) \/ StallTimerFires(c) \/ Kill(c),
             ~Admitted(c), ~WorktreeReady(c), ~Retry(c)
      PROVE  Charged' \subseteq Charged /\ spawned' = spawned
  <2>1. tries' = tries /\ spawned' = spawned
    BY <1>6 DEF Body, WorktreeFails, Prompt, StallTimerFires, Answers, Rejects, GiveUp, Finish,
                FinishFails, Catch, WorktreeReleased, Close, Kill, Inside, attempt, counters
  <2>2. \A d \in Calls :
           \/ stage'[d] = stage[d] \/ stage[d] \in InBody
           \/ stage'[d] \notin {"queued"} \cup InBody
    BY <1>1, <1>6 DEF InBody, Body, WorktreeFails, Prompt, StallTimerFires, Answers, Rejects, GiveUp, Finish,
                FinishFails, Catch, WorktreeReleased, Close, Kill, Inside, Leaves, ThrownWith
  <2> QED BY <2>1, <2>2 DEF Charged
<1>7. ASSUME \/ Abort \/ RunAborts \/ \E r \in {"returned", "failed"} : ScriptEnds(r)
             \/ UNCHANGED vars
      PROVE  Charged' \subseteq Charged /\ spawned' = spawned
  BY <1>7 DEF Charged, InBody, Abort, RunAborts, ScriptEnds, vars, attempt, counters
<1> QED BY <1>1, <1>2, <1>3, <1>4, <1>5, <1>6, <1>7 DEF Next, Call

(* Adding one call to a finite set of calls adds at most one to its size:  *)
(* what a counter that grows by one must stay ahead of.                    *)
LEMMA OneMoreAtMost ==
  ASSUME NEW S, IsFiniteSet(S), NEW c
  PROVE  /\ IsFiniteSet(S \cup {c}) /\ Cardinality(S \cup {c}) \in Nat
         /\ Cardinality(S \cup {c}) <= Cardinality(S) + 1
<1>1. IsFiniteSet(S \cup {c})
  BY FS_AddElement, Zenon
<1>2. Cardinality(S \cup {c}) = IF c \in S THEN Cardinality(S) ELSE Cardinality(S) + 1
  BY FS_AddElement, Zenon
<1>3. Cardinality(S) \in Nat
  BY FS_CardinalityType, Zenon
<1> QED BY <1>1, <1>2, <1>3

(* A part of a finite set of calls is finite and no larger than the whole. *)
LEMMA PartNoLarger ==
  ASSUME NEW S, IsFiniteSet(S), NEW T \in SUBSET S
  PROVE  IsFiniteSet(T) /\ Cardinality(T) \in Nat /\ Cardinality(T) <= Cardinality(S)
<1>1. IsFiniteSet(T) /\ Cardinality(T) <= Cardinality(S)
  BY FS_Subset, Zenon
<1> QED BY <1>1, FS_CardinalityType, Zenon

(* maxAgents bounds the subagents a run ever starts, also those that were  *)
(* queued when it was reached.                                             *)
THEOREM CapBoundsSpawns == Spec => []SpawnCapHolds
<1>1. Init => CapInv
  <2> SUFFICES ASSUME Init
               PROVE  CapInv
    OBVIOUS
  <2>1. Charged = {}
    BY DEF Init, Charged, InBody
  <2> QED BY <2>1, FS_EmptySet, RunAssumption DEF Init, CapInv, RunAssumption
<1>2. IInv /\ CapInv /\ [Next]_vars => CapInv'
  <2> SUFFICES ASSUME IInv, CapInv, [Next]_vars
               PROVE  CapInv'
    OBVIOUS
  <2>1. IsFiniteSet(Charged) /\ Cardinality(Charged) \in Nat /\ MaxAgents \in Nat
    BY CallsFinite, RunAssumption, FS_Subset, FS_CardinalityType DEF Charged, RunAssumption
  <2>2. CASE Charged' \subseteq Charged /\ spawned' \in {spawned, spawned + 1}
    <3>1. Cardinality(Charged') \in Nat /\ Cardinality(Charged') <= Cardinality(Charged)
      BY <2>1, <2>2, PartNoLarger
    <3> QED BY <2>1, <2>2, <3>1, ChargedSteps DEF CapInv
  <2>3. CASE /\ spawned < MaxAgents /\ spawned' = spawned + 1
             /\ \E c \in Calls : Charged' \subseteq Charged \cup {c}
    <3>1. PICK c \in Calls : Charged' \subseteq Charged \cup {c}
      BY <2>3
    <3>2. /\ IsFiniteSet(Charged \cup {c}) /\ Cardinality(Charged \cup {c}) \in Nat
          /\ Cardinality(Charged \cup {c}) <= Cardinality(Charged) + 1
      BY <2>1, OneMoreAtMost
    <3>3. Cardinality(Charged') \in Nat /\ Cardinality(Charged') <= Cardinality(Charged \cup {c})
      BY <3>1, <3>2, PartNoLarger
    <3> QED BY <2>1, <2>3, <3>2, <3>3, ChargedSteps DEF CapInv
  <2> QED BY <2>2, <2>3, ChargedSteps
<1>3. CapInv => SpawnCapHolds
  <2> SUFFICES ASSUME CapInv
               PROVE  SpawnCapHolds
    OBVIOUS
  <2> DEFINE started == {c \in Calls : tries[c] > 0}
  <2>1. started \in SUBSET Charged /\ Charged \in SUBSET Calls
    BY DEF Charged
  <2>2. IsFiniteSet(Charged) /\ IsFiniteSet(started)
    BY <2>1, CallsFinite, PartNoLarger
  <2>3. /\ Cardinality(Charged) \in Nat /\ Cardinality(started) \in Nat
        /\ Cardinality(started) <= Cardinality(Charged)
    BY <2>1, <2>2, PartNoLarger
  <2> QED BY <2>3, RunAssumption DEF CapInv, SpawnCapHolds, RunAssumption
<1> QED BY <1>1, <1>2, <1>3, RunInvariant, PTL DEF Spec

-----------------------------------------------------------------------------
(* Sums over the calls.  MapThenSumSet takes the calls one by one, each    *)
(* time the one that CHOOSE picks of those that are left.                  *)
First(s) == CHOOSE c \in s : TRUE

IsSum(f, w) ==
    f = [s \in SUBSET Calls |-> IF s = {} THEN 0 ELSE w[First(s)] + f[s \ {First(s)}]]

Sums(w) == CHOOSE f : IsSum(f, w)
Sum(w) == Sums(w)[Calls]

LEMMA Inductive ==
  ASSUME NEW T \in SUBSET Nat, 0 \in T, \A n \in T : n + 1 \in T
  PROVE  \A n \in Nat : n \in T
<1> SUFFICES ASSUME NEW k \in Nat, k \notin T PROVE FALSE
  OBVIOUS
<1> DEFINE R == OpToRel(<, Nat)
           missing == Nat \ T
<1>1. IsWellFoundedOn(R, Nat)
  BY NatLessThanWellFounded
<1> HIDE DEF R
<1>2. PICK m \in missing : \A n \in missing : ~(<<n, m>> \in R)
  BY <1>1, WFMin, Zenon
<1>3. \A n \in Nat : n < m => n \in T
  BY <1>2 DEF R, OpToRel
<1>4. m # 0
  BY <1>2
<1>5. m - 1 \in Nat /\ m - 1 < m
  BY <1>2, <1>4
<1>6. m \in T
  BY <1>3, <1>5
<1> QED BY <1>2, <1>6

(* What is left of a set without its first element is smaller.             *)
LEMMA Shrinks ==
  ASSUME NEW s \in SUBSET Calls, s # {}
  PROVE  /\ First(s) \in s /\ First(s) \in Calls /\ s \ {First(s)} \in SUBSET Calls
         /\ Cardinality(s) \in Nat /\ Cardinality(s \ {First(s)}) = Cardinality(s) - 1
<1>1. First(s) \in s
  BY DEF First
<1>2. IsFiniteSet(s)
  BY CallsFinite, FS_Subset
<1>3. Cardinality(s) \in Nat
  BY <1>2, FS_CardinalityType
<1>4. Cardinality(s \ {First(s)}) = IF First(s) \in s THEN Cardinality(s) - 1 ELSE Cardinality(s)
  BY <1>2, FS_RemoveElement, Zenon
<1> QED BY <1>1, <1>3, <1>4

LEMMA OnlyEmpty ==
  ASSUME NEW s \in SUBSET Calls
  PROVE  Cardinality(s) \in Nat /\ (Cardinality(s) = 0 <=> s = {})
<1>1. IsFiniteSet(s)
  BY CallsFinite, FS_Subset
<1> QED BY <1>1, FS_CardinalityType, FS_EmptySet, Zenon

LEMMA SumExists ==
  ASSUME NEW w \in [Calls -> Nat]
  PROVE  \E f \in [SUBSET Calls -> Nat] : IsSum(f, w)
<1> DEFINE Small(n) == {s \in SUBSET Calls : Cardinality(s) <= n}
           step(f, s) == IF s = {} THEN 0 ELSE w[First(s)] + f[s \ {First(s)}]
           T == {n \in Nat : \E f \in [Small(n) -> Nat] : \A s \in Small(n) : f[s] = step(f, s)}
<1>1. 0 \in T
  <2> DEFINE f == [s \in Small(0) |-> 0]
  <2>1. \A s \in Small(0) : s = {}
    <3> SUFFICES ASSUME NEW s \in SUBSET Calls, Cardinality(s) <= 0 PROVE s = {}
      OBVIOUS
    <3> HIDE DEF T, f
    <3> QED BY OnlyEmpty
  <2>2. f \in [Small(0) -> Nat] /\ \A s \in Small(0) : f[s] = step(f, s)
    BY <2>1
  <2> QED BY <2>2
<1>2. ASSUME NEW n \in T PROVE n + 1 \in T
  <2>1. PICK f \in [Small(n) -> Nat] : \A s \in Small(n) : f[s] = step(f, s)
    BY <1>2
  <2>2. n \in Nat
    BY <1>2
  <2> HIDE DEF T
  <2> DEFINE g == [s \in Small(n + 1) |-> step(f, s)]
  <2>3. ASSUME NEW s \in Small(n + 1), s # {}
        PROVE  /\ s \ {First(s)} \in Small(n) /\ s \ {First(s)} \in Small(n + 1)
               /\ w[First(s)] \in Nat /\ f[s \ {First(s)}] \in Nat
    <3>1. /\ First(s) \in Calls /\ s \ {First(s)} \in SUBSET Calls /\ Cardinality(s) \in Nat
          /\ Cardinality(s \ {First(s)}) = Cardinality(s) - 1
      BY <2>3, Shrinks
    <3> QED BY <2>2, <3>1
  <2>4. \A s \in Small(n) : s \in Small(n + 1) /\ g[s] = f[s]
    <3> SUFFICES ASSUME NEW s \in Small(n) PROVE s \in Small(n + 1) /\ g[s] = f[s]
      OBVIOUS
    <3>1. Cardinality(s) \in Nat
      BY CallsFinite, PartNoLarger
    <3>2. s \in Small(n + 1)
      BY <2>2, <3>1
    <3> QED BY <2>1, <3>2
  <2>5. g \in [Small(n + 1) -> Nat]
    BY <2>3
  <2>6. \A s \in Small(n + 1) : g[s] = step(g, s)
    <3> SUFFICES ASSUME NEW s \in Small(n + 1), s # {} PROVE g[s] = step(g, s)
      OBVIOUS
    <3>1. g[s \ {First(s)}] = f[s \ {First(s)}]
      BY <2>3, <2>4
    <3>2. g[s] = w[First(s)] + f[s \ {First(s)}]
      OBVIOUS
    <3> HIDE DEF g
    <3> QED BY <3>1, <3>2
  <2>7. n + 1 \in Nat
    BY <2>2
  <2> HIDE DEF g
  <2> QED BY <2>5, <2>6, <2>7 DEF T
<1>3. \A n \in Nat : n \in T
  <2> HIDE DEF T
  <2>1. T \in SUBSET Nat
    BY DEF T
  <2> QED BY <1>1, <1>2, <2>1, Inductive
<1>4. Cardinality(Calls) \in Nat /\ Small(Cardinality(Calls)) = SUBSET Calls
  <2>1. \A s \in SUBSET Calls : Cardinality(s) <= Cardinality(Calls)
    BY CallsFinite, PartNoLarger
  <2>2. Cardinality(Calls) \in Nat
    BY CallsFinite, FS_CardinalityType
  <2> QED BY <2>1, <2>2
<1>5. PICK n \in Nat : n = Cardinality(Calls)
  BY <1>4
<1>6. \E f \in [Small(n) -> Nat] : \A s \in Small(n) : f[s] = step(f, s)
  <2> HIDE DEF Small, step
  <2> QED BY <1>3, <1>5
<1>7. Small(n) = SUBSET Calls
  BY <1>4, <1>5
<1> HIDE DEF Small, T
<1>8. PICK f \in [SUBSET Calls -> Nat] : \A s \in SUBSET Calls : f[s] = step(f, s)
  BY <1>6, <1>7
<1> QED BY <1>8 DEF IsSum

LEMMA SumIs ==
  ASSUME NEW w \in [Calls -> Nat]
  PROVE  /\ IsSum(Sums(w), w)
         /\ Sums(w)[{}] = 0
         /\ \A s \in SUBSET Calls : s # {} => Sums(w)[s] = w[First(s)] + Sums(w)[s \ {First(s)}]
         /\ \A s \in SUBSET Calls : Sums(w)[s] \in Nat
<1>1. \E g : IsSum(g, w)
  BY SumExists
<1>2. IsSum(Sums(w), w)
  BY <1>1 DEF Sums
<1> DEFINE f == Sums(w)
<1> HIDE DEF f
<1>4. f[{}] = 0 /\ \A s \in SUBSET Calls : s # {} => f[s] = w[First(s)] + f[s \ {First(s)}]
  BY <1>2 DEF IsSum, f
<1> DEFINE T == {n \in Nat : \A s \in SUBSET Calls : Cardinality(s) <= n => f[s] \in Nat}
<1>5. 0 \in T
  <2> SUFFICES ASSUME NEW s \in SUBSET Calls, Cardinality(s) <= 0 PROVE f[s] \in Nat
    OBVIOUS
  <2>1. CASE s = {}
    BY <1>4, <2>1
  <2>2. CASE s # {}
    <3>1. /\ Cardinality(s) \in Nat /\ Cardinality(s \ {First(s)}) = Cardinality(s) - 1
          /\ s \ {First(s)} \in SUBSET Calls
      BY <2>2, Shrinks
    <3>2. Cardinality(s \ {First(s)}) \in Nat
      BY <3>1, CallsFinite, PartNoLarger
    <3> QED BY <3>1, <3>2
  <2> QED BY <2>1, <2>2
<1>6. ASSUME NEW n \in T PROVE n + 1 \in T
  <2>1. n \in Nat /\ \A s \in SUBSET Calls : Cardinality(s) <= n => f[s] \in Nat
    BY <1>6
  <2> SUFFICES ASSUME NEW s \in SUBSET Calls, Cardinality(s) <= n + 1 PROVE f[s] \in Nat
    BY <2>1
  <2> HIDE DEF T
  <2>2. CASE s = {}
    BY <1>4, <2>2
  <2>3. CASE s # {}
    <3>1. /\ First(s) \in Calls /\ s \ {First(s)} \in SUBSET Calls
          /\ Cardinality(s) \in Nat /\ Cardinality(s \ {First(s)}) = Cardinality(s) - 1
      BY <2>3, Shrinks
    <3>2. f[s \ {First(s)}] \in Nat
      BY <2>1, <3>1
    <3>3. w[First(s)] \in Nat
      BY <3>1
    <3>4. f[s] = w[First(s)] + f[s \ {First(s)}]
      BY <1>4, <2>3
    <3> QED BY <3>2, <3>3, <3>4
  <2> QED BY <2>2, <2>3
<1>7. \A n \in Nat : n \in T
  <2> HIDE DEF T
  <2>1. T \in SUBSET Nat
    BY DEF T
  <2> QED BY <1>5, <1>6, <2>1, Inductive
<1>8. ASSUME NEW s \in SUBSET Calls PROVE f[s] \in Nat
  <2>1. Cardinality(s) \in Nat
    BY CallsFinite, PartNoLarger
  <2> QED BY <1>7, <2>1
<1> QED BY <1>2, <1>4, <1>8 DEF f

(* The sum grows by what one call brings in.                               *)
LEMMA SumGrows ==
  ASSUME NEW w \in [Calls -> Nat], NEW v \in [Calls -> Nat], NEW c \in Calls,
         w[c] = 0, \A d \in Calls \ {c} : v[d] = w[d]
  PROVE  Sum(v) = Sum(w) + v[c]
<1>1. PICK f : f = Sums(w)
  OBVIOUS
<1>2. PICK g : g = Sums(v)
  OBVIOUS
<1>3. /\ Sum(w) = f[Calls] /\ f[{}] = 0
      /\ \A s \in SUBSET Calls : s # {} => f[s] = w[First(s)] + f[s \ {First(s)}]
      /\ \A s \in SUBSET Calls : f[s] \in Nat
  BY <1>1, SumIs DEF Sum
<1>4. /\ Sum(v) = g[Calls] /\ g[{}] = 0
      /\ \A s \in SUBSET Calls : s # {} => g[s] = v[First(s)] + g[s \ {First(s)}]
      /\ \A s \in SUBSET Calls : g[s] \in Nat
  BY <1>2, SumIs DEF Sum
<1> DEFINE more(s) == IF c \in s THEN v[c] ELSE 0
           T == {n \in Nat : \A s \in SUBSET Calls : Cardinality(s) = n => g[s] = f[s] + more(s)}
<1>5. 0 \in T
  <2> SUFFICES ASSUME NEW s \in SUBSET Calls, Cardinality(s) = 0 PROVE g[s] = f[s] + more(s)
    OBVIOUS
  <2>1. s = {}
    BY OnlyEmpty
  <2> QED BY <1>3, <1>4, <2>1
<1>6. ASSUME NEW n \in T PROVE n + 1 \in T
  <2>1. n \in Nat /\ \A s \in SUBSET Calls : Cardinality(s) = n => g[s] = f[s] + more(s)
    BY <1>6
  <2> SUFFICES ASSUME NEW s \in SUBSET Calls, Cardinality(s) = n + 1 PROVE g[s] = f[s] + more(s)
    BY <2>1
  <2>2. s # {}
    BY <2>1, OnlyEmpty
  <2>3. PICK x : x = First(s)
    OBVIOUS
  <2>4. PICK r : r = s \ {x}
    OBVIOUS
  <2>5. x \in s /\ x \in Calls /\ r \in SUBSET Calls /\ Cardinality(r) = n
    BY <2>1, <2>2, <2>3, <2>4, Shrinks
  <2>6. g[s] = v[x] + g[r] /\ f[s] = w[x] + f[r] /\ g[r] = f[r] + more(r)
    BY <1>3, <1>4, <2>1, <2>2, <2>3, <2>4, <2>5
  <2>7. g[r] \in Nat /\ f[r] \in Nat /\ v[x] \in Nat /\ w[x] \in Nat /\ v[c] \in Nat
    BY <1>3, <1>4, <2>5
  <2>8. CASE x = c
    <3>1. more(r) = 0 /\ more(s) = v[c] /\ w[x] = 0
      BY <2>4, <2>5, <2>8
    <3> QED BY <2>6, <2>7, <2>8, <3>1
  <2>9. CASE x # c
    <3>1. more(r) = more(s) /\ v[x] = w[x] /\ more(s) \in Nat
      BY <2>4, <2>5, <2>7, <2>9
    <3> HIDE DEF more
    <3> QED BY <2>6, <2>7, <3>1
  <2> QED BY <2>8, <2>9
<1>7. \A n \in Nat : n \in T
  <2> HIDE DEF T
  <2>1. T \in SUBSET Nat
    BY DEF T
  <2> QED BY <1>5, <1>6, <2>1, Inductive
<1>8. Cardinality(Calls) \in Nat
  BY CallsFinite, FS_CardinalityType
<1>9. g[Calls] = f[Calls] + more(Calls)
  BY <1>7, <1>8
<1> QED BY <1>3, <1>4, <1>9

-----------------------------------------------------------------------------
(* What each call contributes to state.spent.                              *)
Tokens == [c \in Calls |-> IF outcome[c] \in {"cached", "value", "null"} THEN cost[c] ELSE 0]

TokenInv == spent = Sum(Tokens)

LEMMA TokensAreASum == TokensRecordedOnce <=> TokenInv
<1> DEFINE tokens(c) == IF outcome[c] \in {"cached", "value", "null"} THEN cost[c] ELSE 0
           Folds(f) == f = [s \in SUBSET Calls |->
                              IF s = {} THEN 0 ELSE tokens(First(s)) + f[s \ {First(s)}]]
<1>1. TokensRecordedOnce <=> spent = (CHOOSE f : Folds(f))[Calls]
  BY DEF TokensRecordedOnce, First, MapThenSumSet, MapThenFoldSet
<1>2. \A s \in SUBSET Calls : s # {} => tokens(First(s)) = Tokens[First(s)]
  BY Shrinks DEF Tokens
<1>3. \A f : Folds(f) <=> IsSum(f, Tokens)
  <2> HIDE DEF tokens
  <2> QED BY <1>2 DEF IsSum
<1> HIDE DEF Folds
<1>4. (CHOOSE f : Folds(f)) = (CHOOSE f : IsSum(f, Tokens))
  BY <1>3, Zenon
<1> QED BY <1>1, <1>4 DEF TokenInv, Sum, Sums

(* A step decides one call and records what it cost, or counts nothing:    *)
(* the attempts of a call cost while its outcome is open.                  *)
LEMMA TokenSteps ==
  ASSUME IInv, [Next]_vars
  PROVE  /\ Tokens \in [Calls -> Nat] /\ Tokens' \in [Calls -> Nat]
         /\ \/ Tokens' = Tokens /\ spent' = spent
            \/ \E c \in Calls : /\ Tokens[c] = 0 /\ spent' = spent + Tokens'[c]
                                /\ \A d \in Calls \ {c} : Tokens'[d] = Tokens[d]
<1>1. /\ outcome \in [Calls -> Outcomes] /\ cost \in [Calls -> Nat] /\ ordinal \in Nat
      /\ \A c \in Calls : c \in Nat /\ CallInv(c)
  BY DEF IInv, RunInv, RunTypeOK, Calls
<1>2. cost' \in [Calls -> Nat] /\ outcome' \in [Calls -> Outcomes]
  BY StepInv, RunAssumption DEF IInv, RunInv, RunTypeOK
<1>3. Tokens \in [Calls -> Nat] /\ Tokens' \in [Calls -> Nat]
  BY <1>1, <1>2 DEF Tokens
<1>4. ASSUME NEW c \in Calls, outcome[c] = "none", outcome'[c] = "threw", cost' = cost,
             \A d \in Calls \ {c} : outcome'[d] = outcome[d]
      PROVE  Tokens' = Tokens
  BY <1>1, <1>2, <1>4 DEF Tokens
<1>5. ASSUME NEW c \in Calls, outcome[c] = "none", outcome'[c] \in {"cached", "value", "null"},
             spent' = spent + cost'[c],
             \A d \in Calls \ {c} : outcome'[d] = outcome[d] /\ cost'[d] = cost[d]
      PROVE  \E e \in Calls : /\ Tokens[e] = 0 /\ spent' = spent + Tokens'[e]
                              /\ \A d \in Calls \ {e} : Tokens'[d] = Tokens[d]
  <2>1. Tokens[c] = 0 /\ Tokens'[c] = cost'[c]
    BY <1>5 DEF Tokens
  <2>2. \A d \in Calls \ {c} : Tokens'[d] = Tokens[d]
    BY <1>5 DEF Tokens
  <2> QED BY <1>5, <2>1, <2>2
<1>6. ASSUME NEW c \in Calls, Call(c)
      PROVE  outcome[c] = "none"
  <2>1. c = ordinal + 1
    BY <1>6 DEF Call, CallCancelled, CallReplayed, CallOverCap, CallOverBudget, CallEnters, CallQueues,
                Spawns, Called
  <2> QED BY <1>1, <2>1 DEF CallInv, Undecided
<1>7. ASSUME NEW c \in Calls, Begin(c), outcome[c] = "none"
      PROVE  Tokens' = Tokens /\ spent' = spent
  <2>1. cost' = cost /\ spent' = spent
    BY <1>7 DEF Begin, Launch, attempt
  <2>2. outcome' = outcome \/ outcome' = [outcome EXCEPT ![c] = "threw"]
    BY <1>7 DEF Begin
  <2>3. CASE outcome' = outcome
    BY <2>1, <2>3 DEF Tokens
  <2>4. CASE outcome' = [outcome EXCEPT ![c] = "threw"]
    BY <1>1, <1>4, <1>7, <2>1, <2>4
  <2> QED BY <2>1, <2>2, <2>3, <2>4
<1>8. ASSUME NEW c \in Calls, CallCancelled(c) \/ CallOverCap(c) \/ CallOverBudget(c)
      PROVE  Tokens' = Tokens /\ spent' = spent
  <2>1. outcome[c] = "none" /\ Throws(c)
    BY <1>6, <1>8 DEF Call, CallCancelled, CallOverCap, CallOverBudget
  <2>2. outcome' = [outcome EXCEPT ![c] = "threw"] /\ cost' = cost /\ spent' = spent
    BY <2>1 DEF Throws, attempt
  <2> QED BY <1>1, <1>4, <2>1, <2>2
<1>9. ASSUME NEW c \in Calls, CallReplayed(c)
      PROVE  \E e \in Calls : /\ Tokens[e] = 0 /\ spent' = spent + Tokens'[e]
                              /\ \A d \in Calls \ {e} : Tokens'[d] = Tokens[d]
  <2>1. outcome[c] = "none"
    BY <1>6, <1>9 DEF Call
  <2>2. /\ outcome' = [outcome EXCEPT ![c] = "cached"] /\ cost' = [cost EXCEPT ![c] = 1]
        /\ spent' = spent + 1
    BY <1>9 DEF CallReplayed
  <2> QED BY <1>1, <1>5, <2>1, <2>2
<1>10. ASSUME NEW c \in Calls, CallQueues(c)
       PROVE  Tokens' = Tokens /\ spent' = spent
  BY <1>10 DEF CallQueues, attempt, Tokens
<1>11. ASSUME NEW c \in Calls, CallEnters(c) \/ Admitted(c)
       PROVE  Tokens' = Tokens /\ spent' = spent
  <2>1. CASE CallEnters(c)
    BY <1>6, <1>7, <2>1 DEF Call, CallEnters
  <2>2. CASE Admitted(c)
    <3>1. slot[c] = "woken"
      BY <2>2, SlotMoves DEF Admitted, IInv
    <3>2. outcome[c] = "none"
      BY <1>1, <3>1 DEF CallInv, Undecided
    <3> QED BY <1>7, <2>2, <3>2 DEF Admitted
  <2> QED BY <1>11, <2>1, <2>2
<1>12. ASSUME NEW c \in Calls, Finish(c) \/ Catch(c)
       PROVE  \/ Tokens' = Tokens /\ spent' = spent
              \/ \E e \in Calls : /\ Tokens[e] = 0 /\ spent' = spent + Tokens'[e]
                                  /\ \A d \in Calls \ {e} : Tokens'[d] = Tokens[d]
  <2>1. outcome[c] = "none" /\ cost' = cost
    BY <1>1, <1>12 DEF CallInv, Undecided, InBody, Finish, Catch, Inside, attempt
  <2>2. \/ outcome' = [outcome EXCEPT ![c] = "threw"] /\ spent' = spent
        \/ \E o \in {"value", "null"} : outcome' = [outcome EXCEPT ![c] = o] /\ spent' = spent + cost[c]
    BY <1>12 DEF Finish, Catch, Recorded
  <2>3. CASE outcome' = [outcome EXCEPT ![c] = "threw"] /\ spent' = spent
    BY <1>1, <1>4, <2>1, <2>3
  <2>4. ASSUME NEW o \in {"value", "null"}, outcome' = [outcome EXCEPT ![c] = o], spent' = spent + cost[c]
        PROVE  \E e \in Calls : /\ Tokens[e] = 0 /\ spent' = spent + Tokens'[e]
                                /\ \A d \in Calls \ {e} : Tokens'[d] = Tokens[d]
    BY <1>1, <1>5, <2>1, <2>4
  <2> QED BY <2>2, <2>3, <2>4
<1>13. ASSUME NEW c \in Calls, Prompt(c)
       PROVE  Tokens' = Tokens /\ spent' = spent
  <2>1. outcome[c] = "none" /\ outcome' = outcome /\ spent' = spent
    BY <1>1, <1>13 DEF CallInv, Undecided, InBody, Prompt, Inside
  <2>2. \A d \in Calls \ {c} : cost'[d] = cost[d]
    BY <1>1, <1>13 DEF Prompt
  <2> QED BY <2>1, <2>2 DEF Tokens
<1>14. ASSUME NEW c \in Calls, Body(c) \/ StallTimerFires(c) \/ Kill(c),
              ~Admitted(c), ~Finish(c), ~Catch(c), ~Prompt(c)
       PROVE  outcome' = outcome /\ cost' = cost /\ spent' = spent
  BY <1>14 DEF Body, WorktreeReady, WorktreeFails, StallTimerFires, Answers, Rejects, Retry, Launch,
               GiveUp, FinishFails, WorktreeReleased, Close, Kill, attempt, counters
<1>15. ASSUME \/ Abort \/ RunAborts \/ \E r \in {"returned", "failed"} : ScriptEnds(r)
              \/ UNCHANGED vars
       PROVE  outcome' = outcome /\ cost' = cost /\ spent' = spent
  BY <1>15 DEF Abort, RunAborts, ScriptEnds, vars, attempt, counters
<1>16. outcome' = outcome /\ cost' = cost /\ spent' = spent => Tokens' = Tokens /\ spent' = spent
  BY DEF Tokens
<1> QED BY <1>3, <1>8, <1>9, <1>10, <1>11, <1>12, <1>13, <1>14, <1>15, <1>16 DEF Next, Call

(* recordTelemetry: the tokens of every call whose outcome reached the     *)
(* script are in state.spent once, with those of its stalled attempts, and *)
(* nothing else is.                                                        *)
THEOREM TokensAreCountedOnce == Spec => []TokensRecordedOnce
<1>1. Init => TokenInv
  <2> SUFFICES ASSUME Init PROVE TokenInv
    OBVIOUS
  <2> DEFINE w == Tokens
  <2>1. w \in [Calls -> Nat] /\ \A c \in Calls : w[c] = 0
    BY DEF Init, Tokens
  <2>2. PICK f : f = Sums(w)
    OBVIOUS
  <2> HIDE DEF w
  <2>3. /\ Sum(w) = f[Calls] /\ f[{}] = 0
        /\ \A s \in SUBSET Calls : s # {} => f[s] = w[First(s)] + f[s \ {First(s)}]
    BY <2>1, <2>2, SumIs DEF Sum
  <2> DEFINE T == {n \in Nat : \A s \in SUBSET Calls : Cardinality(s) = n => f[s] = 0}
  <2>4. 0 \in T
    BY <2>3, OnlyEmpty
  <2>5. ASSUME NEW n \in T PROVE n + 1 \in T
    <3> SUFFICES ASSUME NEW s \in SUBSET Calls, Cardinality(s) = n + 1 PROVE f[s] = 0
      BY <2>5
    <3>1. n \in Nat /\ s # {}
      BY <2>5, OnlyEmpty
    <3>2. First(s) \in Calls /\ s \ {First(s)} \in SUBSET Calls /\ Cardinality(s \ {First(s)}) = n
      BY <3>1, Shrinks
    <3>3. f[s \ {First(s)}] = 0 /\ w[First(s)] = 0
      BY <2>1, <2>5, <3>2
    <3> HIDE DEF T
    <3>4. f[s] = 0 + 0
      BY <2>3, <3>1, <3>3
    <3> QED BY <3>4
  <2>6. \A n \in Nat : n \in T
    <3> HIDE DEF T
    <3>1. T \in SUBSET Nat
      BY DEF T
    <3> QED BY <2>4, <2>5, <3>1, Inductive
  <2>7. Cardinality(Calls) \in Nat
    BY CallsFinite, FS_CardinalityType
  <2>8. Sum(w) = 0
    BY <2>3, <2>6, <2>7
  <2> QED BY <2>8 DEF TokenInv, Init, w
<1>2. IInv /\ TokenInv /\ [Next]_vars => TokenInv'
  <2> SUFFICES ASSUME IInv, TokenInv, [Next]_vars PROVE TokenInv'
    OBVIOUS
  <2>1. PICK w \in [Calls -> Nat] : w = Tokens
    BY TokenSteps
  <2>2. PICK v \in [Calls -> Nat] : v = Tokens'
    BY TokenSteps
  <2>3. CASE Tokens' = Tokens /\ spent' = spent
    BY <2>3 DEF TokenInv
  <2>4. ASSUME NEW c \in Calls, w[c] = 0, spent' = spent + v[c], \A d \in Calls \ {c} : v[d] = w[d]
        PROVE  TokenInv'
    <3>1. Sum(v) = Sum(w) + v[c]
      BY <2>4, SumGrows
    <3> QED BY <2>1, <2>2, <2>4, <3>1 DEF TokenInv
  <2> QED BY <2>1, <2>2, <2>3, <2>4, TokenSteps
<1> QED BY <1>1, <1>2, TokensAreASum, RunInvariant, PTL DEF Spec
=============================================================================
