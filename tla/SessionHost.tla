------------------------------ MODULE SessionHost ------------------------------
(***************************************************************************)
(* The extension around the runs (extensions/workflow.ts) and the          *)
(* background half of the workflow tool (src/workflow-tool.ts): launching  *)
(* a detached run, registering it, killing it, delivering its result, and  *)
(* closing the session under it.  Delivery is ResultDelivery.tla, whose    *)
(* steps are interleaved with these; an element of Ids is one invocation   *)
(* of the tool, and its deliveryId.                                        *)
(*                                                                         *)
(* The registries `pending`, `liveUiClears` and `liveRuns` are maps keyed  *)
(* by runId, not by invocation.  The last two are written and deleted      *)
(* together, so liveRuns stands for both.                                  *)
(***************************************************************************)
EXTENDS ResultDelivery

CONSTANTS
    RunIds,     \* the run directories
    ReuseLive   \* may a launch resume a runId that is running?

VARIABLES
    life,       \* where each invocation is
    runId,      \* its run directory, or None
    born,       \* the session generation it was launched in, or None
    pending,    \* runId -> invocation whose settled promise is awaited, or None
    liveRuns,   \* runId -> invocation the commands act on, or None
    aborted,    \* invocations whose run signal was aborted
    closing,    \* session_shutdown is awaiting
    inflight    \* what it awaits

hvars == <<life, runId, born, pending, liveRuns, aborted, closing, inflight>>
vars == <<dvars, hvars>>

Lives == {"unlaunched", "running", "settling", "settled"}
Running == {id \in Ids : life[id] = "running"}
Settled(id) == life[id] \in {"settling", "settled"}

-----------------------------------------------------------------------------
(* Mutants: slips in the extension that the properties must notice.        *)

Aborts_None == {}
Awaited_None == {}
Awaited_Deleted == {pending[r] : r \in RunIds}
Deleted_Everything(map, r) == [x \in DOMAIN map |-> None]

-----------------------------------------------------------------------------
HInit ==
    /\ DInit
    /\ life = [id \in Ids |-> "unlaunched"]
    /\ runId = [id \in Ids |-> None]
    /\ born = [id \in Ids |-> None]
    /\ pending = [r \in RunIds |-> None]
    /\ liveRuns = [r \in RunIds |-> None]
    /\ aborted = {}
    /\ closing = FALSE
    /\ inflight = {}

(* resumeFromRunId ?? runId ?? generated: nothing looks whether it is live *)
MayUse(r) == ReuseLive \/ \A id \in Ids : runId[id] = r => life[id] = "settled"

(* A tool call of the running parent, or a /run-workflow handler, launches *)
(* a detached run; trackRun and registerLiveUi overwrite what the runId    *)
(* had registered.                                                         *)
Launch(id, r) ==
    /\ life[id] = "unlaunched"
    /\ co.accepting
    /\ parent # None \/ Holding # {}
    /\ MayUse(r)
    /\ life' = [life EXCEPT ![id] = "running"]
    /\ runId' = [runId EXCEPT ![id] = r]
    /\ born' = [born EXCEPT ![id] = co.generation]
    /\ pending' = [pending EXCEPT ![r] = id]
    /\ liveRuns' = [liveRuns EXCEPT ![r] = id]
    /\ UNCHANGED <<dvars, aborted, closing, inflight>>

(* The run completes, fails or sees its abort, and its result is enqueued. *)
RunEnds(id) ==
    /\ life[id] = "running"
    /\ Finishes(id)
    /\ life' = [life EXCEPT ![id] = "settling"]
    /\ UNCHANGED <<runId, born, pending, liveRuns, aborted, closing, inflight>>

Deleted(map, r) == [map EXCEPT ![r] = None]

(* The finally callbacks of trackRun and registerLiveUi: they delete by    *)
(* runId, whichever invocation is registered there by now.                 *)
Unregister(id) ==
    /\ life[id] = "settling"
    /\ life' = [life EXCEPT ![id] = "settled"]
    /\ pending' = Deleted(pending, runId[id])
    /\ liveRuns' = Deleted(liveRuns, runId[id])
    /\ UNCHANGED <<dvars, runId, born, aborted, closing, inflight>>

(* /kill-workflow, K in the inspector, workflow_tasks kill: the registered *)
(* invocation's own controller.                                            *)
KillRun(r) ==
    /\ liveRuns[r] # None
    /\ aborted' = aborted \cup {liveRuns[r]}
    /\ UNCHANGED <<dvars, life, runId, born, pending, liveRuns, closing, inflight>>

(* What the shutdown signal aborts, and what the handler then awaits.      *)
Aborts == Running
Awaited == {pending[r] : r \in RunIds} \ {None}

(* session_shutdown up to its await.                                       *)
ShutdownBegins ==
    /\ ~closing
    /\ CloseSession
    /\ closing' = TRUE
    /\ aborted' = aborted \cup Aborts
    /\ inflight' = Awaited
    /\ pending' = [r \in RunIds |-> None]
    /\ liveRuns' = [r \in RunIds |-> None]
    /\ UNCHANGED <<life, runId, born>>

(* ... and after it: a new shutdown controller for the next session.       *)
ShutdownEnds ==
    /\ closing
    /\ \A id \in inflight : Settled(id)
    /\ closing' = FALSE
    /\ inflight' = {}
    /\ UNCHANGED <<dvars, life, runId, born, pending, liveRuns, aborted>>

SessionBegins == ~closing /\ StartSession /\ UNCHANGED hvars

HostSteps == Host /\ UNCHANGED hvars

HNext ==
    \/ \E id \in Ids, r \in RunIds : Launch(id, r)
    \/ \E id \in Ids : RunEnds(id) \/ Unregister(id)
    \/ \E r \in RunIds : KillRun(r)
    \/ ShutdownBegins \/ ShutdownEnds \/ SessionBegins
    \/ HostSteps

(* An aborted run settles (abortPromise wins the race in runWorkflow), and *)
(* queued callbacks run.                                                   *)
HFairness ==
    /\ \A id \in Ids : /\ WF_vars(id \in aborted /\ RunEnds(id))
                       /\ WF_vars(Unregister(id))
    /\ WF_vars(ShutdownEnds)

HSpec == HInit /\ [][HNext]_vars
HFairSpec == HSpec /\ HFairness /\ DFairness

-----------------------------------------------------------------------------
(* The types: a registry leads to an invocation, and shutdown awaits only  *)
(* invocations.                                                            *)
HTypeOK ==
    /\ DTypeOK
    /\ life \in [Ids -> Lives]
    /\ runId \in [Ids -> RunIds \cup {None}]
    /\ born \in [Ids -> Nat \cup {None}]
    /\ pending \in [RunIds -> Ids \cup {None}]
    /\ liveRuns \in [RunIds -> Ids \cup {None}]
    /\ aborted \subseteq Ids /\ inflight \subseteq Ids
    /\ closing \in BOOLEAN

(* README.md: runs are killed by their runId, and concurrent runs do not   *)
(* clobber each other.  Every run of the open session is the one its runId *)
(* leads to, for the commands and for the shutdown.                        *)
LiveRunIsReachable ==
    \A id \in Running :
        ~closing => /\ liveRuns[runId[id]] = id
                    /\ pending[runId[id]] = id

(* extensions/workflow.ts: shutdown aborts the runs in flight, then awaits *)
(* them.  When no session is open, every run is over.                      *)
ClosedMeansQuiet == ~co.accepting /\ ~closing => Running = {}

(* result-delivery.ts: no result of an old session reaches a replacement.  *)
NoForeignResult ==
    [][sent' # sent => born[sent'[Len(sent')]] = co.generation]_vars

(* The shutdown handler, which the host awaits, always finishes.           *)
ShutdownFinishes == closing ~> ~closing
=============================================================================
