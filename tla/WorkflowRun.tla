----------------------------- MODULE WorkflowRun -----------------------------
(***************************************************************************)
(* One run of a workflow script: runWorkflow (src/workflow.ts) with the    *)
(* part of WorkflowAgent.run (src/agent.ts) that looks at the abort signal.*)
(*                                                                         *)
(* The script is the environment: it may call agent() at any time, also    *)
(* after the run has settled (a promise nobody awaited).  A deterministic  *)
(* script gives its n-th call ordinal n, so a call, its ordinal and its    *)
(* journal key are one number here; ReplayOrdinals.tla is about scripts    *)
(* where they are not.                                                     *)
(*                                                                         *)
(* JavaScript runs one job at a time.  An action is one job: what runs     *)
(* between two awaits.  The stages "answered", "stalled" and "thrown" are  *)
(* the gaps between a promise settling and its awaiter running; other jobs *)
(* may run there.  The concurrency limiter is Limiter.tla, extended.       *)
(* Left out: labels, phases, log lines, feeds and transcripts, which no    *)
(* control depends on.                                                     *)
(***************************************************************************)
EXTENDS Limiter, FiniteSetsExt

CONSTANTS
    MaxAgents,    \* lifetime cap on spawns
    TokenBudget,  \* tokens after which a call is refused
    StallRetries, \* extra attempts after a stall
    Journaled,    \* ordinals a previous run of this runId left in the journal
    Isolated      \* ordinals called with isolation: 'worktree'

ASSUME RunAssumption ==
    /\ MaxAgents \in Nat
    /\ TokenBudget \in Nat
    /\ StallRetries \in Nat
    /\ Journaled \subseteq Calls
    /\ Isolated \subseteq Calls

VARIABLES
    ordinal,      \* state.ordinal: calls of agent() so far
    agentCount,   \* state.agentCount: calls replayed or admitted
    spawned,      \* state.spawned: calls charged to the cap
    spent,        \* state.spent: tokens recorded
    fatal,        \* state.fatal is set
    aborted,      \* options.signal.aborted
    run,          \* the promise of runWorkflow
    stage,        \* where each call is
    error,        \* the error on its way to the catch of agent()
    stalled,      \* the stall timer of the current attempt fired
    killed,       \* killState.killed
    killControls, \* the calls killAgents can reach
    tries,        \* attempts handed to the runner
    prompts,      \* attempts whose session was prompted
    cost,         \* cumulativeTelemetry.tokens of a call
    journal,      \* keys in the journal file
    shown,        \* status of the agent in the live snapshot
    outcome       \* how the promise of agent() settles

counters == <<ordinal, agentCount, spawned, spent>>
attempt == <<stalled, tries, prompts, cost>>
vars == <<limiter, counters, fatal, aborted, run, stage, error, killed, killControls,
          attempt, journal, shown, outcome>>

Stages == {"uncalled", "queued", "worktree", "starting", "prompting", "answered",
           "stalled", "thrown", "releasing", "closing", "settled"}
InBody == {"worktree", "starting", "prompting", "answered", "stalled", "thrown"}
Errors == {"none", "cancel", "kill", "stall", "fail"}
Statuses == {"none", "running", "done", "error", "killed", "skipped"}
Outcomes == {"none", "cached", "value", "null", "threw"}

(* throwIfAborted: the run takes no more work.                             *)
Cancelled == fatal \/ aborted

(* The signal an attempt runs under: AbortSignal.any(run, stall, kill).    *)
Signalled(c) == aborted \/ stalled[c] \/ c \in killed

-----------------------------------------------------------------------------
(* Mutants: slips in runWorkflow that the properties must notice.  The     *)
(* longer ones stand before the action they change.                        *)

CapReached_Late == spawned > MaxAgents
MayFinish_Unchecked(c) == stage[c] = "answered"
Discards_Never == FALSE
Recorded_LastAttempt(c) == IF cost[c] = 0 THEN 0 ELSE 1
Leave_KeepsControl(c) == killControls' = killControls

-----------------------------------------------------------------------------
Init ==
    /\ LInit
    /\ ordinal = 0 /\ agentCount = 0 /\ spawned = 0 /\ spent = 0
    /\ fatal = FALSE /\ aborted = FALSE
    /\ run = "running"
    /\ stage = [c \in Calls |-> "uncalled"]
    /\ error = [c \in Calls |-> "none"]
    /\ stalled = [c \in Calls |-> FALSE]
    /\ killed = {} /\ killControls = {}
    /\ tries = [c \in Calls |-> 0]
    /\ prompts = [c \in Calls |-> 0]
    /\ cost = [c \in Calls |-> 0]
    /\ journal = Journaled
    /\ shown = [c \in Calls |-> "none"]
    /\ outcome = [c \in Calls |-> "none"]

CapReached == spawned >= MaxAgents
BudgetExhausted == spent >= TokenBudget

(* The ordinal is taken synchronously, before any check can fail.          *)
Called(c) ==
    /\ c \in Calls
    /\ c = ordinal + 1
    /\ ordinal' = c

Throws(c) ==
    /\ stage' = [stage EXCEPT ![c] = "settled"]
    /\ outcome' = [outcome EXCEPT ![c] = "threw"]
    /\ UNCHANGED <<limiter, run, aborted, error, killed, killControls, attempt, journal,
                   shown, agentCount, spent>>

(* throwIfAborted() at the top of agent().                                 *)
CallCancelled(c) ==
    /\ Called(c)
    /\ Cancelled
    /\ Throws(c)
    /\ UNCHANGED <<fatal, spawned>>

(* A journal hit: no slot, no spawn; its recorded tokens count as spent.   *)
CallReplayed(c) ==
    /\ Called(c)
    /\ ~Cancelled
    /\ c \in journal
    /\ agentCount' = agentCount + 1
    /\ spent' = spent + 1
    /\ stage' = [stage EXCEPT ![c] = "settled"]
    /\ outcome' = [outcome EXCEPT ![c] = "cached"]
    /\ shown' = [shown EXCEPT ![c] = "done"]
    /\ cost' = [cost EXCEPT ![c] = 1]
    /\ UNCHANGED <<limiter, spawned, fatal, aborted, run, error, killed, killControls,
                   stalled, tries, prompts, journal>>

(* ++state.spawned passes the cap: the sticky fatal error.                 *)
CallOverCap(c) ==
    /\ Called(c)
    /\ ~Cancelled
    /\ c \notin journal
    /\ CapReached
    /\ spawned' = spawned + 1
    /\ fatal' = TRUE
    /\ Throws(c)

(* The budget is checked after the spawn was charged.                      *)
CallOverBudget(c) ==
    /\ Called(c)
    /\ ~Cancelled
    /\ c \notin journal
    /\ ~CapReached
    /\ spawned' = spawned + 1
    /\ BudgetExhausted
    /\ Throws(c)
    /\ UNCHANGED fatal

Spawns(c) ==
    /\ Called(c)
    /\ ~Cancelled
    /\ c \notin journal
    /\ ~CapReached
    /\ ~BudgetExhausted
    /\ spawned' = spawned + 1

(* The runner is called and the stall timer armed.                         *)
Launch(c) ==
    /\ stage' = [stage EXCEPT ![c] = "starting"]
    /\ tries' = [tries EXCEPT ![c] = @ + 1]
    /\ stalled' = [stalled EXCEPT ![c] = FALSE]
    /\ UNCHANGED <<prompts, cost>>

(* The first job of the limiter's callback, up to its first await.  With   *)
(* the signal aborted onAgentStart throws before the agent is shown; a     *)
(* fatal error is met by throwIfAborted just after.                        *)
Begin(c) ==
    /\ agentCount' = agentCount + 1
    /\ shown' = IF aborted THEN shown ELSE [shown EXCEPT ![c] = "running"]
    /\ IF Cancelled
       THEN /\ stage' = [stage EXCEPT ![c] = "closing"]
            /\ outcome' = [outcome EXCEPT ![c] = "threw"]
            /\ UNCHANGED <<killControls, attempt>>
       ELSE /\ killControls' = killControls \cup {c}
            /\ UNCHANGED outcome
            /\ IF c \in Isolated
               THEN /\ stage' = [stage EXCEPT ![c] = "worktree"]
                    /\ UNCHANGED attempt
               ELSE Launch(c)
    /\ UNCHANGED <<spent, fatal, aborted, run, error, killed, journal>>

CallEnters_PastLimit(c) ==
    /\ Spawns(c)
    /\ active' = active + 1
    /\ slot' = [slot EXCEPT ![c] = "running"]
    /\ UNCHANGED <<queue, woken, excess>>
    /\ Begin(c)

CallEnters(c) == Spawns(c) /\ Enter(c) /\ Begin(c)

CallQueues(c) ==
    /\ Spawns(c)
    /\ Park(c)
    /\ stage' = [stage EXCEPT ![c] = "queued"]
    /\ UNCHANGED <<agentCount, spent, fatal, aborted, run, error, killed, killControls,
                   attempt, journal, shown, outcome>>

Admitted(c) == Resume(c) /\ Begin(c) /\ UNCHANGED <<ordinal, spawned>>

-----------------------------------------------------------------------------
(* Inside the slot.                                                        *)

Inside(c, from) ==
    /\ stage[c] = from
    /\ UNCHANGED <<limiter, ordinal, agentCount, spawned, fatal, aborted, run>>

ThrownWith(c, e) ==
    /\ stage' = [stage EXCEPT ![c] = "thrown"]
    /\ error' = [error EXCEPT ![c] = e]

(* `git worktree add` succeeds, or fails: also when the run was aborted,   *)
(* which kills the git process.                                            *)
WorktreeReady(c) ==
    /\ Inside(c, "worktree")
    /\ Launch(c)
    /\ UNCHANGED <<spent, error, killed, killControls, journal, shown, outcome>>

WorktreeFails(c) ==
    /\ Inside(c, "worktree")
    /\ ThrownWith(c, "fail")
    /\ UNCHANGED <<spent, killed, killControls, attempt, journal, shown, outcome>>

(* WorkflowAgent.run has built its session and finds the signal clear.     *)
Prompt(c) ==
    /\ Inside(c, "starting")
    /\ ~Signalled(c)
    /\ stage' = [stage EXCEPT ![c] = "prompting"]
    /\ prompts' = [prompts EXCEPT ![c] = @ + 1]
    /\ cost' = [cost EXCEPT ![c] = @ + 1]
    /\ UNCHANGED <<spent, error, killed, killControls, stalled, tries, journal, shown, outcome>>

(* No activity for stallTimeoutMs: the attempt's signal is aborted.        *)
StallTimerFires(c) ==
    /\ stage[c] \in {"starting", "prompting"}
    /\ ~stalled[c]
    /\ Inside(c, stage[c])
    /\ stalled' = [stalled EXCEPT ![c] = TRUE]
    /\ UNCHANGED <<stage, spent, error, killed, killControls, tries, prompts, cost, journal,
                   shown, outcome>>

Answers_Journals(c) ==
    /\ Inside(c, "prompting")
    /\ ~Signalled(c)
    /\ stage' = [stage EXCEPT ![c] = "answered"]
    /\ journal' = journal \cup {c}
    /\ UNCHANGED <<spent, error, killed, killControls, attempt, shown, outcome>>

Answers(c) ==
    /\ Inside(c, "prompting")
    /\ ~Signalled(c)
    /\ stage' = [stage EXCEPT ![c] = "answered"]
    /\ UNCHANGED <<spent, error, killed, killControls, attempt, journal, shown, outcome>>

RunnerError_StallFirst(c) ==
    IF Cancelled THEN "cancel"
    ELSE IF stalled[c] THEN "stall"
    ELSE IF c \in killed THEN "kill" ELSE "fail"

(* The catch of runAttempt: which of several reasons a rejection gets.     *)
RunnerError(c) ==
    IF Cancelled THEN "cancel"
    ELSE IF c \in killed THEN "kill"
    ELSE IF stalled[c] THEN "stall" ELSE "fail"

Rejects(c) ==
    /\ stage[c] \in {"starting", "prompting"}
    /\ Inside(c, stage[c])
    /\ IF RunnerError(c) = "stall"
       THEN /\ stage' = [stage EXCEPT ![c] = "stalled"]
            /\ UNCHANGED error
       ELSE ThrownWith(c, RunnerError(c))
    /\ UNCHANGED <<spent, killed, killControls, attempt, journal, shown, outcome>>

MayRetry(c) == tries[c] <= StallRetries

(* The retry loop: it looks at its own counter only, not at the signals.   *)
Retry(c) ==
    /\ Inside(c, "stalled")
    /\ MayRetry(c)
    /\ Launch(c)
    /\ UNCHANGED <<spent, error, killed, killControls, journal, shown, outcome>>

GiveUp(c) ==
    /\ Inside(c, "stalled")
    /\ ~MayRetry(c)
    /\ ThrownWith(c, "stall")
    /\ UNCHANGED <<spent, killed, killControls, attempt, journal, shown, outcome>>

(* recordTelemetry: every attempt of the call, once.                       *)
Recorded(c) == cost[c]

(* The body is left: the control goes, and a worktree is released first.   *)
Leave(c) == killControls' = killControls \ {c}
Leaves(c) == [stage EXCEPT ![c] = IF c \in Isolated /\ tries[c] > 0
                                  THEN "releasing" ELSE "closing"]

MayFinish(c) == stage[c] = "answered" /\ ~Cancelled
Persist(c) == journal' = journal \cup {c}

(* The answer is journaled, recorded and returned in one job, after a last *)
(* look at the signals.                                                    *)
Finish(c) ==
    /\ Inside(c, "answered")
    /\ MayFinish(c)
    /\ Persist(c)
    /\ spent' = spent + Recorded(c)
    /\ shown' = [shown EXCEPT ![c] = "done"]
    /\ outcome' = [outcome EXCEPT ![c] = "value"]
    /\ Leave(c)
    /\ stage' = Leaves(c)
    /\ UNCHANGED <<error, killed, attempt>>

(* The append to the journal file throws, or the last look finds the run   *)
(* cancelled: the answer is lost.                                          *)
FinishFails(c) ==
    /\ Inside(c, "answered")
    /\ ThrownWith(c, IF Cancelled THEN "cancel" ELSE "fail")
    /\ UNCHANGED <<spent, killed, killControls, attempt, journal, shown, outcome>>

Discards == Cancelled

(* The catch and finally of agent(): a cancelled run rethrows, anything    *)
(* else becomes null and is recorded, shown and not journaled.             *)
Catch(c) ==
    /\ Inside(c, "thrown")
    /\ IF Discards
       THEN /\ outcome' = [outcome EXCEPT ![c] = "threw"]
            /\ UNCHANGED <<spent, shown>>
       ELSE /\ outcome' = [outcome EXCEPT ![c] = "null"]
            /\ spent' = spent + Recorded(c)
            /\ shown' = [shown EXCEPT ![c] = IF error[c] = "kill" THEN "killed" ELSE "error"]
    /\ Leave(c)
    /\ stage' = Leaves(c)
    /\ UNCHANGED <<error, killed, attempt, journal>>

WorktreeReleased_FreesSlot(c) ==
    /\ stage[c] = "releasing"
    /\ active' = active - 1
    /\ stage' = [stage EXCEPT ![c] = "closing"]
    /\ UNCHANGED <<queue, woken, slot, excess, counters, fatal, aborted, run, error, killed,
                   killControls, attempt, journal, shown, outcome>>

WorktreeReleased(c) ==
    /\ Inside(c, "releasing")
    /\ stage' = [stage EXCEPT ![c] = "closing"]
    /\ UNCHANGED <<spent, error, killed, killControls, attempt, journal, shown, outcome>>

Close_LeaksOnThrow(c) ==
    /\ stage[c] = "closing"
    /\ IF outcome[c] = "null" THEN UNCHANGED limiter ELSE Release(c)
    /\ stage' = [stage EXCEPT ![c] = "settled"]
    /\ UNCHANGED <<counters, fatal, aborted, run, error, killed, killControls, attempt,
                   journal, shown, outcome>>

(* The finally of the limiter; the script sees the outcome after it.       *)
Close(c) ==
    /\ stage[c] = "closing"
    /\ Release(c)
    /\ stage' = [stage EXCEPT ![c] = "settled"]
    /\ UNCHANGED <<counters, fatal, aborted, run, error, killed, killControls, attempt,
                   journal, shown, outcome>>

-----------------------------------------------------------------------------
(* The outside of the run.                                                 *)

(* killAgents([c]) reports killed: true and aborts the call's controller.  *)
Kill(c) ==
    /\ c \in killControls
    /\ killed' = killed \cup {c}
    /\ UNCHANGED <<limiter, counters, fatal, aborted, run, stage, error, killControls,
                   attempt, journal, shown, outcome>>

(* Esc, a whole-run kill or session shutdown.                              *)
Abort ==
    /\ ~aborted
    /\ run = "running"
    /\ aborted' = TRUE
    /\ UNCHANGED <<limiter, counters, fatal, run, stage, error, killed, killControls,
                   attempt, journal, shown, outcome>>

(* abortPromise wins the race; the tool marks running agents as skipped.   *)
RunAborts ==
    /\ run = "running"
    /\ aborted
    /\ run' = "failed"
    /\ shown' = [c \in Calls |-> IF shown[c] = "running" THEN "skipped" ELSE shown[c]]
    /\ UNCHANGED <<limiter, counters, fatal, aborted, stage, error, killed, killControls,
                   attempt, journal, outcome>>

(* The script returns or throws; it need not have awaited its calls.       *)
ScriptEnds(r) ==
    /\ run = "running"
    /\ run' = r
    /\ UNCHANGED <<limiter, counters, fatal, aborted, stage, error, killed, killControls,
                   attempt, journal, shown, outcome>>

-----------------------------------------------------------------------------
Call(c) ==
    \/ CallCancelled(c) \/ CallReplayed(c) \/ CallOverCap(c) \/ CallOverBudget(c)
    \/ CallEnters(c) \/ CallQueues(c)

(* What moves by itself once the call was made.                            *)
Body(c) ==
    \/ Admitted(c) \/ WorktreeReady(c) \/ WorktreeFails(c) \/ Prompt(c)
    \/ Answers(c) \/ Rejects(c) \/ Retry(c) \/ GiveUp(c) \/ Finish(c) \/ FinishFails(c)
    \/ Catch(c) \/ WorktreeReleased(c) \/ Close(c)

Next ==
    \/ \E c \in Calls : Call(c) \/ Body(c) \/ StallTimerFires(c) \/ Kill(c)
    \/ Abort
    \/ RunAborts
    \/ \E r \in {"returned", "failed"} : ScriptEnds(r)

(* Queued jobs run, git exits, and an attempt ends: it answers, fails, or  *)
(* stays silent until the stall guard ends it.  Nothing is assumed of the  *)
(* script, of kills or of aborts.                                          *)
Fairness == \A c \in Calls : WF_vars(Body(c))

Spec == Init /\ [][Next]_vars
FairSpec == Spec /\ Fairness

-----------------------------------------------------------------------------
RunTypeOK ==
    /\ ordinal \in 0..NumCalls
    /\ agentCount \in Nat /\ spawned \in Nat /\ spent \in Nat
    /\ fatal \in BOOLEAN /\ aborted \in BOOLEAN
    /\ run \in {"running", "returned", "failed"}
    /\ stage \in [Calls -> Stages]
    /\ error \in [Calls -> Errors]
    /\ stalled \in [Calls -> BOOLEAN]
    /\ killed \subseteq Calls /\ killControls \subseteq Calls
    /\ tries \in [Calls -> Nat] /\ prompts \in [Calls -> Nat] /\ cost \in [Calls -> Nat]
    /\ journal \subseteq Calls
    /\ shown \in [Calls -> Statuses]
    /\ outcome \in [Calls -> Outcomes]

(* The types of the run and of the limiter it owns: among them, that no    *)
(* slot is returned twice (`active` stays a natural number).               *)
TypeOK == LTypeOK /\ RunTypeOK

(* The cap bounds the agents really started, also those that queued before *)
(* it was reached, and replays are not charged to it.                      *)
SpawnCapHolds == Cardinality({c \in Calls : tries[c] > 0}) <= MaxAgents

(* A resume replays exactly the answers this run gave its script: a call   *)
(* is journaled iff agent() returned a value, whatever kill, stall, abort  *)
(* or failing append raced with the answer.                                *)
JournaledIffDelivered ==
    \A c \in Calls : c \in journal \ Journaled <=> outcome[c] = "value"

(* Every token of a call whose outcome reached the script is in `spent`    *)
(* once: stalled attempts and failed journal appends included.             *)
TokensRecordedOnce ==
    spent = MapThenSumSet(LAMBDA c : IF outcome[c] \in {"cached", "value", "null"}
                                     THEN cost[c] ELSE 0, Calls)

(* killAgents reaches a call exactly while its body runs: not while it     *)
(* queues, and not once its outcome is decided.                            *)
KillableIffInBody == killControls = {c \in Calls : stage[c] \in InBody}

(* Sessions hold a limiter slot from their first await to the release of   *)
(* their worktree, so no more run than slots were handed out.              *)
SessionsHoldSlots ==
    /\ \A c \in Calls : slot[c] = "running"
                       <=> stage[c] \in InBody \cup {"releasing", "closing"}
    /\ Cardinality({c \in Calls : stage[c] \in InBody}) <= Concurrency + excess

(* Once the run is cancelled no call gives the script a result any more,   *)
(* not even one that had answered before: it throws.                       *)
NothingDeliveredAfterCancel ==
    [][\A c \in Calls : Cancelled /\ outcome'[c] # outcome[c] => outcome'[c] = "threw"]_vars

(* A status shown as final stays: an agent marked skipped by the abort of  *)
(* the run is not relabelled by its own late end.                          *)
StatusIsFinal ==
    [][\A c \in Calls : shown[c] \notin {"none", "running"} => shown'[c] = shown[c]]_vars

(* A kill that lands while an attempt runs decides the call: it ends as    *)
(* killed, or with the run, and neither a stall of the same attempt, nor   *)
(* an answer, nor a retry makes anything else of it.                       *)
KillWins ==
    \A c \in Calls :
        (c \in killed /\ stage[c] \in {"starting", "prompting"})
            ~> (stage[c] = "settled"
                /\ (outcome[c] = "threw" \/ (outcome[c] = "null" /\ shown[c] = "killed")))

(* An agent() call settles: no retry loop, kill, abort or leaked slot      *)
(* keeps it, or the calls queued behind it, waiting for ever.              *)
AcceptedCallsSettle ==
    \A c \in Calls : (stage[c] \notin {"uncalled", "settled"}) ~> (stage[c] = "settled")
=============================================================================
