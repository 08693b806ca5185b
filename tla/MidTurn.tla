--------------------------------- MODULE MidTurn ---------------------------------
(***************************************************************************)
(* Compaction in the middle of a task: the mid-turn-compact extension      *)
(* (agent_extensions/0020-mid-turn-compact.ts), which aborts a run at its  *)
(* tool follow-up and sends a prompt to continue it once the context was   *)
(* compacted, and the workflow engine (agent.ts promptSession), which has  *)
(* to tell such a boundary from a failure of its subagent.                 *)
(*                                                                         *)
(* The session of Pi between them is external.  What is assumed of it: a   *)
(* handler of the extension runs before the engine's listener of the same  *)
(* event; a continuation sent while the first run settles starts before    *)
(* prompt() resolves, and its first answer comes after that; the grace     *)
(* timer is longer than the preflight of a prompt.  Texts, sizes in bytes  *)
(* and token counts are two or three values each, and Pi has one route.    *)
(***************************************************************************)
EXTENDS Integers

CONSTANTS
    MAX_MID_TURN_BOUNDARIES,    \* of the engine
    MaxBoundaries,              \* bound on the runs the extension aborts
    MaxTasks,                   \* bound on the tasks the user gives
    MaxTurns,                   \* bound on the turns
    AutoCompaction              \* does Pi compact a subagent's context by itself?

VARIABLES
    run,        \* Pi's session: where its run is, what started it, and whether it compacted
    usage,      \* getContextUsage
    manual,     \* the compaction asked for with ctx.compact, and the lease of its callback
    task,       \* history: the number of the user's current task
    turns,
    enabled, boundary, nextFollowsTools, active, ceiling,   \* the extension
    boundaries, \* runs aborted; the number of one is its lease
    resumed,    \* history: the leases whose task was continued
    engine      \* promptSession and its listeners

session == <<run, usage, manual, task, turns>>
extension == <<enabled, boundary, nextFollowsTools, active, ceiling, boundaries, resumed>>
vars == <<session, extension, engine>>

IdleBoundary == [phase |-> "idle", lease |-> 0, task |-> 0, reason |-> "none", observed |-> FALSE]
NoCompact == [at |-> "none", lease |-> 0]
Failing == {"error", "aborted"}
Ended == {"answered", "failed", "killed"}

-----------------------------------------------------------------------------
(* Mutants: slips in the extension and the engine that the properties must *)
(* notice.                                                                 *)

Owns_Anything(lease) == boundary.phase # "idle"
Wake_InGraceOnly(e) == IF e.at = "grace" THEN [e EXCEPT !.at = "woken in grace"] ELSE e
Resumable_OnSuccess(ok) == ok
CompactionInFlight_Never(e) == FALSE

-----------------------------------------------------------------------------
Init ==
    /\ run = [at |-> "preflight", text |-> "task", compacted |-> FALSE]
    /\ usage = "low" /\ manual = NoCompact /\ task = 1 /\ turns = 0
    /\ enabled = TRUE /\ boundary = IdleBoundary
    /\ nextFollowsTools = FALSE /\ active = 0 /\ ceiling = 0
    /\ boundaries = 0 /\ resumed = {}
    /\ \E at \in {"prompt", "none"} :
          engine = [at |-> at, boundaryActive |-> FALSE, continuationStarted |-> FALSE,
                    continuationSettled |-> FALSE, compactionStarted |-> FALSE,
                    compactionEnded |-> FALSE, evidence |-> FALSE, grace |-> FALSE,
                    message |-> "none", lastFinal |-> "none", terminal |-> "none",
                    settledOnce |-> FALSE, n |-> 0]

-----------------------------------------------------------------------------
(* The engine's listeners.                                                 *)

(* resolveBoundaryWait: promptSession goes on in a later microtask.        *)
Wake(e) ==
    CASE e.at = "progress" -> [e EXCEPT !.at = "woken by progress"]
      [] e.at = "grace" -> [e EXCEPT !.at = "woken in grace"]
      [] OTHER -> e

(* It goes on, as it does after prompt(), before anything that waits for a *)
(* network: an answer, or the end of a compaction.                         *)
Microtask ==
    \/ engine.at \in {"woken by progress", "woken in grace"}
    \/ engine.at = "prompt" /\ engine.settledOnce

OnAgentStart(e) ==
    Wake(IF e.boundaryActive THEN [e EXCEPT !.continuationStarted = TRUE, !.evidence = TRUE] ELSE e)

OnSettled(e) == Wake([e EXCEPT !.continuationSettled = @ \/ e.continuationStarted, !.settledOnce = TRUE])

OnCompactionStart(e) ==
    Wake(IF e.boundaryActive THEN [e EXCEPT !.compactionStarted = TRUE, !.evidence = TRUE] ELSE e)

OnCompactionEnd(e) == Wake([e EXCEPT !.compactionEnded = TRUE])

(* message_end of an assistant that failed: a candidate boundary.          *)
OnFailedMessage(e) ==
    [e EXCEPT !.boundaryActive = TRUE, !.message = "aborted",
              !.continuationStarted = FALSE, !.continuationSettled = FALSE,
              !.compactionStarted = FALSE, !.compactionEnded = FALSE, !.grace = FALSE]

OnAgentEnd(e) == [e EXCEPT !.lastFinal = e.message]
Message(e, kind) == [e EXCEPT !.message = kind]

-----------------------------------------------------------------------------
(* The extension.                                                          *)

ClearRequestTracking == nextFollowsTools' = FALSE /\ active' = 0

(* The session aborts the run: its last message, turn_end and agent_end.   *)
RunIsAborted ==
    /\ run' = [run EXCEPT !.at = "ended"]
    /\ engine' = OnAgentEnd(OnFailedMessage(engine))

StartMidTurnBoundary(reason) ==
    /\ boundaries < MaxBoundaries
    /\ boundaries' = boundaries + 1
    /\ boundary' = [phase |-> "awaiting-settlement", lease |-> boundaries', task |-> task,
                    reason |-> reason, observed |-> FALSE]
    /\ ClearRequestTracking
    /\ RunIsAborted

(* resumeTask and the input event of its own prompt.  A lease is good for  *)
(* one continuation, and for the boundary that it was made for.            *)
Owns(lease) == boundary.phase # "idle" /\ boundary.lease = lease

ResumeTask(lease) ==
    IF Owns(lease)
    THEN /\ boundary' = IdleBoundary
         /\ resumed' = resumed \cup {[lease |-> lease, for |-> boundary.lease, of |-> boundary.task, during |-> task]}
         /\ ClearRequestTracking
         /\ run' = [at |-> "preflight", text |-> "continue", compacted |-> FALSE]
    ELSE UNCHANGED <<boundary, resumed, nextFollowsTools, active, run>>

RequiresManualCompact ==
    /\ ~boundary.observed /\ usage # "unknown"
    /\ boundary.reason = "learned-request-size" \/ usage = "over"

(* agent_settled: compactAfterSettlement.                                  *)
CompactAfterSettlement ==
    IF boundary.phase # "awaiting-settlement"
    THEN /\ run' = [run EXCEPT !.at = "quiet"]
         /\ UNCHANGED <<boundary, resumed, nextFollowsTools, active, manual>>
    ELSE IF RequiresManualCompact
    THEN /\ run' = [run EXCEPT !.at = "quiet"]
         /\ boundary' = [boundary EXCEPT !.phase = "awaiting-compact-callback"]
         /\ manual' = [at |-> "asked", lease |-> boundary.lease]
         /\ UNCHANGED <<resumed, nextFollowsTools, active>>
    ELSE ResumeTask(boundary.lease) /\ UNCHANGED manual

-----------------------------------------------------------------------------
(* A run of the session.                                                   *)

(* before_agent_start and agent_start; the input event came before.        *)
Starts ==
    /\ run.at = "preflight"
    /\ run' = [run EXCEPT !.at = "turn"]
    /\ ClearRequestTracking
    /\ boundary' = IF run.text = "continue" THEN boundary ELSE IdleBoundary
    /\ engine' = OnAgentStart(engine)
    /\ UNCHANGED <<usage, manual, task, turns, enabled, ceiling, boundaries, resumed>>

ShouldTrigger == nextFollowsTools /\ enabled /\ boundary.phase = "idle" /\ usage = "over"

TurnStart ==
    /\ run.at = "turn"
    /\ \/ /\ ShouldTrigger
          /\ StartMidTurnBoundary("token-pressure")
       \/ /\ ~ShouldTrigger \/ boundaries = MaxBoundaries
          /\ run' = [run EXCEPT !.at = "request"]
          /\ UNCHANGED <<boundary, boundaries, nextFollowsTools, active, engine>>
    /\ UNCHANGED <<usage, manual, task, turns, enabled, ceiling, resumed>>

(* before_provider_request, with the size of the request.                  *)
ProviderRequest(size) ==
    /\ run.at = "request"
    /\ LET tracks == nextFollowsTools /\ enabled /\ boundary.phase = "idle"
           tooLarge == tracks /\ ceiling # 0 /\ size >= ceiling
       IN  \/ tooLarge /\ StartMidTurnBoundary("learned-request-size")
           \/ /\ ~tooLarge \/ boundaries = MaxBoundaries
              /\ run' = [run EXCEPT !.at = "answer"]
              /\ nextFollowsTools' = FALSE
              /\ active' = IF tracks /\ ~tooLarge THEN size ELSE 0
              /\ UNCHANGED <<boundary, boundaries, engine>>
    /\ UNCHANGED <<usage, manual, task, turns, enabled, ceiling, resumed>>

(* An answer with tool calls, and a turn_end with their results.           *)
UsesTools ==
    /\ run.at = "answer" /\ turns < MaxTurns /\ ~Microtask
    /\ turns' = turns + 1
    /\ run' = [run EXCEPT !.at = "turn"]
    /\ usage' \in {"low", "over"}
    /\ nextFollowsTools' = TRUE /\ active' = 0
    /\ engine' = Message(engine, "toolUse")
    /\ UNCHANGED <<manual, task, enabled, boundary, ceiling, boundaries, resumed>>

(* The last answer of a run, and agent_end.                                *)
Stops ==
    /\ run.at = "answer" /\ ~Microtask
    /\ run' = [run EXCEPT !.at = "ended"]
    /\ usage' \in {"low", "over"}
    /\ ClearRequestTracking
    /\ engine' = OnAgentEnd(Message(engine, "stop"))
    /\ UNCHANGED <<manual, task, turns, enabled, boundary, ceiling, boundaries, resumed>>

(* A provider error.  The one of a retry buffer teaches a ceiling.         *)
Learned(size) == IF ceiling = 0 \/ size < ceiling THEN size ELSE ceiling

Fails ==
    /\ run.at = "answer" /\ ~Microtask
    /\ ceiling' \in {ceiling} \cup (IF active = 0 THEN {} ELSE {Learned(active)})
    /\ ClearRequestTracking
    /\ RunIsAborted
    /\ UNCHANGED <<usage, manual, task, turns, enabled, boundary, boundaries, resumed>>

(* Pi's own check after a run, before it settles.                          *)
PiCompacts ==
    /\ run.at = "ended" /\ ~run.compacted
    /\ engine.at = "none" \/ AutoCompaction
    /\ run' = [run EXCEPT !.at = "compacting", !.compacted = TRUE]
    /\ engine' = OnCompactionStart(engine)
    /\ UNCHANGED <<usage, manual, task, turns, extension>>

(* session_compact, if it was saved, and compaction_end.                   *)
PiCompacted(ok) ==
    /\ run.at = "compacting" /\ ~Microtask
    /\ run' = [run EXCEPT !.at = "ended"]
    /\ usage' = IF ok THEN "unknown" ELSE usage
    /\ boundary' = IF ok /\ boundary.phase = "awaiting-settlement"
                   THEN [boundary EXCEPT !.observed = TRUE] ELSE boundary
    /\ engine' = OnCompactionEnd(engine)
    /\ UNCHANGED <<manual, task, turns, enabled, nextFollowsTools, active, ceiling, boundaries, resumed>>

Settles ==
    /\ run.at = "ended"
    /\ CompactAfterSettlement
    /\ engine' = OnSettled(engine)
    /\ UNCHANGED <<usage, task, turns, enabled, ceiling, boundaries>>

(* ctx.compact, which nobody awaits.                                       *)
CompactStarts ==
    /\ manual.at = "asked"
    /\ manual' = [manual EXCEPT !.at = "running"]
    /\ engine' = OnCompactionStart(engine)
    /\ UNCHANGED <<run, usage, task, turns, extension>>

Compacted(ok) ==
    /\ manual.at = "running" /\ ~Microtask
    /\ manual' = [manual EXCEPT !.at = IF ok THEN "complete" ELSE "error"]
    /\ usage' = IF ok THEN "unknown" ELSE usage
    /\ engine' = OnCompactionEnd(engine)
    /\ UNCHANGED <<run, task, turns, extension>>

(* onComplete and onError both continue the task.                          *)
Resumable(ok) == TRUE

CompactCallback ==
    /\ manual.at \in {"complete", "error"}
    /\ IF Resumable(manual.at = "complete")
       THEN ResumeTask(manual.lease)
       ELSE UNCHANGED <<boundary, resumed, nextFollowsTools, active, run>>
    /\ manual' = NoCompact
    /\ UNCHANGED <<usage, task, turns, enabled, ceiling, boundaries, engine>>

-----------------------------------------------------------------------------
(* The user of an interactive session; nobody types into a subagent's.     *)

(* A prompt, or a steering message for the run that is active.  Both are   *)
(* the user's task from now on.                                            *)
UserInput ==
    /\ engine.at = "none" /\ task < MaxTasks
    /\ run.at # "preflight"
    /\ task' = task + 1
    /\ boundary' = IdleBoundary
    /\ ClearRequestTracking
    /\ run' = IF run.at = "quiet" THEN [at |-> "preflight", text |-> "task", compacted |-> FALSE] ELSE run
    /\ UNCHANGED <<usage, manual, turns, enabled, ceiling, boundaries, resumed, engine>>

(* /tree: resetRunCounters.                                                *)
SessionTree ==
    /\ engine.at = "none" /\ task < MaxTasks
    /\ run.at = "quiet"
    /\ task' = task + 1
    /\ boundary' = IdleBoundary
    /\ ClearRequestTracking
    /\ UNCHANGED <<run, usage, manual, turns, enabled, ceiling, boundaries, resumed, engine>>

SetEnabled ==
    /\ engine.at = "none"
    /\ enabled' = ~enabled
    /\ UNCHANGED <<session, boundary, nextFollowsTools, active, ceiling, boundaries, resumed, engine>>

-----------------------------------------------------------------------------
(* promptSession.                                                          *)

(* The attempt is over, and the session is disposed.                       *)
Ends(result) ==
    /\ engine' = [engine EXCEPT !.at = result]
    /\ run' = [run EXCEPT !.at = "disposed"]

Waits(for, terminal, n, grace) ==
    /\ engine' = [engine EXCEPT !.at = for, !.terminal = terminal, !.n = n, !.grace = grace]
    /\ UNCHANGED run

CompactionInFlight(e) == e.compactionStarted /\ ~e.compactionEnded

(* One iteration of the loop, up to its await.                             *)
Iteration(terminal, n) ==
    CASE terminal \notin Failing -> Ends("answered")
      [] terminal \in Failing /\ n = MAX_MID_TURN_BOUNDARIES -> Ends("failed")
      [] OTHER ->
            IF ~engine.continuationStarted /\ ~CompactionInFlight(engine)
            THEN IF ~engine.evidence \/ engine.grace
                 THEN Ends("failed")
                 ELSE Waits("grace", terminal, n, TRUE)
            ELSE Waits(IF engine.continuationSettled THEN "woken by progress" ELSE "progress",
                       terminal, n, engine.grace)

PromptResolves ==
    /\ engine.at = "prompt" /\ engine.settledOnce
    /\ run.at # "preflight" /\ manual.at # "asked"
    /\ Iteration(engine.message, 0)
    /\ UNCHANGED <<usage, manual, task, turns, extension>>

GoesOn ==
    /\ \/ engine.at = "woken by progress"
          /\ Iteration(IF engine.lastFinal = "none" THEN engine.terminal ELSE engine.lastFinal, engine.n + 1)
       \/ engine.at = "woken in grace" /\ Iteration(engine.terminal, engine.n + 1)
    /\ UNCHANGED <<usage, manual, task, turns, extension>>

GraceIsOver ==
    /\ engine.at = "grace" /\ run.at = "quiet" /\ manual = NoCompact
    /\ engine' = [engine EXCEPT !.at = "woken in grace"]
    /\ UNCHANGED <<session, extension>>

(* A stall, a kill or the end of the workflow run: the session's run and   *)
(* compaction are aborted, and the wait ends.                              *)
Kill ==
    /\ engine.at \notin Ended \cup {"none"}
    /\ Ends("killed")
    /\ UNCHANGED <<usage, manual, task, turns, extension>>

Provider == UsesTools \/ Stops \/ Fails \/ \E size \in 1..2 : ProviderRequest(size)

Works ==
    \/ Starts \/ TurnStart \/ Provider \/ Settles
    \/ (\E ok \in BOOLEAN : PiCompacted(ok) \/ Compacted(ok))
    \/ CompactStarts \/ CompactCallback

Next ==
    \/ Works \/ PiCompacts
    \/ UserInput \/ SessionTree \/ SetEnabled
    \/ PromptResolves \/ GoesOn \/ GraceIsOver \/ Kill

(* Pi and the provider go on, timers fire and microtasks run; nobody has   *)
(* to type, compact or kill.                                               *)
Fairness == WF_vars(Works) /\ WF_vars(PromptResolves \/ GoesOn \/ GraceIsOver)

Spec == Init /\ [][Next]_vars /\ Fairness

-----------------------------------------------------------------------------
(* Properties.                                                             *)

(* The extension continues what it stopped, once, and never a task that    *)
(* the user gave meanwhile or another branch: not even when the callback   *)
(* of an old compaction comes while a newer boundary waits.                *)
OnlyItsOwnTask ==
    \A r, s \in resumed :
        r.for = r.lease /\ r.of = r.during /\ (r.lease = s.lease => r = s)

(* A task that was stopped for a compaction is continued, also when the    *)
(* compaction failed or the extension was disabled, unless the user took   *)
(* over or the session ended.                                              *)
StoppedTaskGoesOn == boundary.phase # "idle" ~> boundary.phase = "idle" \/ run.at = "disposed"

GivesUp == engine.at # "failed" /\ engine'.at = "failed"
OnItsWay == run.at \notin {"ended", "quiet"} \/ manual # NoCompact

(* The engine does not give a subagent up while the continuation of its    *)
(* first boundary runs, starts or waits for a compaction, in whatever      *)
(* order their events come.                                                *)
FirstBoundaryIsNoFailure == [][GivesUp /\ boundaries = 1 => ~OnItsWay]_vars

(* The same of every boundary, up to the cap: "the engine must not declare *)
(* a failure in that gap".                                                 *)
NoFalseFailure == [][GivesUp /\ boundaries < MAX_MID_TURN_BOUNDARIES => ~OnItsWay]_vars

(* An attempt ends; the wait for a continuation has no timeout.            *)
AttemptEnds == engine.at = "prompt" ~> engine.at \in Ended
=============================================================================
