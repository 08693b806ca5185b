------------------------------ MODULE BackgroundRun ------------------------------
(***************************************************************************)
(* The life of a run around runWorkflow (pi-dynamic-workflow,              *)
(* workflow-tool.ts): the tool call that launches it in the foreground or  *)
(* hands it over to the session, the signals that may abort it, its panel  *)
(* above the editor, and the result that it owes the model.                *)
(*                                                                         *)
(* The branches of a script may go on after the run is over (Promise.all   *)
(* and the race with the abort wait for nobody), so agents end and logs    *)
(* arrive at any later time.  What the snapshot says is left out.          *)
(***************************************************************************)
EXTENDS Integers, Sequences, FiniteSets

CONSTANTS
    Runs,
    MaxShutdowns    \* bound

VARIABLES
    run,        \* run -> its record
    panel,      \* run -> "none", "live" or "final"
    ui,         \* run -> createLiveBackgroundUi: [cleared, finished, ticks]
    pending,    \* extension: tracked runs that have not settled
    registered, \* liveUiClears and liveRuns
    session,    \* [state, number, awaited, clears]
    results,    \* run -> what sendResult was called with
    toasts,     \* history: <<run, state of the session>>
    lateUpdate  \* history: runs whose updates reached a call that was over
runVars == <<run, panel, ui, pending, registered, session, results, toasts, lateUpdate>>

(* call: none, open, returned or threw.  cause: what aborted the run's     *)
(* signal first.  script: none, running, done, failed or settled.          *)
Idle == [call |-> "none", background |-> FALSE, handedOff |-> FALSE, relays |-> FALSE,
         cause |-> "no", script |-> "none", busy |-> FALSE, streams |-> FALSE, number |-> 0]
Aborted(r) == run[r].cause # "no"

InitRuns ==
    /\ run = [r \in Runs |-> Idle]
    /\ panel = [r \in Runs |-> "none"]
    /\ ui = [r \in Runs |-> [cleared |-> FALSE, finished |-> FALSE, ticks |-> FALSE]]
    /\ pending = {} /\ registered = {}
    /\ session = [state |-> "open", number |-> 1, awaited |-> {}, clears |-> {}]
    /\ results = [r \in Runs |-> <<>>] /\ toasts = {} /\ lateUpdate = {}

-----------------------------------------------------------------------------
(* createLiveBackgroundUi; a foreground run has none.                      *)

Renders_Uncleared(r) == run[r].background /\ ~ui[r].finished
Renders(r) == run[r].background /\ ~ui[r].cleared /\ ~ui[r].finished
Render(r) == panel' = IF Renders(r) THEN [panel EXCEPT ![r] = "live"] ELSE panel
RenderFinal(r) ==
    IF Renders(r)
    THEN /\ panel' = [panel EXCEPT ![r] = "final"]
         /\ ui' = [ui EXCEPT ![r].finished = TRUE, ![r].ticks = FALSE]
    ELSE UNCHANGED <<panel, ui>>
Clear(S) ==
    /\ panel' = [r \in Runs |-> IF r \in S /\ ~ui[r].cleared THEN "none" ELSE panel[r]]
    /\ ui' = [r \in Runs |-> IF r \in S THEN [ui[r] EXCEPT !.cleared = TRUE, !.ticks = FALSE] ELSE ui[r]]

(* update: the stream of the call first, then the panel.                   *)
Streams_Forever(r) == TRUE
Streams(r) == run[r].streams
Update(r) ==
    /\ lateUpdate' = IF Streams(r) /\ run[r].call # "open" THEN lateUpdate \cup {r} ELSE lateUpdate
    /\ Render(r)

-----------------------------------------------------------------------------
(* execute.  The origin is the signal of the call; it may be aborted       *)
(* already.  Up to its return nothing else happens, so what is tracked and *)
(* who owns the run is decided in one step.                                *)

MayLaunch(r) ==
    /\ run[r].call = "none" /\ session.state = "open"
    /\ \A q \in Runs : q < r => run[q].call # "none"

LaunchForeground(r) ==
    /\ MayLaunch(r)
    /\ run' = [run EXCEPT ![r] = [Idle EXCEPT !.call = "open", !.script = "running", !.relays = TRUE,
                                              !.streams = TRUE, !.number = session.number]]
    /\ UNCHANGED <<panel, ui, pending, registered, session, results, toasts, lateUpdate>>

(* relayAbortUntilDetached, and its end when the run is handed over.       *)
Detached_Never == FALSE
Detached == TRUE

LaunchBackground(r, aborted, fails) ==
    /\ MayLaunch(r)
    /\ run' = [run EXCEPT ![r] = [Idle EXCEPT
                  !.call = IF fails = "no" THEN "returned" ELSE "threw",
                  !.background = TRUE, !.handedOff = (fails = "no"), !.script = "running",
                  !.relays = ~Detached, !.number = session.number,
                  !.streams = (fails # "no"),
                  !.cause = IF aborted THEN "origin" ELSE IF fails # "no" THEN "launch" ELSE "no"]]
    /\ panel' = [panel EXCEPT ![r] = IF fails = "no" THEN "live" ELSE "none"]
    /\ ui' = [ui EXCEPT ![r] = [cleared |-> fails # "no", finished |-> FALSE, ticks |-> fails = "no"]]
    /\ pending' = IF fails = "track" THEN pending ELSE pending \cup {r}
    /\ registered' = IF fails = "no" THEN registered \cup {r} ELSE registered
    /\ UNCHANGED <<session, results, toasts, lateUpdate>>

-----------------------------------------------------------------------------
(* Signals.                                                                *)

Abort(S, cause) ==
    run' = [r \in Runs |-> IF r \in S /\ ~Aborted(r) /\ run[r].script # "settled"
                           THEN [run[r] EXCEPT !.cause = cause] ELSE run[r]]

OriginAborts(r) ==
    /\ run[r].call # "none" /\ run[r].relays
    /\ Abort({r}, "origin")
    /\ UNCHANGED <<panel, ui, pending, registered, session, results, toasts, lateUpdate>>

(* workflow_tasks kills by runId, or the only run when none is given.      *)
Resolved(id) == IF id # 0 THEN {id} \cap registered ELSE IF Cardinality(registered) = 1 THEN registered ELSE {}
KillRun(id) ==
    /\ Resolved(id) # {}
    /\ Abort(Resolved(id), "kill")
    /\ UNCHANGED <<panel, ui, pending, registered, session, results, toasts, lateUpdate>>

(* session_shutdown, before and after it awaits the runs.  Pi ends tool    *)
(* calls before, and foreground runs with them.                            *)
ShutdownBegins ==
    /\ session.state = "open" /\ session.number <= MaxShutdowns
    /\ Abort({r \in Runs : run[r].number = session.number /\ run[r].background}, "shutdown")
    /\ \A r \in Runs : run[r].call # "open"
    /\ session' = [session EXCEPT !.state = "closing", !.awaited = pending, !.clears = registered]
    /\ pending' = {} /\ registered' = {}
    /\ UNCHANGED <<panel, ui, results, toasts, lateUpdate>>
ShutdownEnds ==
    /\ session.state = "closing" /\ \A r \in session.awaited : run[r].script = "settled"
    /\ Clear(session.clears)
    /\ session' = [state |-> "open", number |-> session.number + 1, awaited |-> {}, clears |-> {}]
    /\ UNCHANGED <<run, pending, registered, results, toasts, lateUpdate>>

-----------------------------------------------------------------------------
(* The run: agents and logs, its end, and what follows.                    *)

(* onAgentStart refuses once the run is aborted.                           *)
AgentStarts(r) ==
    /\ run[r].script # "none" /\ ~run[r].busy /\ ~Aborted(r)
    /\ run' = [run EXCEPT ![r].busy = TRUE]
    /\ Update(r)
    /\ UNCHANGED <<ui, pending, registered, session, results, toasts>>
AgentEnds(r) ==
    /\ run[r].busy
    /\ run' = [run EXCEPT ![r].busy = FALSE]
    /\ Update(r)
    /\ UNCHANGED <<ui, pending, registered, session, results, toasts>>
Logs(r) ==
    /\ run[r].script # "none"
    /\ Update(r)
    /\ UNCHANGED <<run, ui, pending, registered, session, results, toasts>>
Tick(r) ==
    /\ ui[r].ticks /\ run[r].busy
    /\ Update(r)
    /\ UNCHANGED <<run, ui, pending, registered, session, results, toasts>>

(* runWorkflow returns or throws; an abort wins the race.                  *)
ScriptEnds(r) ==
    /\ run[r].script = "running"
    /\ \E end \in IF Aborted(r) THEN {"failed"} ELSE {"done", "failed"} :
          run' = [run EXCEPT ![r].script = end]
    /\ UNCHANGED <<panel, ui, pending, registered, session, results, toasts, lateUpdate>>

(* runWorkflowToResult goes on: a run without agents fails.                *)
Completes(r) ==
    /\ run[r].script = "done"
    /\ \/ run' = [run EXCEPT ![r].script = "final"] /\ RenderFinal(r)
       \/ run' = [run EXCEPT ![r].script = "failed"] /\ UNCHANGED <<panel, ui>>
    /\ UNCHANGED <<pending, registered, session, results, toasts, lateUpdate>>

(* The handlers of the detached promise, or the return of the call.        *)
Status(r) == CASE run[r].script = "final" -> "completed"
               [] run[r].script = "failed" /\ Aborted(r) -> "aborted"
               [] OTHER -> "failed"
Answers_Regardless(r) == TRUE
Answers(r) == run[r].handedOff
Toasts(r) == run[r].script = "failed" /\ session.state = "open"
Settles(r) ==
    /\ run[r].script \in {"final", "failed"}
    /\ IF run[r].background
       THEN /\ results' = IF Answers(r) THEN [results EXCEPT ![r] = Append(@, Status(r))] ELSE results
            /\ toasts' = IF Answers(r) /\ Toasts(r) THEN toasts \cup {<<r, session.number>>} ELSE toasts
            /\ Clear({r})
            /\ run' = [run EXCEPT ![r].script = "settled"]
       ELSE /\ run' = [run EXCEPT ![r].script = "settled",
                                  ![r].call = IF run[r].script = "final" THEN "returned" ELSE "threw"]
            /\ UNCHANGED <<results, toasts, panel, ui>>
    /\ UNCHANGED <<pending, registered, session, lateUpdate>>
Unregister(r) ==
    /\ run[r].script = "settled" /\ r \in pending \cup registered
    /\ pending' = pending \ {r} /\ registered' = registered \ {r}
    /\ UNCHANGED <<run, panel, ui, session, results, toasts, lateUpdate>>

NextOfRuns ==
    \/ \E r \in Runs :
          \/ LaunchForeground(r)
          \/ \E aborted \in BOOLEAN, fails \in {"no", "track", "register"} : LaunchBackground(r, aborted, fails)
          \/ OriginAborts(r) \/ AgentStarts(r) \/ AgentEnds(r) \/ Logs(r) \/ Tick(r)
          \/ ScriptEnds(r) \/ Completes(r) \/ Settles(r) \/ Unregister(r)
    \/ \E id \in Runs \cup {0} : KillRun(id)
    \/ ShutdownBegins \/ ShutdownEnds
SpecOfRuns == InitRuns /\ [][NextOfRuns]_runVars

-----------------------------------------------------------------------------
(* "Only workflow-specific kill and session shutdown can cancel the        *)
(* detached run", and it answers once, with what became of it; a run whose *)
(* launch failed answers never.                                            *)
DetachedRunAnswersOnce ==
    \A r \in Runs :
        /\ Len(results[r]) = IF run[r].handedOff /\ run[r].script = "settled" THEN 1 ELSE 0
        /\ results[r] = <<"aborted">> => run[r].cause \in {"kill", "shutdown", "origin"}
        /\ results[r] = <<"completed">> => run[r].call = "returned"
OnlyOwnersAbort ==
    [][\A r \in Runs : run[r].handedOff /\ ~Aborted(r) /\ Aborted(r)' => run[r]'.cause \in {"kill", "shutdown"}]_run

(* No panel outlives its run or its session, its last frame is not painted *)
(* over, and no toast comes up in a session that ends or is another one.   *)
PanelFollowsRun ==
    /\ \A r \in Runs : panel[r] # "none" =>
          /\ run[r].handedOff /\ run[r].script # "settled" /\ run[r].number = session.number
          /\ panel[r] = "final" <=> run[r].script = "final"
    /\ \A t \in toasts : run[t[1]].number = t[2]

(* A call that is over gets no update from the run it handed over.         *)
NoUpdateOfOverCall ==
    \A r \in lateUpdate : ~run[r].handedOff
=============================================================================
