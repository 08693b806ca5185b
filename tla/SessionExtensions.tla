--------------------------- MODULE SessionExtensions ---------------------------
(***************************************************************************)
(* The extensions that live inside one Pi session and decide what it       *)
(* shows or does next: mid-turn compaction with the engine of a subagent   *)
(* (MidTurn), the todo list, its panel and the window of the panel         *)
(* (TodoList, TodoHud, TodoViewport), the patches of Pi's terminal that    *)
(* the panel and the timeline share (TuiPatches), the timeline (Timeline)  *)
(* and the quiz (Quiz).  Those that meet are modelled together; the others *)
(* share no state and are checked side by side: a behaviour is a behaviour *)
(* of one of them, and the others rest.                                    *)
(***************************************************************************)
EXTENDS Integers, Sequences, FiniteSets

CONSTANTS
    MAX_MID_TURN_BOUNDARIES, MaxBoundaries, MaxTasks, MidTurns, AutoCompaction,
    Tasks, Names, MaxTodoEntries,
    Lists, MaxOpens,
    MaxRows, Limits,
    MaxCopies,
    Turns, Views,
    Questions, Options, MaxQuizzes, MaxEpisodes, MaxAnswers,
    None

ASSUME SessionExtensionsAssumption ==
    /\ MAX_MID_TURN_BOUNDARIES \in Nat /\ AutoCompaction \in BOOLEAN
    /\ Questions = 1..Cardinality(Questions)

VARIABLES
    component,
    run, usage, manual, task, turns, enabled, boundary, nextFollowsTools, active, ceiling,
    boundaries, resumed, engine,
    phases, todoBranch, result,
    list, size, hud, overlays, gone, promises, drawn, screen, rowCache, clear,
    rows, activeRow, rowLimit, viewFollows, scrollRow,
    loaded, session, step, method, patch, controller, repeated, pressed, changed,
    transcript, shownTurns, selected, followTail, railOn, view, following, rail, stoodAt,
    keyboardFocus, scrollbar, wanted, hiddenScrollbars, overruled,
    log, tree, pendingQuiz, form, followUps, agent, issued, episodes, overlapped, inGap,
    strayed

M == INSTANCE MidTurn WITH MaxTurns <- MidTurns
L == INSTANCE TodoList WITH MaxEntries <- MaxTodoEntries, branch <- todoBranch
H == INSTANCE TodoHud
W == INSTANCE TodoViewport
P == INSTANCE TuiPatches
T == INSTANCE Timeline WITH turns <- shownTurns, active <- stoodAt
Q == INSTANCE Quiz

midTurn ==
    <<run, usage, manual, task, turns, enabled, boundary, nextFollowsTools, active, ceiling,
      boundaries, resumed, engine>>
todos ==
    <<phases, todoBranch, result>>
panel ==
    <<list, size, hud, overlays, gone, promises, drawn, screen, rowCache, clear>>
window ==
    <<rows, activeRow, rowLimit, viewFollows, scrollRow>>
patches ==
    <<loaded, session, step, method, patch, controller, repeated, pressed, changed>>
timeline ==
    <<transcript, shownTurns, selected, followTail, railOn, view, following, rail, stoodAt,
      keyboardFocus, scrollbar, wanted, hiddenScrollbars, overruled>>
quiz ==
    <<log, tree, pendingQuiz, form, followUps, agent, issued, episodes, overlapped,
      inGap, strayed>>
vars == <<component, midTurn, todos, panel, window, patches, timeline, quiz>>

Components ==
    {"midturn", "list", "hud", "viewport", "patches", "timeline", "quiz"}

(* A component that rests does so in one of its initial states.            *)
Init ==
    /\ component \in Components
    /\ M!Init /\ (component # "midturn" => engine.at = "none")
    /\ L!Init
    /\ H!Init /\ (component # "hud" => size = CHOOSE x \in H!Sizes : TRUE)
    /\ W!Init /\ (component # "viewport" => rows = 1 /\ activeRow = -1 /\ \A n \in Limits : rowLimit <= n)
    /\ P!Init /\ (component # "patches" => loaded = <<"timeline", "todo">>)
    /\ T!Init /\ (component # "timeline" => /\ view = CHOOSE v \in Views : TRUE
                                            /\ \A v, w \in Views : scrollbar[v] = scrollbar[w]
                                            /\ scrollbar[view] = CHOOSE x \in T!Settings : TRUE)
    /\ Q!Init

Next ==
    \/ /\ component = "midturn" /\ M!Next
       /\ UNCHANGED <<component, todos, panel, window, patches, timeline, quiz>>
    \/ /\ component = "list" /\ L!Next
       /\ UNCHANGED <<component, midTurn, panel, window, patches, timeline, quiz>>
    \/ /\ component = "hud" /\ H!Next
       /\ UNCHANGED <<component, midTurn, todos, window, patches, timeline, quiz>>
    \/ /\ component = "viewport" /\ W!Next
       /\ UNCHANGED <<component, midTurn, todos, panel, patches, timeline, quiz>>
    \/ /\ component = "patches" /\ P!Next
       /\ UNCHANGED <<component, midTurn, todos, panel, window, timeline, quiz>>
    \/ /\ component = "timeline" /\ T!Next
       /\ UNCHANGED <<component, midTurn, todos, panel, window, patches, quiz>>
    \/ /\ component = "quiz" /\ Q!Next
       /\ UNCHANGED <<component, midTurn, todos, panel, window, patches, timeline>>

(* The fairness of MidTurn and of Quiz.                                    *)
Fairness ==
    /\ WF_vars(/\ component = "midturn" /\ M!Works
               /\ UNCHANGED <<component, todos, panel, window, patches, timeline, quiz>>)
    /\ WF_vars(/\ component = "midturn" /\ (M!PromptResolves \/ M!GoesOn \/ M!GraceIsOver)
               /\ UNCHANGED <<component, todos, panel, window, patches, timeline, quiz>>)
    /\ WF_vars(/\ component = "quiz" /\ (Q!Settle \/ Q!Timer)
               /\ UNCHANGED <<component, midTurn, todos, panel, window, patches, timeline>>)

Spec == Init /\ [][Next]_vars /\ Fairness
-----------------------------------------------------------------------------
(* Properties; each says in its module what it is about.                   *)

(* The extension continues what it stopped, once, and never a task that    *)
(* the user gave meanwhile or another branch.                              *)
OnlyItsOwnTask == component = "midturn" => M!OnlyItsOwnTask

(* A task that was stopped for a compaction is continued; the engine's     *)
(* attempt to run a prompt ends, and not while its first continuation is   *)
(* on its way.                                                             *)
StoppedTaskGoesOn == M!StoppedTaskGoesOn /\ M!AttemptEnds /\ M!FirstBoundaryIsNoFailure

(* The todo list is well formed and that of the branch, its panel shows    *)
(* it and keeps to its rows.  Panel and timeline share Pi's terminal:      *)
(* input arrives once, a release follows its press, the patches go, and    *)
(* scrollbars are given back.                                              *)
ScreenIsTrue ==
    /\ L!ListIsWellFormed /\ L!ListFollowsBranch /\ H!PanelIsTrue /\ W!FrameFits /\ W!NoWastedRow
    /\ P!InputArrivesOnce /\ P!ReleaseFollowsPress /\ P!NothingLeftBehind /\ T!ScrollbarsAreGivenBack

(* The answers that reach the model are those of the quiz that its branch  *)
(* ends with, once.                                                        *)
AnswersFitTheirQuiz == Q!AnswersFitTheirQuiz /\ Q!PendingIsNewest

(* A quiz opens on its own once the agent is settled.                      *)
QuizOpens == Q!QuizOpens
=============================================================================
