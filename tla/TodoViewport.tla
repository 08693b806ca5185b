----------------------------- MODULE TodoViewport -----------------------------
(***************************************************************************)
(* The scrolling window of the todo panel (agent_extensions/0022-todo.ts). *)
(* The list is wrapped into rows; the window shows some of them within the *)
(* panel's row budget, which the "older" and "newer" indicators and the    *)
(* return-to-active control share.  The renderer stores the window's start *)
(* and the wheel moves it: both must compute the same window, or the panel *)
(* jumps under the pointer and frames that should be equal differ.         *)
(***************************************************************************)
EXTENDS Integers, FiniteSets

CONSTANTS MaxRows,  \* wrapped rows of a list
          Limits    \* row budgets: todoHudRowLimit gives 4 to 16

VARIABLES
    rows,          \* wrapped rows of the current list
    activeRow,     \* the row of the task in progress, -1: none
    rowLimit,      \* the budget of the component
    viewFollows,   \* viewState.followActive
    scrollRow      \* viewState.scrollRow

vars == <<rows, activeRow, rowLimit, viewFollows, scrollRow>>

Maximum(i, j) == IF i > j THEN i ELSE j
Minimum(i, j) == IF i < j THEN i ELSE j
One(condition) == IF condition THEN 1 ELSE 0

(* The rows left for content once the indicators that they call for are    *)
(* reserved: the loop starts from the whole budget and goes down until it  *)
(* is stable.                                                              *)
Indicators(total, start, budget) ==
    One(start > 0) + One(Minimum(total, start + budget) < total)
NextBudget(limit, footer, total, start, budget) ==
    Maximum(1, limit - footer - Indicators(total, start, budget))
ViewportContentBudget_OnePass(limit, footer, total, start) ==
    NextBudget(limit, footer, total, start, Maximum(1, limit - footer))
ViewportContentBudget(limit, footer, total, start) ==
    LET pass[n \in 0..3] == IF n = 0 THEN Maximum(1, limit - footer)
                            ELSE NextBudget(limit, footer, total, start, pass[n - 1])
    IN  pass[3]

ComputeWindow(total, limit, follows, from) ==
    IF total <= limit
    THEN [start |-> 0, content |-> IF follows THEN total ELSE Minimum(total, limit - 1),
          fits |-> TRUE]
    ELSE LET budget == ViewportContentBudget(limit, One(~follows), total, from)
             start == IF follows THEN from ELSE Minimum(from, Maximum(0, total - budget))
         IN  [start |-> start, content |-> Minimum(total - start, budget), fits |-> FALSE]

(* viewport: where the renderer starts, and the lines of the body.         *)
StartInput(total, active, limit, follows, scroll) ==
    IF follows THEN IF active >= 0 THEN active ELSE Maximum(0, total - limit)
    ELSE Maximum(0, Minimum(scroll, total - 1))
Viewport(total, active, limit, follows, scroll) ==
    LET window == ComputeWindow(total, limit, follows,
                                StartInput(total, active, limit, follows, scroll))
        end == window.start + window.content
    IN  [start |-> window.start, content |-> window.content,
         lines |-> window.content + One(~window.fits /\ window.start > 0)
                   + One(~window.fits /\ end < total) + One(~follows)]

(* scrollRows: the wheel leaves the active task and evaluates the window   *)
(* as the renderer will.                                                   *)
Wheel_Unclamped(total, active, limit, follows, scroll, delta) ==
    LET base == IF follows THEN IF active >= 0 THEN active ELSE Maximum(0, total - limit)
                ELSE scroll
    IN  Maximum(0, Minimum(base + delta, total - 1))
Wheel(total, active, limit, follows, scroll, delta) ==
    LET base == IF follows THEN IF active >= 0 THEN active ELSE Maximum(0, total - limit)
                ELSE scroll
    IN  ComputeWindow(total, limit, FALSE, Maximum(0, base + delta)).start

-----------------------------------------------------------------------------
Rendered == Viewport(rows, activeRow, rowLimit, viewFollows, scrollRow)

Init ==
    /\ rows \in 1..MaxRows
    /\ activeRow \in -1..(rows - 1)
    /\ rowLimit \in Limits
    /\ viewFollows = TRUE
    /\ scrollRow = 0

Render ==
    /\ scrollRow' = Rendered.start
    /\ UNCHANGED <<rows, activeRow, rowLimit, viewFollows>>

(* A wheel packet, or /todo hud older and newer.                           *)
ScrollRows ==
    /\ \E delta \in {-3, 3} :
          scrollRow' = Wheel(rows, activeRow, rowLimit, viewFollows, scrollRow, delta)
    /\ viewFollows' = FALSE
    /\ UNCHANGED <<rows, activeRow, rowLimit>>

FollowActive ==
    /\ viewFollows' = TRUE
    /\ UNCHANGED <<rows, activeRow, rowLimit, scrollRow>>

(* The model edits the list, or the terminal changes its width.            *)
Rewrap ==
    /\ rows' \in 1..MaxRows
    /\ activeRow' \in -1..(rows' - 1)
    /\ UNCHANGED <<rowLimit, viewFollows, scrollRow>>

Next == Render \/ ScrollRows \/ FollowActive \/ Rewrap

Spec == Init /\ [][Next]_vars

-----------------------------------------------------------------------------
(* A frame never passes the budget and never shows an empty window; a      *)
(* frame drawn twice from the same state is the same frame.                *)
FrameFits ==
    LET again == Viewport(rows, activeRow, rowLimit, viewFollows, Rendered.start)
    IN  /\ Rendered.lines <= rowLimit
        /\ Rendered.content >= 1
        /\ Rendered.start + Rendered.content <= rows
        /\ again = Rendered

(* The window that a wheel packet computed is the one that is drawn.       *)
WheelIsDrawn ==
    [][ScrollRows => Viewport(rows, activeRow, rowLimit, FALSE, scrollRow').start = scrollRow']_vars

(* A panel that shows the end of the list wastes no row that could show an *)
(* earlier one: a window is as large as its budget allows.                 *)
NoWastedRow ==
    rows > rowLimit /\ ~viewFollows =>
        \A larger \in 1..rowLimit :
            larger > Rendered.content /\ Rendered.start + larger <= rows =>
                larger + Indicators(rows, Rendered.start, larger) + 1 > rowLimit
=============================================================================
