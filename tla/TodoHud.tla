-------------------------------- MODULE TodoHud --------------------------------
(***************************************************************************)
(* The floating panel of the todo tool (agent_extensions/0022-todo.ts): a  *)
(* passive overlay that the extension opens, hides, closes and opens again *)
(* as the list, the terminal and the user's commands change, and the seam  *)
(* that keeps Pi from repainting the panel's columns when the terminal     *)
(* already shows them.                                                     *)
(*                                                                         *)
(* Pi's side is modelled from its use here: ui.custom calls the factory    *)
(* and hands over the handle before the next event, an overlay that is     *)
(* visible is part of the next frame, a resize repaints the whole screen,  *)
(* and a renderer that was replaced takes its overlays along and throws    *)
(* when it is touched.  The panel's rows are one region of the screen.     *)
(***************************************************************************)
EXTENDS Integers, FiniteSets

CONSTANTS
    Lists,      \* lists with tasks in them
    MaxOpens,   \* how often the panel is opened
    None

VARIABLES
    list,       \* the list, or Empty
    size,       \* the terminal's width
    hud,        \* the extension's view of the panel
    overlays,   \* the panels on Pi's overlay stack
    gone,       \* openings whose renderer was replaced
    promises,   \* openings whose ui.custom promise has not settled
    drawn,      \* what the last frame of Pi holds where the panel is
    screen,     \* what the terminal shows there
    rowCache,   \* the panel's rows in the last frame that went through the seam
    clear       \* the next frame clears the screen

vars == <<list, size, hud, overlays, gone, promises, drawn, screen, rowCache, clear>>

Empty == "empty"
Base == <<>>
Sizes == {"tiny", "narrow", "wide"}

(* todoHudLayout: a collapse by hand wins, a narrow terminal collapses on  *)
(* its own unless the panel was expanded by hand.                          *)
TodoHudLayout(width, collapsed, forced) ==
    CASE width = "tiny" -> None
      [] width # "tiny" /\ (collapsed \/ (width = "narrow" /\ ~forced)) -> <<"compact", width>>
      [] OTHER -> <<"expanded", width>>

Closed(h) == [h EXCEPT !.opened = FALSE, !.ctx = FALSE, !.component = None, !.handle = None,
                       !.layout = None, !.resize = FALSE]
FreshHud ==
    [enabled |-> TRUE, opened |-> FALSE, ctx |-> FALSE, component |-> None, handle |-> None,
     layout |-> None, resize |-> FALSE, collapsed |-> FALSE, forced |-> FALSE, generation |-> 0]

(* A panel: the extension's view, the overlay stack, the promises.         *)
Panel(h, o, p) == [hud |-> h, overlays |-> o, promises |-> p]
Current == Panel(hud, overlays, promises)
Desired(h, width) == TodoHudLayout(width, h.collapsed, h.forced)

CloseHud_ResetFirst(p) ==
    [p EXCEPT !.hud = Closed([p.hud EXCEPT !.generation = @ + 1])]
CloseHud(p) ==
    [p EXCEPT !.hud = Closed([p.hud EXCEPT !.generation = @ + 1]),
              !.overlays = {o \in @ : o.opening # p.hud.handle}]

OpenHud(p, tasks, width) ==
    LET expected == Desired(p.hud, width)
        opening == p.hud.generation + 1
    IN  IF expected = None THEN p
        ELSE Panel([p.hud EXCEPT !.generation = opening, !.opened = TRUE, !.ctx = TRUE,
                                 !.component = tasks, !.handle = opening, !.layout = expected,
                                 !.resize = TRUE],
                   p.overlays \cup {[opening |-> opening, hidden |-> FALSE]},
                   p.promises \cup {opening})

ReopenHud(p, tasks, width) ==
    IF p.hud.ctx /\ p.hud.enabled /\ tasks # Empty THEN OpenHud(CloseHud(p), tasks, width)
    ELSE CloseHud(p)

(* setHidden through the handle: a touch that throws is taken as the end   *)
(* of this opening.                                                        *)
SetHidden(p, hidden) ==
    CASE p.hud.handle = None -> p
      [] p.hud.handle \in gone -> [p EXCEPT !.hud = Closed(@), !.promises = @ \ {p.hud.handle}]
      [] OTHER -> [p EXCEPT !.overlays =
                      {[o EXCEPT !.hidden = IF o.opening = p.hud.handle THEN hidden ELSE @] : o \in @}]

RefreshHud_KeepEmpty(p, tasks, width) ==
    CASE ~p.hud.enabled \/ tasks = Empty -> p
      [] p.hud.enabled /\ tasks # Empty /\ p.hud.opened ->
            IF Desired(p.hud, width) # p.hud.layout THEN ReopenHud(p, tasks, width)
            ELSE SetHidden([p EXCEPT !.hud.component = tasks], FALSE)
      [] OTHER -> OpenHud(p, tasks, width)
RefreshHud(p, tasks, width) ==
    CASE ~p.hud.enabled -> p
      [] p.hud.enabled /\ tasks = Empty -> SetHidden(p, TRUE)
      [] p.hud.enabled /\ tasks # Empty /\ p.hud.opened ->
            IF Desired(p.hud, width) # p.hud.layout THEN ReopenHud(p, tasks, width)
            ELSE SetHidden([p EXCEPT !.hud.component = tasks], FALSE)
      [] OTHER -> OpenHud(p, tasks, width)

Becomes(p) ==
    /\ hud' = p.hud
    /\ overlays' = p.overlays
    /\ promises' = p.promises

(* The overlays that Pi paints: not hidden, and `visible` holds.           *)
Painted == {o \in overlays : ~o.hidden /\ o.opening \notin gone /\ Desired(hud, size) = hud.layout}

-----------------------------------------------------------------------------
Init ==
    /\ list = Empty
    /\ size \in Sizes
    /\ hud = FreshHud
    /\ overlays = {} /\ gone = {} /\ promises = {}
    /\ drawn = Base /\ screen = Base /\ rowCache = None /\ clear = FALSE

MayOpen == hud.generation < 2 * MaxOpens

(* A todo call or a move in the session tree.                              *)
ListChanges ==
    /\ MayOpen
    /\ list' \in Lists \cup {Empty}
    /\ Becomes(RefreshHud(Current, list', size))
    /\ UNCHANGED <<size, gone, drawn, screen, rowCache, clear>>

(* /todo hud on and off.                                                   *)
Switch(on) ==
    /\ MayOpen
    /\ LET p == [Current EXCEPT !.hud.enabled = on]
       IN  Becomes(IF on THEN RefreshHud(p, list, size) ELSE CloseHud(p))
    /\ UNCHANGED <<list, size, gone, drawn, screen, rowCache, clear>>

(* The [Collapse] control, the badge, and /todo hud collapse and expand.   *)
SetCollapsed(collapsed) ==
    /\ MayOpen
    /\ LET p == [Current EXCEPT !.hud.collapsed = collapsed, !.hud.forced = ~collapsed]
       IN  Becomes(IF p.hud.opened THEN ReopenHud(p, list, size) ELSE p)
    /\ UNCHANGED <<list, size, gone, drawn, screen, rowCache, clear>>

(* The terminal changes its size; the listener is attached while the panel *)
(* is open.                                                                *)
Resize ==
    /\ MayOpen
    /\ size' \in Sizes \ {size}
    /\ Becomes(IF hud.resize /\ hud.opened /\ Desired(hud, size') # hud.layout
               THEN ReopenHud(Current, list, size') ELSE Current)
    /\ clear' = TRUE
    /\ UNCHANGED <<list, gone, drawn, screen, rowCache>>

(* Pi replaces its renderer.                                               *)
ReplaceRenderer ==
    /\ gone' = gone \cup {o.opening : o \in overlays}
    /\ overlays' = {}
    /\ clear' = TRUE
    /\ UNCHANGED <<list, size, hud, promises, drawn, screen, rowCache>>

(* The promise of a replaced or closed opening settles, now or much later. *)
Finish(opening) ==
    /\ opening \in promises
    /\ opening \notin {o.opening : o \in overlays}
    /\ promises' = promises \ {opening}
    /\ hud' = IF hud.generation = opening THEN Closed(hud) ELSE hud
    /\ UNCHANGED <<list, size, overlays, gone, drawn, screen, rowCache, clear>>
Finish_Any(opening) ==
    /\ opening \in promises
    /\ opening \notin {o.opening : o \in overlays}
    /\ promises' = promises \ {opening}
    /\ hud' = Closed(hud)
    /\ UNCHANGED <<list, size, overlays, gone, drawn, screen, rowCache, clear>>

(* A frame.  reduceFrame runs while the pointer has a component; it skips  *)
(* the columns of a panel whose rows it painted before.                    *)
Frame == IF Painted = {} THEN Base ELSE <<hud.component, hud.layout>>
Render ==
    /\ clear' = FALSE
    /\ drawn' = Frame
    /\ IF hud.component = None THEN screen' = Frame /\ UNCHANGED rowCache
       ELSE IF clear \/ Painted = {} THEN screen' = Frame /\ rowCache' = None
       ELSE /\ screen' = IF rowCache = Frame THEN screen ELSE Frame
            /\ rowCache' = Frame
    /\ UNCHANGED <<list, size, hud, overlays, gone, promises>>

Next ==
    \/ ListChanges \/ Resize \/ ReplaceRenderer \/ Render
    \/ \E on \in BOOLEAN : Switch(on)
    \/ \E collapsed \in BOOLEAN : SetCollapsed(collapsed)
    \/ \E opening \in promises : Finish(opening)

Spec == Init /\ [][Next]_vars

-----------------------------------------------------------------------------
(* There is one panel at most, and it is the one the extension can reach;  *)
(* what it shows is the list as it is, and an empty list is not shown.     *)
PanelIsTrue ==
    /\ \A o \in overlays : o.opening = hud.handle
    /\ Cardinality(overlays) <= 1
    /\ Painted # {} => hud.component = list /\ list # Empty /\ hud.enabled

(* The terminal shows what the last frame holds: "HUD not painted this     *)
(* frame (hidden/absent/resized): the terminal rows hold base content, so  *)
(* every cached overlay is stale".                                         *)
FrameIsShown == screen = drawn
=============================================================================
