------------------------------ MODULE TuiPatches ------------------------------
(***************************************************************************)
(* Two extensions put themselves between Pi and its fullscreen renderer by *)
(* replacing methods of one prototype: the timeline                        *)
(* (agent_extensions/0014-timeline.ts) and the todo panel                  *)
(* (agent_extensions/0022-todo.ts).  Each keeps its state under a global   *)
(* symbol that all its copies and all its sessions share, wraps the method *)
(* it finds when its first controller comes and unwraps when the last one  *)
(* goes.  They come and go in the order in which Pi loads extensions, so   *)
(* the wrappers are not removed in the order in which they were put on.    *)
(*                                                                         *)
(* Modelled on the input method; the render methods are wrapped and        *)
(* unwrapped by the same steps.  A packet is a press or a release of the   *)
(* left button over one extension's area, if that one shows it and no      *)
(* other covers it, or over the text.                                      *)
(***************************************************************************)
EXTENDS Integers, Sequences, FiniteSets

CONSTANTS
    MaxCopies,    \* copies started over all sessions of the process
    None

VARIABLES
    loaded,       \* the load order of this process
    session,      \* sessions so far
    step,         \* "starting", "running" or "closing", and whose turn it is
    method,       \* the prototype's method: the wrappers a call passes, outermost first
    patch,        \* the global state of each extension
    controller,   \* the state of each loaded copy
    repeated,     \* a copy was offered one packet twice
    pressed,      \* where the last press went: "pi", "taken" or None; "torn" when its
                  \* release went elsewhere
    changed       \* an area came or went since the last press

vars == <<loaded, session, step, method, patch, controller, repeated, pressed, changed>>

Owners == {"timeline", "todo"}

(* The orders in which extensions may be loaded; a package and a           *)
(* standalone copy of the same extension may both be.                      *)
Loads == {<<"timeline", "todo">>, <<"todo", "timeline">>, <<"todo", "timeline", "todo">>}
Copies == DOMAIN loaded
Unpatched == [patched |-> FALSE, original |-> None, wrapper |-> None]
Text == 0
Fresh == [installed |-> FALSE, failed |-> FALSE, disposed |-> FALSE, area |-> "closed",
          press |-> FALSE]

Init ==
    /\ loaded \in Loads
    /\ session = 1
    /\ step = [phase |-> "starting", copy |-> 1]
    /\ method = <<>>
    /\ patch = [x \in Owners |-> Unpatched]
    /\ controller = [c \in Copies |-> Fresh]
    /\ repeated = FALSE
    /\ pressed = None
    /\ changed = FALSE

(* The controllers of an extension: copies that are installed.             *)
Controllers(of, x) == {c \in Copies : loaded[c] = x /\ of[c].installed}

(* installRuntimePatch: the first controller wraps the method as it is.    *)
(* A wrapper is a closure over the method it found.                        *)
Install(c) ==
    LET x == loaded[c]
        wrapper == <<[owner |-> x, serial |-> Len(method) + 1 + 10 * session]>> \o method
    IN  /\ controller' = [controller EXCEPT ![c].installed = TRUE]
        /\ IF patch[x].patched THEN UNCHANGED <<method, patch>>
           ELSE /\ patch' = [patch EXCEPT ![x] = [patched |-> TRUE, original |-> method,
                                                  wrapper |-> wrapper]]
                /\ method' = wrapper

(* uninstallRuntimePatch, when the last controller goes.  The todo panel   *)
(* restores the method only if its wrapper is outermost; the timeline      *)
(* restores what it found.                                                 *)
Restored_Always(x) == patch[x].original
Restored(x) ==
    IF x = "todo" /\ method # patch[x].wrapper THEN method ELSE patch[x].original
Cleared_Kept(x) == patch[x]
Cleared(x) == Unpatched

Uninstall(c, next) ==
    LET x == loaded[c]
        last == patch[x].patched /\ Controllers(next, x) = {}
    IN  /\ controller' = next
        /\ method' = IF controller[c].installed /\ last THEN Restored(x) ELSE method
        /\ patch' = IF controller[c].installed /\ last THEN [patch EXCEPT ![x] = Cleared(x)]
                    ELSE patch

-----------------------------------------------------------------------------
(* The life of a session.                                                  *)

At(phase, c) == step = [phase |-> phase, copy |-> c]
GoOn(phase) ==
    step' = IF step.copy < Len(loaded) THEN [step EXCEPT !.copy = @ + 1]
            ELSE [phase |-> phase, copy |-> 1]

(* session_start: the timeline is on by default; the panel opens when the  *)
(* branch has a list.                                                      *)
Start(c) ==
    /\ At("starting", c)
    /\ ~controller[c].disposed
    /\ GoOn("running")
    /\ \/ Install(c)
       \/ loaded[c] = "todo" /\ UNCHANGED <<controller, method, patch>>
    /\ UNCHANGED <<loaded, session, repeated, pressed, changed>>

(* openHud, which installs on its first time, and the timeline's rail.     *)
Show(c) ==
    /\ step.phase = "running"
    /\ controller[c].area # "open" /\ ~controller[c].failed
    /\ IF controller[c].installed
       THEN /\ controller' = [controller EXCEPT ![c].area = "open",
                                 ![c].press = @ /\ controller[c].area = "hidden"]
            /\ UNCHANGED <<method, patch>>
       ELSE /\ loaded[c] = "todo"
            /\ Install(c)
    /\ changed' = TRUE
    /\ UNCHANGED <<loaded, session, step, repeated, pressed>>

(* The panel is closed or the timeline switched off; the panel is hidden   *)
(* or the rail has no turns, and the copy still wants input.               *)
Hide(c, area) ==
    /\ step.phase = "running"
    /\ controller[c].area = "open"
    /\ controller' = [controller EXCEPT ![c].area = area, ![c].press = @ /\ area = "hidden"]
    /\ changed' = TRUE
    /\ UNCHANGED <<loaded, session, step, method, patch, repeated, pressed>>

(* An exception in a handler: the panel leaves, the timeline stays and     *)
(* wants nothing any more.                                                 *)
Crash(c) ==
    /\ step.phase = "running"
    /\ controller[c].installed /\ ~controller[c].failed
    /\ LET failed == [controller[c] EXCEPT !.failed = TRUE, !.area = "closed", !.press = FALSE,
                                           !.installed = loaded[c] = "timeline"]
           next == [controller EXCEPT ![c] = failed]
       IN  IF loaded[c] = "todo" THEN Uninstall(c, next)
           ELSE controller' = next /\ UNCHANGED <<method, patch>>
    /\ changed' = TRUE
    /\ UNCHANGED <<loaded, session, step, repeated, pressed>>

(* session_shutdown, in load order; then the next session starts with new  *)
(* copies.                                                                 *)
Close ==
    /\ step.phase = "running"
    /\ (session + 1) * Len(loaded) <= MaxCopies
    /\ step' = [phase |-> "closing", copy |-> 1]
    /\ UNCHANGED <<loaded, session, method, patch, controller, repeated, pressed, changed>>

Dispose(c) ==
    /\ At("closing", c)
    /\ GoOn("starting")
    /\ Uninstall(c, [controller EXCEPT ![c].installed = FALSE, ![c].disposed = TRUE,
                                       ![c].area = "closed", ![c].press = FALSE])
    /\ changed' = TRUE
    /\ UNCHANGED <<loaded, session, repeated, pressed>>

Reload ==
    /\ At("starting", 1)
    /\ \A c \in Copies : controller[c].disposed
    /\ controller' = [c \in Copies |-> Fresh]
    /\ session' = session + 1
    /\ UNCHANGED <<loaded, step, method, patch, repeated, pressed, changed>>

-----------------------------------------------------------------------------
(* A packet goes through the wrappers, outermost first.  A wrapper offers  *)
(* it to the newest copy that wants input; the panel's wrappers do nothing *)
(* while an outer one of them is at it.                                    *)

Wants(c) == controller[c].installed /\ controller[c].area # "closed" /\ ~controller[c].failed
Active(x) ==
    LET want == {c \in Copies : loaded[c] = x /\ Wants(c)}
    IN  IF want = {} THEN None ELSE CHOOSE c \in want : \A d \in want : d <= c

(* handle: a copy takes a press on its area and the release of a press it  *)
(* took; a press elsewhere ends its claim on the next release.             *)
Takes(c, kind, area) ==
    controller[c].area = "open" /\ IF kind = "press" THEN area = c ELSE controller[c].press
Claim_Kept(c, kind, area) == kind = "press" /\ (area = c \/ controller[c].press)
Claim(c, kind, area) == kind = "press" /\ area = c

Asks_Nested(i) == Active(method[i].owner) # None
Asks(i) ==
    /\ Active(method[i].owner) # None
    /\ method[i].owner = "todo" => \A j \in 1..(i - 1) : method[j].owner # "todo"

Packet(kind, area) ==
    /\ step.phase = "running"
    /\ kind = "release" => pressed # None
    /\ area # Text => controller[area].area = "open"
    /\ LET asked == {i \in DOMAIN method : Asks(i)}
           takers == {i \in asked : Takes(Active(method[i].owner), kind, area)}
           taken == {i \in takers : \A j \in takers : i <= j}
           reached == {i \in asked : \A j \in taken : i <= j}
           offered == [c \in Copies |-> {i \in reached : Active(method[i].owner) = c}]
       IN  /\ repeated' = (repeated \/ \E c \in Copies : Cardinality(offered[c]) > 1)
           /\ controller' = [c \in Copies |->
                 IF offered[c] = {} \/ controller[c].area # "open" THEN controller[c]
                 ELSE [controller[c] EXCEPT !.press = Claim(c, kind, area)]]
           /\ pressed' = IF kind = "release" THEN
                            IF (taken = {}) = (pressed = "pi") \/ changed THEN None ELSE "torn"
                         ELSE IF taken = {} THEN "pi"
                         ELSE "taken"
           /\ changed' = IF kind = "press" THEN FALSE ELSE changed
    /\ UNCHANGED <<loaded, session, step, method, patch>>

Next ==
    \/ \E c \in Copies : Start(c) \/ Show(c) \/ Hide(c, "closed") \/ Hide(c, "hidden") \/ Crash(c) \/ Dispose(c)
    \/ Close \/ Reload
    \/ \E kind \in {"press", "release"}, area \in Copies \cup {Text} : Packet(kind, area)

Spec == Init /\ [][Next]_vars

-----------------------------------------------------------------------------
(* While a session runs, the newest copy of an extension that shows an     *)
(* area gets the input, whatever was wrapped, unwrapped and left behind    *)
(* before, and gets a packet once.                                         *)
InputArrivesOnce ==
    /\ step.phase = "running" =>
         \A c \in Copies : Wants(c) => \E i \in DOMAIN method : method[i].owner = loaded[c]
    /\ ~repeated

(* A release goes where its press went: Pi neither begins nor ends a text  *)
(* selection by halves while the areas stay.                               *)
ReleaseFollowsPress == pressed # "torn"

(* With the timeline loaded first, as the files' numbers order them, no    *)
(* wrapper of an ended session is left behind.                             *)
NothingLeftBehind ==
    loaded = <<"timeline", "todo">> /\ At("starting", 1) => method = <<>>
=============================================================================
