-------------------------------- MODULE Timeline --------------------------------
(***************************************************************************)
(* The timeline's rail (agent_extensions/0014-timeline.ts): which turn is  *)
(* selected while turns come and the user moves in the session tree, and   *)
(* whose scrollbar it hides while the rail takes the scrollbar's place.    *)
(*                                                                         *)
(* A turn is its entry id.  A frame sees some of the turns as anchors in   *)
(* the transcript.  Pi renders right after a setting changes.              *)
(***************************************************************************)
EXTENDS Integers, Sequences, FiniteSets

CONSTANTS
    Turns,     \* entry ids of prompts
    Views,     \* scroll views; a view is replaced when the renderer is
    None

VARIABLES
    transcript,  \* the prompts of the branch
    turns,       \* the extension's copy
    selected,    \* index of the selected turn, 0: no turns
    followTail,
    railOn,      \* the timeline is visible
    view,        \* the primary scroll view of the renderer
    following,   \* view.isFollowingEnd
    rail,        \* the turns on the rail of the last frame
    active,      \* the turn at which the last frame stood, or None
    keyboardFocus,
    scrollbar,   \* what each view has
    wanted,      \* what the user wants each view to have
    hiddenScrollbars, \* the values to give back
    overruled    \* history: views for which "hidden" was chosen while the
                 \* rail hid their scrollbar, and nothing since

vars == <<transcript, turns, selected, followTail, railOn, view, following, rail, active,
          keyboardFocus, scrollbar, wanted, hiddenScrollbars, overruled>>
chosen == <<turns, selected, followTail>>
bars == <<scrollbar, hiddenScrollbars>>
choices == <<wanted, overruled>>

Settings == {"hidden", "auto", "always"}
Position(seq, turn) == {i \in DOMAIN seq : seq[i] = turn}
Bounded(i, low, high) == IF i < low THEN low ELSE IF i > high THEN high ELSE i

Init ==
    /\ transcript = <<>> /\ turns = <<>>
    /\ selected = 0 /\ followTail = TRUE
    /\ railOn = TRUE
    /\ view \in Views /\ following = TRUE
    /\ rail = <<>> /\ active = None /\ keyboardFocus = None
    /\ scrollbar \in [Views -> Settings] /\ wanted = scrollbar
    /\ hiddenScrollbars = [v \in Views |-> None] /\ overruled = {}

-----------------------------------------------------------------------------
(* Selection.                                                              *)

Select(index) ==
    IF turns = <<>> THEN UNCHANGED chosen
    ELSE /\ selected' = Bounded(index, 1, Len(turns))
         /\ followTail' = (selected' = Len(turns))
         /\ UNCHANGED turns

(* refresh: the tail is followed, or the selected turn is found again.     *)
Retained_ByIndex(seq) == selected
Retained(seq) ==
    LET at == IF selected = 0 THEN {} ELSE Position(seq, turns[selected])
    IN  IF at # {} THEN CHOOSE i \in at : TRUE ELSE Bounded(selected, 1, Len(seq))
Refresh(seq) ==
    /\ turns' = seq
    /\ IF seq = <<>> THEN selected' = 0 /\ followTail' = TRUE
       ELSE /\ selected' = IF followTail THEN Len(seq) ELSE Bounded(Retained(seq), 1, Len(seq))
            /\ UNCHANGED followTail

(* agent_start after a prompt; session_tree after a move in the tree.      *)
TranscriptChanges ==
    /\ \/ \E t \in Turns : /\ Position(transcript, t) = {}
                           /\ transcript' = Append(transcript, t)
       \/ \E n \in 0..Len(transcript) - 1 : transcript' = SubSeq(transcript, 1, n)
    /\ IF railOn THEN Refresh(transcript') ELSE UNCHANGED chosen
    /\ UNCHANGED <<railOn, view, following, rail, active, keyboardFocus, choices, bars>>

-----------------------------------------------------------------------------
(* Scrollbars.                                                             *)

RestoreScrollbars ==
    /\ scrollbar' = [v \in Views |-> IF hiddenScrollbars[v] = None THEN scrollbar[v]
                                     ELSE hiddenScrollbars[v]]
    /\ hiddenScrollbars' = [v \in Views |-> None]

(* hideScrollbar: other views get theirs back; a value that changed while  *)
(* the rail was there is the one to give back.                             *)
Remembered_First(v, bar) == IF hiddenScrollbars[v] = None THEN bar ELSE hiddenScrollbars[v]
Remembered(v, bar) == IF hiddenScrollbars[v] = None \/ bar # "hidden" THEN bar
                      ELSE hiddenScrollbars[v]
HideScrollbar(v, bar) ==
    /\ scrollbar' = [w \in Views |-> IF w = v THEN "hidden"
                                     ELSE IF hiddenScrollbars[w] # None THEN hiddenScrollbars[w]
                                     ELSE scrollbar[w]]
    /\ hiddenScrollbars' = [w \in Views |-> IF w = v THEN Remembered(v, bar) ELSE None]

(* composite: the rail is there when the frame shows a turn, and the       *)
(* terminal is wide and high enough for it; a frame that is too low hides  *)
(* the scrollbar and gives it back.                                        *)
Shows(seen) ==
    /\ rail' = SelectSeq([i \in DOMAIN turns |-> IF i \in seen THEN i ELSE 0], LAMBDA i : i # 0)
    /\ HideScrollbar(view, scrollbar[view])
Hides ==
    /\ rail' = <<>>
    /\ RestoreScrollbars
Frame ==
    /\ railOn
    /\ \E seen \in SUBSET DOMAIN turns :
          \/ seen = {} /\ active' = None /\ Hides /\ UNCHANGED chosen
          \/ /\ active' \in seen
             /\ Shows(seen) \/ Hides
             /\ IF following THEN Select(Len(turns)) ELSE UNCHANGED chosen
    /\ UNCHANGED <<transcript, railOn, view, following, keyboardFocus, choices>>

(* The user changes the setting; the frame after it follows at once.       *)
SetScrollbar ==
    /\ \E bar \in Settings :
          /\ wanted' = [wanted EXCEPT ![view] = bar]
          /\ overruled' = IF bar = "hidden" /\ rail # <<>> /\ hiddenScrollbars[view] \notin {None, bar}
                          THEN overruled \cup {view} ELSE overruled \ {view}
          /\ IF railOn /\ rail # <<>> THEN HideScrollbar(view, bar)
             ELSE scrollbar' = [scrollbar EXCEPT ![view] = bar] /\ UNCHANGED hiddenScrollbars
    /\ UNCHANGED <<transcript, chosen, railOn, view, following, rail, active, keyboardFocus>>

(* /tui-mode replaces the renderer: bindRuntimeTui forgets the old one.    *)
ReplaceView ==
    /\ view' \in Views \ {view}
    /\ following' = TRUE
    /\ Hides /\ active' = None /\ keyboardFocus' = None
    /\ UNCHANGED <<transcript, chosen, railOn, choices>>

-----------------------------------------------------------------------------
(* The user.                                                               *)

(* alt+, and alt+. step from the focused turn, or from the one at which    *)
(* the last frame stood; it has one, since there is a rail.                *)
Step(delta) ==
    /\ railOn /\ rail # <<>>
    /\ LET base == IF keyboardFocus # None THEN keyboardFocus ELSE active
           at == Position(rail, base)
           after == {i \in DOMAIN rail : rail[i] >= base}
           from == IF at # {} THEN CHOOSE i \in at : TRUE
                   ELSE IF after = {} THEN Len(rail)
                   ELSE CHOOSE i \in after : \A j \in after : i <= j
           target == rail[Bounded(from + delta, 1, Len(rail))]
       IN  Select(target) /\ keyboardFocus' = target
    /\ following' = FALSE
    /\ UNCHANGED <<transcript, railOn, view, rail, active, choices, bars>>

(* A click on a tick or on [latest]; a scroll by hand.                     *)
Click ==
    /\ railOn /\ rail # <<>>
    /\ \/ \E i \in DOMAIN rail : /\ Select(rail[i])
                                 /\ keyboardFocus' = rail[i]
                                 /\ following' = FALSE
       \/ Select(Len(turns)) /\ keyboardFocus' = None /\ following' = TRUE
    /\ UNCHANGED <<transcript, railOn, view, rail, active, choices, bars>>
Scroll ==
    /\ following' \in BOOLEAN
    /\ keyboardFocus' = None
    /\ UNCHANGED <<transcript, chosen, railOn, view, rail, active, choices, bars>>

(* /timeline.                                                              *)
Hide ==
    /\ railOn
    /\ railOn' = FALSE /\ Hides /\ active' = None /\ keyboardFocus' = None
    /\ UNCHANGED <<transcript, chosen, view, following, choices>>
Show ==
    /\ ~railOn
    /\ railOn' = TRUE
    /\ Refresh(transcript)
    /\ UNCHANGED <<transcript, view, following, rail, active, keyboardFocus, choices, bars>>

Next ==
    \/ TranscriptChanges \/ Frame \/ SetScrollbar \/ ReplaceView
    \/ Step(-1) \/ Step(1) \/ Click \/ Scroll \/ Hide \/ Show

Spec == Init /\ [][Next]_vars

-----------------------------------------------------------------------------
(* A view that the rail does not stand in for has the scrollbar that the   *)
(* user wants; no view loses it for good.  The exception is a view that    *)
(* was told to hide it while the rail hid it.                              *)
GivenBack(v) ==
    IF hiddenScrollbars[v] = None THEN scrollbar[v] = wanted[v] ELSE hiddenScrollbars[v] = wanted[v]
ScrollbarsAreGivenBack ==
    \A v \in Views \ overruled : GivenBack(v)

(* "Preserve a setting changed while the timeline is visible": whatever it *)
(* is set to.                                                              *)
ChangedSettingsArePreserved ==
    \A v \in Views : GivenBack(v)

(* A selected turn stays selected while it is in the branch, unless the    *)
(* user or the end of the transcript moves the selection.                  *)
SelectionStays ==
    [][turns' # turns /\ ~followTail /\ Position(turns', turns[selected]) # {}
         => turns'[selected'] = turns[selected]]_vars
=============================================================================
