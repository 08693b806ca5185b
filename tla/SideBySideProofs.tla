---------------------------- MODULE SideBySideProofs ----------------------------
(***************************************************************************)
(* The components side by side.  What is proved of the names that          *)
(* processes share (SharedNamesProofs), of the feedback over a bridge, the *)
(* runs in the background and the server-side compaction                   *)
(* (SessionPartsProofs) and of the edit tool and live context management   *)
(* (EditPartsProofs) holds of them where they are put side by side: a step *)
(* of another component leaves their variables alone.                      *)
(***************************************************************************)
EXTENDS SideBySide, SharedNamesProofs, SessionPartsProofs, EditPartsProofs, TLAPS

-----------------------------------------------------------------------------
(* Of each component a behaviour of the whole is one of its own: a step of *)
(* the whole is one of its steps, or leaves its variables alone.           *)

LEMMA EachIsItself ==
  Spec => JSpec /\ I!Spec /\ G!Spec /\ S!Spec /\ B!Spec /\ A!Spec /\ N!Spec /\ R!SpecOfRuns /\ U!Spec
          /\ C!Spec
<1>1. Init => JInit /\ I!Init /\ G!Init /\ S!Init /\ B!Init /\ A!Init /\ N!Init /\ R!InitRuns /\ U!Init
             /\ C!Init
  BY DEF Init
<1>2. [Next]_vars => /\ [JNext]_jvars /\ [I!Next]_installer /\ [G!Next]_locked /\ [S!Next]_slots
                     /\ [B!Next]_bridges /\ [A!Next]_feedback /\ [N!Next]_native
                     /\ [R!NextOfRuns]_runs /\ [U!Next]_edit /\ [C!Next]_context
  BY DEF Next, vars, ofMachine, ofContext, ofFiles
<1>3. [Next]_vars => [JNext]_jvars
  BY <1>2
<1>4. [Next]_vars => [I!Next]_I!vars
  BY <1>2 DEF installer, I!vars
<1>5. [Next]_vars => [S!Next]_S!vars
  BY <1>2 DEF slots, S!vars
<1>6. [Next]_vars => [B!Next]_B!vars
  BY <1>2 DEF bridges, B!vars, B!registry, B!fixed, B!extension
<1>7. [Next]_vars => [R!NextOfRuns]_(R!runVars)
  BY <1>2 DEF runs, R!runVars
<1>8. [Next]_vars => [G!Next]_G!vars
  BY <1>2 DEF locked, G!vars
<1>9. [Next]_vars => [A!Next]_A!vars
  BY <1>2 DEF feedback, A!vars, A!host, A!client
<1>10. [Next]_vars => [U!Next]_(U!vars)
  BY <1>2 DEF edit, U!vars, U!counters
<1>11. [Next]_vars => [N!Next]_(N!vars)
  BY <1>2 DEF native, N!vars, N!session, N!controller
<1>12. [Next]_vars => [C!Next]_(C!vars)
  BY <1>2 DEF context, C!vars, C!session, C!extension, C!document
<1> QED BY <1>1, <1>3, <1>4, <1>5, <1>6, <1>7, <1>8, <1>9, <1>10, <1>11, <1>12, PTL
           DEF Spec, JSpec, I!Spec, G!Spec, S!Spec, B!Spec, A!Spec, N!Spec, R!SpecOfRuns, U!Spec, C!Spec

(* What the journal served is replayed by every later opening, and a       *)
(* failed write costs one entry at most (journal.ts, open and append).     *)
THEOREM JournalKeepsWhatItServed == Spec => [](ServedStays /\ LossIsContained)
BY EachIsItself, WhatWasServedStays, LossStaysContained, PTL

(* The npm processes of the bootstrap exclude each other, a save of the    *)
(* settings keeps the others', the slot of an attached Neovim is not       *)
(* recycled unless the attach fell into the recycling, no bridge outlives  *)
(* its session and every running one is found under its id, for any        *)
(* numbers of them; with one Pi for the registry, without which the code   *)
(* does not keep its part (dependencies.ts, 0020-mid-turn-compact.ts,      *)
(* file-store.ts, bridge.ts).                                              *)
THEOREM SharedNamesAreOwned == OneProcess => (Spec => []SharedNamesHaveOneOwner)
<1> SUFFICES ASSUME OneProcess
             PROVE  Spec => []SharedNamesHaveOneOwner
  OBVIOUS
<1>1. B!Spec => []B!RegistryIsTrue
  BY RegistryTellsTheTruth
<1>2. I!OneInstaller /\ G!SettingsAreMerged /\ S!AttachedIsNotRecycled /\ B!NothingOutlivesItsSession /\ B!RegistryIsTrue
         => SharedNamesHaveOneOwner
  BY DEF SharedNamesHaveOneOwner
<1> QED BY EachIsItself, InstallersAreSerialized, SavesAreMerged, AttachedSlotsStay, BridgesEndWithTheirSession,
           <1>1, <1>2, PTL

(* A slot id keeps its snapshot until Send, cancel or the TTL unless two   *)
(* processes crossed in it, and a run that its session took over is        *)
(* aborted by a kill or the shutdown only (file-store.ts, exportSnapshot;  *)
(* workflow-tool.ts, execute).                                             *)
THEOREM NothingIsLostToOthers == Spec => NothingIsTakenAway
BY EachIsItself, OwnersAbort, IdsKeepTheirSnapshot, PTL DEF NothingIsTakenAway

(* Feedback arrives: an annotation is on the screen, in a draft or with    *)
(* Pi, and a submission is sent to Pi once, if the bridge gives every      *)
(* content that it exposes an identity of its own (bridge.ts, init.lua).   *)
THEOREM FeedbackArrives == SnapshotsAreNew => (Spec => []FeedbackArrivesOnce)
<1> SUFFICES ASSUME SnapshotsAreNew PROVE Spec => []FeedbackArrivesOnce
  OBVIOUS
<1>1. A!Spec => []A!SubmittedOnce
  BY SubmissionsAreSentOnce
<1>2. A!SubmittedOnce /\ A!NoAnnotationLost => FeedbackArrivesOnce
  BY DEF FeedbackArrivesOnce
<1> QED BY EachIsItself, AnnotationsAreKept, <1>1, <1>2, PTL

(* The compaction by the provider forgets nothing that was said, and what  *)
(* an owned stream sends is all of it, if the hook of the extension runs   *)
(* in the turn in which the stream starts (openai-server-compaction.ts).   *)
THEOREM HistoryStaysWhole == HooksAreFirst => (Spec => []HistoryIsKept)
<1> SUFFICES ASSUME HooksAreFirst PROVE Spec => []HistoryIsKept
  OBVIOUS
<1>1. N!Spec => []HistoryInv
  BY HistoryInvariant
<1>2. HistoryInv => HistoryIsKept
  BY InvOfHistoryMeans DEF HistoryIsKept
<1> QED BY EachIsItself, <1>1, <1>2, PTL

(* A run in the background answers its session once, its panel goes with   *)
(* it, and the call that handed it over is told nothing more, for every    *)
(* set of runs and whatever the other components are given                 *)
(* (workflow-tool.ts, execute).                                            *)
THEOREM RunsAreAnswered == Spec => []DetachedRunsAreAnswered
<1>1. RunsInv => DetachedRunsAreAnswered
  BY InvOfRunsMeans DEF DetachedRunsAreAnswered
<1> QED BY EachIsItself, RunsInvariant, <1>1, PTL

(* Live context management: a session that is resumed has the state that   *)
(* was persisted, what is sent to the model is of its own branch, and      *)
(* nothing is left out that the model has not seen, for every length of a  *)
(* session and whatever the other components are given (pi-clm, index.ts   *)
(* and context-document.ts).                                               *)
THEOREM ContextStaysTrue == Spec => []ContextIsTrue
<1>1. ContextInv => ContextIsTrue
  BY InvOfContextMeans DEF ContextIsTrue
<1> QED BY EachIsItself, ContextInvariant, <1>1, PTL

(* Edits land as a whole and on what they were made from: those of several *)
(* files (unified-edit.ts), and those of the context document, on the      *)
(* branch of its snapshot (index.ts, turn_end); a file that a failing      *)
(* rollback cannot put back is the exception.                              *)
THEOREM EditsLandAsAWhole == Spec => EditsLandWhole
BY EachIsItself, EditsAreWhole, EditsFitTheirBranch, PTL DEF EditsLandWhole

(* An edit of files touches lines that were shown only, and no ring of     *)
(* calls waits for itself, for any numbers of files, calls and lines       *)
(* (unified-edit.ts, hash-edit.ts).                                        *)
THEOREM EditsAreOfWhatWasShown == Spec => []EditsTouchWhatWasShown
<1>1. U!OnlyShownLines /\ U!NoQueueCycle => EditsTouchWhatWasShown
  BY DEF EditsTouchWhatWasShown
<1> QED BY EachIsItself, OnlyShownLinesAreEdited, QueuesAreNoCycle, <1>1, PTL
=============================================================================
