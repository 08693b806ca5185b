------------------------------- MODULE EditParts -------------------------------
(***************************************************************************)
(* The parts of a session that rewrite what others read: the edit tool     *)
(* (UnifiedEdit), of which several calls, the read tool and other          *)
(* processes work on the same files, and live context management (Clm),    *)
(* which makes the model's edits of a document the context of the next     *)
(* request.  They share no state; SideBySide checks them next to the       *)
(* others, and EditPartsProofs is about them.                              *)
(***************************************************************************)
EXTENDS Integers, Sequences, FiniteSets

CONSTANTS
    Files, Texts, Lines, EditCalls, HASH_HISTORY_DEPTH, MaxReads, MaxMishaps,
    MaxMessages, MaxContextEntries, MaxStarts, MaxEvents,
    Absent     \* no file, no call, no checkpoint, no document

ASSUME EditPartsAssumption ==
    /\ Files \subseteq Nat /\ IsFiniteSet(Files)
    /\ HASH_HISTORY_DEPTH \in Nat \ {0}
    /\ Absent \notin EditCalls \cup Nat

VARIABLES
    edited, tagStore, reading, editCall, queueOf, shown, unshown, disturbed, stuck, reads,
    writes, editFailures,
    mode, kind, branch, raw, turnPhase, starts, events, live, checkpointHistory, settings,
    annotations, lifecycleEpoch, mirrorStore, turnBaseline, compactPending, mirror, seen, wrote,
    end, sent

U == INSTANCE UnifiedEdit
     WITH Calls <- EditCalls, None <- Absent, file <- edited, store <- tagStore,
          call <- editCall, held <- queueOf, failures <- editFailures
C == INSTANCE Clm
     WITH MaxEntries <- MaxContextEntries, None <- Absent, phase <- turnPhase, store <- mirrorStore

edit == <<edited, tagStore, reading, editCall, queueOf, shown, unshown, disturbed, stuck, reads,
          writes, editFailures>>
context == <<mode, kind, branch, raw, turnPhase, starts, events, live, checkpointHistory, settings,
             annotations, lifecycleEpoch, mirrorStore, turnBaseline, compactPending, mirror, seen,
             wrote, end, sent>>
=============================================================================
