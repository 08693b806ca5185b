------------------------------ MODULE SessionParts ------------------------------
(***************************************************************************)
(* Three components of a session that outlive the calls into them, and     *)
(* meet answers that are late or lost, other writers and restarts: the     *)
(* feedback over a bridge (Annotations), the server-side compaction        *)
(* (NativeCompaction) and the run that a tool call hands over to its       *)
(* session (BackgroundRun).  They share no state with one another;         *)
(* SideBySide checks them next to the others, and SessionPartsProofs is    *)
(* about them.                                                             *)
(***************************************************************************)
EXTENDS Integers, Sequences, FiniteSets

CONSTANTS
    MaxSnapshots, MAX_CACHE_ENTRIES, SnapshotsReturn, MaxInstances, MaxTexts, MaxSubmissions,
    MaxAttachments,
    Requests, Compactions, Models, Decorated, Supported, Codex, REMOTE_COMPACTION_MAX_ATTEMPTS,
    HooksAwait, MaxTree, MaxRequests, MaxCompactions, MaxResets,
    Runs, MaxShutdowns,
    Nobody

ASSUME SessionPartsAssumption ==
    /\ MaxSnapshots \in Nat /\ MaxSubmissions \in Nat /\ MAX_CACHE_ENTRIES \in Nat \ {0}
    /\ Codex \subseteq Supported /\ Supported \subseteq Decorated /\ Decorated \subseteq Models

VARIABLES
    instance, answering, snapshot, entries, sends, delivered, phase, manifest, attached, store, pending,
    scheduled_submission, generation, drafts, call, wire, wanted, texts, submissions,
    trunk, leaf, model, epoch, newest, held, activeCompaction, pendingFallback, request,
    invocations, compaction, attempts,
    run, panel, ui, tracked, registered, session, results, toasts, lateUpdate

A == INSTANCE Annotations WITH up <- answering
N == INSTANCE NativeCompaction
     WITH MaxEntries <- MaxTree, None <- Nobody, entries <- trunk, generation <- epoch, snapshot <- held
R == INSTANCE BackgroundRun WITH pending <- tracked

feedback == <<instance, answering, snapshot, entries, sends, delivered, phase, manifest, attached, store,
              pending, scheduled_submission, generation, drafts, call, wire, wanted, texts,
              submissions>>
native == <<trunk, leaf, model, epoch, newest, held, activeCompaction, pendingFallback, request,
            invocations, compaction, attempts>>
runs == <<run, panel, ui, tracked, registered, session, results, toasts, lateUpdate>>
=============================================================================
