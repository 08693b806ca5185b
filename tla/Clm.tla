------------------------------------ MODULE Clm ------------------------------------
(***************************************************************************)
(* Context lifecycle management (pi-clm).  The messages of a session are   *)
(* mirrored in a document before every request; what the model makes of    *)
(* the document becomes, at the end of its turn, a checkpoint: from then   *)
(* on a request starts with the projection in place of the prefix of raw   *)
(* messages that it was made from.  States, settings and annotations are   *)
(* entries of the session and are rebuilt from its branch.                 *)
(*                                                                         *)
(* A message is a number; a digest is the sequence that it is made of.  An *)
(* edited block is a kept one.  Budgets, caps and the overflow guard are   *)
(* in ClmBudget; what a notice or the viewer says is left out.  Pi and the *)
(* model are external; an append of an entry may throw.                    *)
(***************************************************************************)
EXTENDS Integers, Sequences, FiniteSets, Functions

CONSTANTS
    MaxMessages, MaxEntries, MaxStarts, MaxEvents,  \* bounds
    None

VARIABLES
    mode,           \* editingMode
    kind, branch, raw,      \* Pi's session: messages, entries of the branch, live messages
    phase, starts, events,
    live, checkpointHistory, settings, annotations,     \* the extension
    lifecycleEpoch, store, turnBaseline, compactPending,
    mirror, seen, wrote,    \* the document, the model's copy of it, and did it write this turn
    end,                    \* what turn_end keeps while it reads
    sent                    \* what the last request said

session == <<kind, branch, raw>>
extension == <<live, checkpointHistory, settings, annotations, lifecycleEpoch, store, turnBaseline, compactPending>>
document == <<mirror, seen, wrote, end>>
vars == <<mode, session, phase, starts, events, extension, document, sent>>

-----------------------------------------------------------------------------
(* Mutants: slips in the extension that the properties must notice.        *)

Seed_Stable(checkpoint, messages) == IF checkpoint = None THEN <<>> ELSE checkpoint.source
ToOutcomeEntry_OldRevision(s) == [s EXCEPT !.checkpoint = None, !.revision = 0]
Prefix_Length(checkpoint, messages) == Len(checkpoint.source) <= Len(messages)
Discards_Revision(e) == e.baseline.doc.revision # live.revision

-----------------------------------------------------------------------------
(* Messages and entries.                                                   *)

IsUser(m) == kind[m] = "user"
IsPersistedRetryError(m) == kind[m] = "failed"

(* What is left of a sequence if only the members of a set stay.  It is    *)
(* SelectSeq, without the recursion that no proof could go through.        *)
Kept(s, S) ==
    LET stay == {i \in DOMAIN s : s[i] \in S}
        Nth(n) == CHOOSE i \in stay : Cardinality({j \in stay : j <= i}) = n
    IN  [n \in 1..Cardinality(stay) |-> s[Nth(n)]]

(* What Pi rebuilds from a branch: a compaction stands for what was before.*)
Rebuilt(b) ==
    LET compactions == {i \in DOMAIN b : b[i].type = "message" /\ kind[b[i].message] = "summary"}
        from == IF compactions = {} THEN 1 ELSE CHOOSE i \in compactions : \A j \in compactions : j <= i
        m == Kept(SubSeq(b, from, Len(b)), {e \in Range(b) : e.type = "message"})
    IN  [i \in DOMAIN m |-> m[i].message]

MessageEntry(m) == [type |-> "message", message |-> m]
StateEntry(s) == [type |-> "state", state |-> s]
SettingsEntry(v) == [type |-> "settings", value |-> v]
NoteEntry(n) == [type |-> "annotation", note |-> n]
OfType(b, t) == {i \in DOMAIN b : b[i].type = t}
Latest(S) == CHOOSE i \in S : \A j \in S : j <= i

-----------------------------------------------------------------------------
(* state.ts                                                                *)

InitialState == [enabled |-> TRUE, revision |-> 0, checkpoint |-> None, outcome |-> "none"]
ToOutcomeEntry(s) == [s EXCEPT !.checkpoint = None]
ResetProjectionState(s, reason) ==
    [s EXCEPT !.revision = @ + 1, !.checkpoint = None, !.outcome = reason]

(* The latest entry wins; a slim one takes the newest checkpoint of its    *)
(* revision.                                                               *)
ReconstructState(b) ==
    LET states == OfType(b, "state")
        full == {i \in states : b[i].state.checkpoint # None}
        s == b[Latest(states)].state
        checkpoint == b[Latest(full)].state.checkpoint
    IN  IF states = {} THEN InitialState
        ELSE IF s.checkpoint = None /\ full # {} /\ checkpoint.revision = s.revision
        THEN [s EXCEPT !.checkpoint = checkpoint] ELSE s

ReconstructHistory(b) == {b[i].state.checkpoint : i \in OfType(b, "state")} \ {None}

ReconstructAnnotations(b) ==
    {b[i].note : i \in {j \in OfType(b, "annotation") :
        \A k \in OfType(b, "annotation") : k > j => b[k].note.id # b[j].note.id}}

RestoredSettings(b) ==
    IF mode # "clm" \/ OfType(b, "settings") = {} THEN "auto" ELSE b[Latest(OfType(b, "settings"))].value

-----------------------------------------------------------------------------
(* projection.ts                                                           *)

Prefix(checkpoint, messages) ==
    LET n == Len(checkpoint.source)
    IN  n <= Len(messages) /\ SubSeq(messages, 1, n) = checkpoint.source
Rest(messages, k) == SubSeq(messages, k + 1, Len(messages))

(* recoverProjectionFromRetryErrors: the raw messages with which the       *)
(* checkpoint matches again, when the failed answers after an older anchor *)
(* are passed over.                                                        *)
Cuts(checkpoint) ==
    LET stay == {m \in Range(raw) : ~IsPersistedRetryError(m)}
        anchors == {a.source : a \in {h \in checkpointHistory :
                        h.revision < checkpoint.revision /\ Prefix(h, raw)}} \cup {<<>>}
    IN  {k \in Len(checkpoint.source) + 1 .. Len(raw) :
            /\ raw[k] \in stay
            /\ \E a \in anchors :
                  a \o Kept(SubSeq(raw, Len(a) + 1, k), stay) = checkpoint.source}

Recovers(checkpoint) == checkpoint # None /\ Cuts(checkpoint) # {}

(* findHistoricalRecovery                                                  *)
HistoricalTarget ==
    LET targets == {h \in checkpointHistory : Recovers(h)}
    IN  IF live.checkpoint # None \/ live.outcome # "mismatch" \/ targets = {} THEN None
        ELSE CHOOSE t \in targets : \A u \in targets : u.revision <= t.revision

-----------------------------------------------------------------------------
(* context-document.ts                                                     *)

(* A document: its metadata line and its blocks.  Its nonce stands for the *)
(* messages themselves, or in CLM mode for what the revision was made of.  *)
Seed(checkpoint, messages) ==
    IF mode = "conservative" THEN messages
    ELSE IF checkpoint = None THEN <<>> ELSE checkpoint.source

Render(s, messages) ==
    [revision |-> s.revision, seed |-> Seed(s.checkpoint, messages), form |-> "headers",
     shown |-> messages, blocks |-> messages]

ProtectedIndexes(messages) ==
    LET users == {i \in DOMAIN messages : IsUser(messages[i])}
    IN  {i \in users : \A j \in users : i <= j} \cup {i \in users : \A j \in users : j <= i}

FirstUser(messages) ==
    {messages[i] : i \in {j \in DOMAIN messages : IsUser(messages[j]) /\
                            \A k \in 1..j - 1 : ~IsUser(messages[k])}}

(* applyContextDocument: the messages that the edit leaves, or None.       *)
ApplyContextDocument(doc, snapshot) ==
    LET messages == snapshot.blocks
        protected == IF mode = "clm" THEN {} ELSE {messages[i] : i \in ProtectedIndexes(messages)}
        candidate == Kept(messages, protected \cup Range(doc.blocks))
    IN  IF doc.form = "headerless" /\ mode = "clm" THEN Kept(messages, FirstUser(messages))
        ELSE IF \/ doc.form # "headers" \/ (doc.blocks = <<>> /\ mode = "clm")
                \/ doc.revision # snapshot.revision \/ doc.seed # snapshot.seed
                \/ ~(Range(doc.blocks) \subseteq Range(messages))
                \/ mode = "conservative" /\ Len(candidate) = Len(messages)
        THEN None ELSE candidate

-----------------------------------------------------------------------------
(* A task is on its way, in which an answer failed, was retried, and the   *)
(* next used tools; or a session is resumed whose projection was discarded *)
(* because of the failed answer, before there was a recovery.              *)
Retried == [m \in 1..3 |-> MessageEntry(m)]
Discarded ==
    LET checkpoint == [revision |-> 1, source |-> <<1, 3>>, projected |-> <<1>>, dropped |-> {3}]
        applied == [enabled |-> TRUE, revision |-> 1, checkpoint |-> checkpoint, outcome |-> "applied"]
    IN  Retried \o <<StateEntry(applied), StateEntry(ResetProjectionState(applied, "mismatch"))>>

Init ==
    /\ mode \in {"conservative", "clm"}
    /\ kind = <<"user", "failed", "assistant">>
    /\ \/ phase = "ready" /\ branch = Retried /\ raw = <<1, 3>>
       \/ phase = "idle" /\ branch = Discarded /\ raw = Rebuilt(branch)
    /\ live = ReconstructState(branch) /\ checkpointHistory = ReconstructHistory(branch)
    /\ starts = 1 /\ events = 0 /\ settings = "auto" /\ annotations = {}
    /\ lifecycleEpoch = 0 /\ store = 1 /\ turnBaseline = None /\ compactPending = None
    /\ mirror = None /\ seen = None /\ wrote = FALSE /\ end = None
    /\ sent = None

HasRoom == Len(branch) < MaxEntries
Event == events < MaxEvents /\ events' = events + 1

(* persist, persistOutcome: the entry is appended, then the state is live. *)
Persist(entry, s) ==
    /\ branch' = Append(branch, StateEntry(entry))
    /\ live' = s
    /\ checkpointHistory' = IF entry.checkpoint = None THEN checkpointHistory
                            ELSE {h \in checkpointHistory : h.revision # entry.revision} \cup {entry.checkpoint}

PersistFull(s) == Persist(s, s)
PersistOutcome(s) == Persist(ToOutcomeEntry(s), s)
NotPersisted == UNCHANGED <<branch, live, checkpointHistory>>

-----------------------------------------------------------------------------
(* Pi appends messages.                                                    *)

Says(k) ==
    /\ Cardinality({m \in DOMAIN kind : kind[m] # "summary"}) < MaxMessages /\ HasRoom
    /\ kind' = Append(kind, k)
    /\ branch' = Append(branch, MessageEntry(Len(kind')))
    /\ raw' = IF k = "failed" THEN raw ELSE Append(raw, Len(kind'))

(* A prompt, or a steering message between two turns.                      *)
UserMessage ==
    /\ phase \in {"idle", "ready"}
    /\ Says("user")
    /\ phase' = "ready"
    /\ UNCHANGED <<mode, starts, events, extension, document, sent>>

-----------------------------------------------------------------------------
(* context: the projection, the mirror and the request.                    *)

(* A recovered projection is made of the raw messages that there are now.  *)
Rebased(target) ==
    LET k == CHOOSE i \in Cuts(target) : \A j \in Cuts(target) : i <= j
        messages == target.projected \o Rest(raw, k)
        revision == live.revision + 1
    IN  [live EXCEPT !.revision = revision, !.outcome = "applied",
            !.checkpoint = [revision |-> revision, source |-> raw, projected |-> messages,
                            dropped |-> target.dropped \cup {m \in Range(raw) : IsPersistedRetryError(m)}]]

NextState ==
    CASE live.checkpoint # None /\ Prefix(live.checkpoint, raw) -> live
      [] live.checkpoint # None /\ ~Prefix(live.checkpoint, raw) /\ Recovers(live.checkpoint)
            -> Rebased(live.checkpoint)
      [] live.checkpoint # None /\ ~Prefix(live.checkpoint, raw) /\ ~Recovers(live.checkpoint)
            -> ResetProjectionState(live, IF Len(raw) < Len(live.checkpoint.source) THEN "reset" ELSE "mismatch")
      [] live.checkpoint = None /\ HistoricalTarget # None -> Rebased(HistoricalTarget)
      [] OTHER -> live

Effective(s) ==
    IF s.checkpoint = None THEN raw
    ELSE s.checkpoint.projected \o Rest(raw, Len(s.checkpoint.source))

Asks(said, dropped) == sent' = [said |-> said, dropped |-> dropped] /\ phase' = "answering"

Hook(saved, written) ==
    /\ phase = "ready"
    /\ IF ~live.enabled \/ store = 0
       THEN /\ turnBaseline' = None /\ Asks(raw, {})
            /\ NotPersisted /\ UNCHANGED mirror
       ELSE IF NextState # live /\ ~saved
       THEN Asks(raw, {}) /\ NotPersisted /\ UNCHANGED <<turnBaseline, mirror>>
       ELSE /\ IF NextState = live THEN NotPersisted ELSE HasRoom /\ PersistFull(NextState)
            /\ LET said == Effective(NextState)
                   doc == Render(NextState, said)
               IN  /\ Asks(said, IF NextState.checkpoint = None THEN {} ELSE NextState.checkpoint.dropped)
                   /\ mirror' = IF written THEN doc ELSE mirror
                   /\ turnBaseline' = IF written THEN [raw |-> raw, doc |-> doc] ELSE None
    /\ UNCHANGED <<mode, kind, raw, starts, events, settings, annotations, lifecycleEpoch, store,
                   compactPending, seen, wrote, end>>

-----------------------------------------------------------------------------
(* The model's tools.                                                      *)

ReadsMirror ==
    /\ phase = "answering" /\ mirror # None /\ seen # mirror
    /\ seen' = mirror
    /\ UNCHANGED <<mode, session, phase, starts, events, extension, mirror, wrote, end, sent>>

(* It writes the document it sees or the copy it has.  tool_call lets one  *)
(* write pass in a turn of the conservative mode.                          *)
WritesMirror(based, form, blocks) ==
    /\ phase = "answering" /\ mirror # None /\ store # 0
    /\ based # None /\ blocks \subseteq Range(based.blocks)
    /\ form # "headers" => blocks = {}
    /\ mode = "clm" \/ ~wrote
    /\ wrote' = TRUE
    /\ mirror' = [based EXCEPT !.form = form, !.blocks = Kept(@, blocks)]
    /\ UNCHANGED <<mode, session, phase, starts, events, extension, seen, end, sent>>

(* live_context_annotate: create, of a message of the branch, or resolve.  *)
Annotate ==
    /\ phase = "answering" /\ HasRoom /\ Event
    /\ LET notes == ReconstructAnnotations(branch)
           note == [id |-> Cardinality(notes) + 1, resolved |-> FALSE]
       IN  /\ OfType(branch, "message") # {}
           /\ branch' = Append(branch, NoteEntry(note))
           /\ annotations' = notes \cup {note}
    /\ UNCHANGED <<mode, kind, raw, phase, starts, live, checkpointHistory, settings, lifecycleEpoch,
                   store, turnBaseline, compactPending, document, sent>>

Resolve(n) ==
    /\ phase = "answering" /\ HasRoom /\ Event
    /\ n \in ReconstructAnnotations(branch) /\ ~n.resolved
    /\ LET note == [n EXCEPT !.resolved = TRUE]
       IN  /\ branch' = Append(branch, NoteEntry(note))
           /\ annotations' = (ReconstructAnnotations(branch) \ {n}) \cup {note}
    /\ UNCHANGED <<mode, kind, raw, phase, starts, live, checkpointHistory, settings, lifecycleEpoch,
                   store, turnBaseline, compactPending, document, sent>>

-----------------------------------------------------------------------------
(* The answer, and turn_end up to its read.                                *)
Answers(k) ==
    /\ phase = "answering"
    /\ Says(k)
    /\ phase' = "ending" /\ sent' = None /\ wrote' = FALSE
    /\ IF live.enabled /\ store # 0 /\ turnBaseline # None
       THEN /\ end' = [baseline |-> turnBaseline, epoch |-> lifecycleEpoch, store |-> store]
            /\ turnBaseline' = None
       ELSE end' = None /\ UNCHANGED turnBaseline
    /\ UNCHANGED <<mode, starts, events, live, checkpointHistory, settings, annotations,
                   lifecycleEpoch, store, compactPending, mirror, seen>>

(* A tree move, a reset or a shutdown during the read.                     *)
Discards(e) ==
    \/ e.epoch # lifecycleEpoch \/ e.store # store \/ ~live.enabled
    \/ e.baseline.doc.revision # live.revision

Accepted(messages) ==
    LET revision == live.revision + 1
        earlier == IF live.checkpoint = None THEN {} ELSE live.checkpoint.dropped
    IN  [live EXCEPT !.revision = revision, !.outcome = "applied",
            !.checkpoint = [revision |-> revision, source |-> end.baseline.raw, projected |-> messages,
                            dropped |-> earlier \cup (Range(mirror.shown) \ Range(messages))]]

(* The rest of turn_end; the file is read, or reading it fails.            *)
TurnEnd(read, saved) ==
    /\ phase = "ending" \/ (end # None /\ phase # "off")
    /\ phase' \in IF phase = "ending" THEN {"ready", "idle"} ELSE {phase}
    /\ IF end = None \/ ~read \/ mirror = None \/ ~saved
       THEN NotPersisted
       ELSE IF Discards(end) \/ mirror = end.baseline.doc
       THEN NotPersisted
       ELSE LET messages == ApplyContextDocument(mirror, end.baseline.doc)
            IN  /\ HasRoom
                /\ IF messages = None THEN PersistOutcome([live EXCEPT !.outcome = "rejected"])
                   ELSE PersistFull(Accepted(messages))
    /\ end' = None
    /\ UNCHANGED <<mode, kind, raw, starts, events, settings, annotations, lifecycleEpoch, store,
                   turnBaseline, compactPending, mirror, seen, wrote, sent>>

-----------------------------------------------------------------------------
(* Commands and events of the session, which may come while turn_end reads.*)

Interrupts == phase \in {"idle", "ending"}
Replaced == lifecycleEpoch' = lifecycleEpoch + 1 /\ turnBaseline' = None

Switch(enabled) ==
    /\ Interrupts /\ Event /\ HasRoom
    /\ PersistOutcome([live EXCEPT !.enabled = enabled])
    /\ IF enabled THEN UNCHANGED <<lifecycleEpoch, turnBaseline>> ELSE Replaced
    /\ UNCHANGED <<mode, kind, raw, phase, starts, settings, annotations, store, compactPending, document, sent>>

ResetProjection ==
    /\ Interrupts /\ Event /\ HasRoom
    /\ PersistFull(ResetProjectionState(live, "reset"))
    /\ Replaced
    /\ UNCHANGED <<mode, kind, raw, phase, starts, settings, annotations, store, compactPending, document, sent>>

(* Pi compacts between two runs.  session_before_compact cancels some;     *)
(* session_compact, whose append may fail, resets.                         *)
CancelsCompaction(reason, budgeted) ==
    /\ mode = "clm" /\ settings # "on" /\ reason # "manual"
    /\ settings = "off" \/ (reason = "threshold" /\ budgeted)

Compaction(reason, budgeted, saved) ==
    /\ phase = "idle" /\ Event /\ raw # <<>>
    /\ ~CancelsCompaction(reason, budgeted)
    /\ Len(branch) + 1 < MaxEntries
    /\ kind' = Append(kind, "summary")
    /\ raw' = <<Len(kind')>>
    /\ LET b == Append(branch, MessageEntry(Len(kind')))
           s == ResetProjectionState(live, "reset")
       IN  IF saved
           THEN branch' = Append(b, StateEntry(s)) /\ live' = s /\ Replaced
           ELSE branch' = b /\ UNCHANGED <<live, lifecycleEpoch, turnBaseline>>
    /\ UNCHANGED <<mode, phase, starts, checkpointHistory, settings, annotations, store, compactPending, document, sent>>

ChangeSetting(v) ==
    /\ mode = "clm" /\ Interrupts /\ Event /\ HasRoom /\ v # settings
    /\ branch' = Append(branch, SettingsEntry(v))
    /\ settings' = v
    /\ UNCHANGED <<mode, kind, raw, phase, starts, live, checkpointHistory, annotations, lifecycleEpoch,
                   store, turnBaseline, compactPending, document, sent>>

(* restore                                                                 *)
Restore(b) ==
    /\ live' = ReconstructState(b)
    /\ checkpointHistory' = ReconstructHistory(b)
    /\ annotations' = ReconstructAnnotations(b)
    /\ settings' = RestoredSettings(b)
    /\ Replaced

(* session_tree, to an earlier entry of the branch.                        *)
Tree(n) ==
    /\ Interrupts /\ Event /\ n < Len(branch)
    /\ branch' = SubSeq(branch, 1, n)
    /\ raw' = Rebuilt(branch')
    /\ Restore(branch')
    /\ phase' = "idle"
    /\ UNCHANGED <<mode, kind, starts, store, compactPending, document, sent>>

(* session_shutdown, and session_start of a resumed session.               *)
Shutdown ==
    /\ Interrupts
    /\ phase' = "off" /\ store' = 0 /\ Replaced
    /\ mirror' = None /\ seen' = None /\ compactPending' = None
    /\ UNCHANGED <<mode, session, starts, events, live, checkpointHistory, settings, annotations, wrote, end, sent>>

SessionStart(created) ==
    /\ phase = "off" /\ starts < MaxStarts
    /\ phase' = "idle" /\ starts' = starts + 1
    /\ raw' = Rebuilt(branch)
    /\ Restore(branch)
    /\ store' = IF created THEN starts' ELSE 0
    /\ UNCHANGED <<mode, kind, branch, events, compactPending, document, sent>>

(* /clm-compact, which waits until the agent is idle.                      *)
AskCompact ==
    /\ mode = "clm" /\ compactPending = None /\ phase # "off" /\ Event
    /\ compactPending' = lifecycleEpoch
    /\ UNCHANGED <<mode, session, phase, starts, live, checkpointHistory, settings, annotations,
                   lifecycleEpoch, store, turnBaseline, document, sent>>

SendCompact ==
    /\ compactPending # None /\ phase = "idle"
    /\ compactPending' = None
    /\ IF compactPending = lifecycleEpoch /\ live.enabled /\ store # 0 /\ raw # <<>>
       THEN Says("user") /\ phase' = "ready"
       ELSE UNCHANGED <<session, phase>>
    /\ UNCHANGED <<mode, starts, events, live, checkpointHistory, settings, annotations,
                   lifecycleEpoch, store, turnBaseline, document, sent>>

-----------------------------------------------------------------------------
Documents == {mirror, seen} \ {None}
Reasons == {"manual", "threshold", "overflow"}

Next ==
    \/ UserMessage \/ ReadsMirror \/ Annotate
    \/ \E a, b \in BOOLEAN : Hook(a, b) \/ TurnEnd(a, b)
    \/ \E d \in Documents, form \in {"headers", "headerless", "malformed"} :
          \E blocks \in SUBSET Range(d.blocks) : WritesMirror(d, form, blocks)
    \/ \E n \in annotations : Resolve(n)
    \/ \E k \in {"assistant", "failed"} : Answers(k)
    \/ \E b \in BOOLEAN : Switch(b) \/ SessionStart(b)
    \/ ResetProjection \/ Shutdown \/ AskCompact \/ SendCompact
    \/ \E r \in Reasons, a, b \in BOOLEAN : Compaction(r, a, b)
    \/ \E v \in {"auto", "on", "off"} : ChangeSetting(v)
    \/ \E n \in 0..MaxEntries : Tree(n)

Spec == Init /\ [][Next]_vars

-----------------------------------------------------------------------------
(* Properties.                                                             *)

(* Persist before activate: what is live is what a resume of the branch    *)
(* would restore, after any edit, rejection, reset, failed append or move  *)
(* in the tree.                                                            *)
ResumeRestoresState ==
    phase # "off" =>
        /\ live = ReconstructState(branch)
        /\ checkpointHistory = ReconstructHistory(branch)
        /\ annotations = ReconstructAnnotations(branch)
        /\ settings = RestoredSettings(branch)

(* A request never speaks of another branch or of what a compaction        *)
(* replaced: a projection is only sent for the prefix it was made from.    *)
NothingForeignIsSent == sent # None => Range(sent.said) \subseteq Range(raw)

(* In conservative mode the model loses no message that it did not itself  *)
(* delete from a document that showed it, failed answers apart.            *)
NothingUnseenIsDropped ==
    mode = "conservative" /\ sent # None => Range(raw) \ Range(sent.said) \subseteq sent.dropped

(* An edit that was read while the session moved to another branch, was    *)
(* reset or switched off is not made the context of what is there now.     *)
EditFitsItsBranch ==
    [][live'.outcome = "applied" /\ live'.checkpoint # live.checkpoint /\ end # None /\ end' = None
            => Prefix(live'.checkpoint, raw)]_vars
=============================================================================
