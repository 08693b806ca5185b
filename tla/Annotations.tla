------------------------------ MODULE Annotations ------------------------------
(***************************************************************************)
(* Live feedback between a Neovim and the bridge of a Pi session: what the *)
(* bridge answers (src/bridge.ts dispatch, src/submission.ts), and the     *)
(* Neovim that annotates, submits, retries and keeps a draft on disk       *)
(* (lua/pi_nvimotator init.lua, annotations.lua, draft.lua, client.lua).   *)
(* A request may be answered, lost, or carried out after the client gave   *)
(* up on it.                                                               *)
(*                                                                         *)
(* An annotation is a number that stands for its id and text; editing one  *)
(* gives it a new number.  A snapshot is named by its content.  Attaching, *)
(* with its request for the snapshot, is one step.  Drafts that cannot be  *)
(* written are left out, and so is rendering's clipboard.                  *)
(***************************************************************************)
EXTENDS Integers, FiniteSets

CONSTANTS
    MaxSnapshots,       \* bound on the contents exposed, numbered as they come
    MAX_CACHE_ENTRIES,  \* submissions a bridge remembers
    SnapshotsReturn,    \* may a snapshot be exposed again after another one?
    MaxInstances,       \* bound on the bridges started
    MaxTexts,           \* bound on the annotations written
    MaxSubmissions,     \* bound on the submission ids
    MaxAttachments      \* bound on the attachments

VARIABLES
    instance,   \* the number of the current bridge
    up,         \* is it running?
    snapshot,   \* what it exposes
    entries,    \* its SubmissionStore: [id, fingerprint, scheduled]
    sends,      \* history: the sequence of prompts given to Pi, as a count per id
    delivered,  \* history: the annotations in them
    phase, manifest, attached, store, pending, scheduled_submission, generation,
                \* `state` in init.lua: manifest is the identity in state.snapshot,
                \* attached is whether state.manifest is there
    drafts,     \* the draft files: identity, annotations, pending submission
    call,       \* the request whose callback has not run, or NoCall
    wire,       \* requests the bridge may still carry out
    wanted,     \* history: annotations the user wrote and took back nowhere
    texts, submissions

host == <<instance, up, snapshot, entries, sends, delivered>>
client == <<phase, manifest, attached, store, pending, scheduled_submission, generation, drafts>>
vars == <<host, client, call, wire, wanted, texts, submissions>>

NoPending == [id |-> 0, annotations |-> {}]
NoManifest == [instance |-> 0, snapshot |-> 0]
NoRequest == [type |-> "none", manifest |-> NoManifest, id |-> 0, annotations |-> {}]
NoCall == [request |-> NoRequest, reply |-> "none", generation |-> 0]

-----------------------------------------------------------------------------
(* Mutants: slips in the client and the store that the properties must     *)
(* notice.                                                                 *)

Scheduled_Never(id) == FALSE
Kept_None(submitted) == {}

-----------------------------------------------------------------------------
Init ==
    /\ instance = 1 /\ up = TRUE
    /\ snapshot = 1
    /\ entries = {}
    /\ sends = [id \in 1..MaxSubmissions |-> 0]
    /\ delivered = {}
    /\ phase = "detached" /\ manifest = NoManifest /\ attached = FALSE
    /\ store = {} /\ pending = NoPending /\ scheduled_submission = 0 /\ generation = 0
    /\ drafts = {}
    /\ call = NoCall /\ wire = {}
    /\ wanted = {} /\ texts = 0 /\ submissions = 0

-----------------------------------------------------------------------------
(* The bridge.                                                             *)

(* replaceSnapshot forgets the submissions of another snapshot.            *)
UpdateSnapshot(s) ==
    /\ up /\ s # snapshot
    /\ SnapshotsReturn \/ s > snapshot
    /\ snapshot' = s
    /\ entries' = {}
    /\ UNCHANGED <<instance, up, sends, delivered, client, call, wire, wanted, texts, submissions>>

BridgeStops ==
    /\ up
    /\ up' = FALSE
    /\ UNCHANGED <<instance, snapshot, entries, sends, delivered, client, call, wire, wanted, texts, submissions>>

BridgeStarts(s) ==
    /\ ~up /\ instance < MaxInstances
    /\ instance' = instance + 1
    /\ up' = TRUE
    /\ snapshot' = s
    /\ entries' = {}
    /\ UNCHANGED <<sends, delivered, client, call, wire, wanted, texts, submissions>>

Identified(r) == up /\ r.manifest = [instance |-> instance, snapshot |-> snapshot]
Remembers(es, id) == \E e \in es : e.id = id
Entry(id) == CHOOSE e \in entries : e.id = id

(* render: a submission is remembered by its id, unless the cache is full. *)
Renders(r) ==
    IF Remembers(entries, r.id)
    THEN Entry(r.id).fingerprint = r.annotations
    ELSE Cardinality(entries) < MAX_CACHE_ENTRIES

Recalled(r, scheduled) ==
    (entries \ {e \in entries : e.id = r.id})
        \cup {[id |-> r.id, fingerprint |-> r.annotations, scheduled |-> scheduled]}

Scheduled(id) == Remembers(entries, id) /\ Entry(id).scheduled

(* The answer reaches the client if it still waits for it.                 *)
Replies(r, answer) ==
    /\ wire' = wire \ {r}
    /\ call' = IF call.request = r /\ call.reply = "none" THEN [call EXCEPT !.reply = answer] ELSE call

Carried == <<client, wanted, texts, submissions>>

Refuses(r) ==
    /\ \/ ~Identified(r)
       \/ r.type \in {"render", "submit"} /\ ~Renders(r)
       \/ r.type = "finish" /\ ~Scheduled(r.id)
    /\ Replies(r, "error")
    /\ UNCHANGED <<host, Carried>>

Render(r) ==
    /\ Identified(r) /\ r.type = "render" /\ Renders(r)
    /\ entries' = Recalled(r, Scheduled(r.id))
    /\ Replies(r, "ok")
    /\ UNCHANGED <<instance, up, snapshot, sends, delivered, Carried>>

(* schedule hands the prompt to Pi, once; if that throws, the submission   *)
(* may be retried.                                                         *)
Submit(r) ==
    /\ Identified(r) /\ r.type = "submit" /\ Renders(r)
    /\ IF Scheduled(r.id)
       THEN Replies(r, "ok") /\ UNCHANGED <<entries, sends, delivered>>
       ELSE \/ /\ entries' = Recalled(r, TRUE)
               /\ sends' = [sends EXCEPT ![r.id] = @ + 1]
               /\ delivered' = delivered \cup r.annotations
               /\ Replies(r, "ok")
            \/ /\ entries' = Recalled(r, FALSE)
               /\ Replies(r, "error")
               /\ UNCHANGED <<sends, delivered>>
    /\ UNCHANGED <<instance, up, snapshot, Carried>>

FinishBridge(r) ==
    /\ Identified(r) /\ r.type = "finish" /\ Scheduled(r.id)
    /\ up' = FALSE
    /\ Replies(r, "ok")
    /\ UNCHANGED <<instance, snapshot, entries, sends, delivered, Carried>>

(* A connection that fails, or a frame that never arrives.                 *)
Lost(r) ==
    /\ wire' = wire \ {r}
    /\ UNCHANGED <<host, Carried, call>>

Handle(r) == Refuses(r) \/ Render(r) \/ Submit(r) \/ FinishBridge(r) \/ Lost(r)

-----------------------------------------------------------------------------
(* Drafts, one file per bridge and snapshot.                               *)

Draft(m) ==
    IF \E d \in drafts : d.manifest = m
    THEN CHOOSE d \in drafts : d.manifest = m
    ELSE [manifest |-> m, annotations |-> {}, pending |-> NoPending]

Without(m) == {d \in drafts : d.manifest # m}

(* The identity outlives the attachment: it is that of state.snapshot.     *)
Saved(m, annotations, p) ==
    Without(m) \cup {[manifest |-> m, annotations |-> annotations, pending |-> p]}

-----------------------------------------------------------------------------
(* The Neovim.                                                             *)

Ready == phase = "ready" /\ store # {}

(* A change of the annotations drops the pending submission and saves.     *)
Changes(annotations) ==
    /\ store' = annotations
    /\ pending' = NoPending
    /\ drafts' = Saved(manifest, annotations, NoPending)

(* attach: the locator is looked up in the registry; the annotations of    *)
(* the draft come back.  Callbacks of the attachment before are ignored.   *)
Attach ==
    /\ generation < MaxAttachments
    /\ generation' = generation + 1
    /\ IF up
       THEN LET m == [instance |-> instance, snapshot |-> snapshot]
            IN  /\ phase' = "ready"
                /\ manifest' = m /\ attached' = TRUE
                /\ store' = Draft(m).annotations
                /\ pending' = Draft(m).pending
                /\ scheduled_submission' = 0
       ELSE /\ phase' = "detached"
            /\ UNCHANGED <<manifest, attached, store, pending, scheduled_submission>>
    /\ UNCHANGED <<host, drafts, call, wire, wanted, texts, submissions>>

(* :NvimotatorCancel; a request under way is not cancelled.                *)
Cancel ==
    /\ attached
    /\ phase' = "detached"
    /\ attached' = FALSE
    /\ pending' = NoPending
    /\ scheduled_submission' = 0
    /\ UNCHANGED <<host, manifest, store, generation, drafts, call, wire, wanted, texts, submissions>>

Restart ==
    /\ manifest # NoManifest
    /\ phase' = "detached" /\ manifest' = NoManifest /\ attached' = FALSE
    /\ store' = {} /\ pending' = NoPending /\ scheduled_submission' = 0
    /\ call' = NoCall
    /\ UNCHANGED <<host, generation, drafts, wire, wanted, texts, submissions>>

Write ==
    /\ phase = "ready" /\ texts < MaxTexts
    /\ texts' = texts + 1
    /\ Changes(store \cup {texts'})
    /\ wanted' = wanted \cup {texts'}
    /\ UNCHANGED <<host, phase, manifest, attached, scheduled_submission, generation, call, wire, submissions>>

(* The editor of a comment does not look at the phase when it is saved.    *)
Edit(t) ==
    /\ manifest # NoManifest /\ texts < MaxTexts
    /\ t \in store
    /\ texts' = texts + 1
    /\ Changes((store \ {t}) \cup {texts'})
    /\ wanted' = (wanted \ {t}) \cup {texts'}
    /\ UNCHANGED <<host, phase, manifest, attached, scheduled_submission, generation, call, wire, submissions>>

Delete(t) ==
    /\ phase = "ready" /\ t \in store
    /\ Changes(store \ {t})
    /\ wanted' = wanted \ {t}
    /\ UNCHANGED <<host, phase, manifest, attached, scheduled_submission, generation, call, wire, texts, submissions>>

Clear ==
    /\ phase = "ready" /\ store # {}
    /\ store' = {} /\ pending' = NoPending
    /\ drafts' = Without(manifest)
    /\ wanted' = wanted \ store
    /\ UNCHANGED <<host, phase, manifest, attached, scheduled_submission, generation, call, wire, texts, submissions>>

(* bridge_request; without a manifest it throws, and the phase stays.      *)
SendsRequest(type, p) ==
    LET r == [type |-> type, manifest |-> manifest, id |-> p.id, annotations |-> p.annotations]
    IN  IF attached
        THEN /\ call' = [request |-> r, reply |-> "none", generation |-> generation]
             /\ wire' = wire \cup {r}
        ELSE UNCHANGED <<call, wire>>

(* frozen_submission: an unchanged set of annotations keeps its id.        *)
Frozen(p, annotations) == p # NoPending /\ p.annotations = annotations

Freezes(type) ==
    /\ Ready
    /\ phase' = type
    /\ IF Frozen(pending, store)
       THEN SendsRequest(type, pending) /\ UNCHANGED <<pending, drafts, submissions>>
       ELSE /\ submissions < MaxSubmissions
            /\ submissions' = submissions + 1
            /\ pending' = [id |-> submissions', annotations |-> store]
            /\ drafts' = Saved(manifest, store, pending')
            /\ SendsRequest(type, pending')
    /\ UNCHANGED <<host, manifest, attached, store, scheduled_submission, generation, wanted, texts>>

Send == Freezes("submit")
Export == Freezes("render")

(* Sending nothing once more asks the bridge to close.                     *)
FinishAgain ==
    /\ phase = "ready" /\ store = {} /\ scheduled_submission # 0
    /\ phase' = "finish"
    /\ SendsRequest("finish", [id |-> scheduled_submission, annotations |-> {}])
    /\ UNCHANGED <<host, manifest, attached, store, pending, scheduled_submission, generation, drafts, wanted, texts, submissions>>

(* The timer, or the end of the connection.                                *)
GivesUp ==
    /\ call # NoCall /\ call.reply = "none"
    /\ call' = [call EXCEPT !.reply = "error"]
    /\ UNCHANGED <<host, client, wire, wanted, texts, submissions>>

Mine == call.generation = generation
Answered(type, reply) == call # NoCall /\ call.request.type = type /\ call.reply = reply
around == <<host, manifest, attached, generation, wanted, texts, submissions>>

(* Nothing happens after another attachment; without a manifest an answer  *)
(* cannot be validated, and the callback ends there.                       *)
Ignored ==
    /\ call # NoCall /\ call.reply # "none"
    /\ ~Mine \/ (call.reply = "ok" /\ ~attached)
    /\ call' = NoCall
    /\ UNCHANGED <<host, client, wire, wanted, texts, submissions>>

SubmitFailed ==
    /\ Answered("submit", "error") /\ Mine
    /\ phase' = "ready"
    /\ drafts' = Saved(manifest, store, pending)
    /\ call' = NoCall
    /\ UNCHANGED <<around, store, pending, scheduled_submission, wire>>

(* remove_unchanged.                                                       *)
Kept(submitted) == store \ submitted

Submitted ==
    /\ Answered("submit", "ok") /\ Mine /\ attached
    /\ LET r == call.request
       IN  /\ pending' = NoPending
           /\ scheduled_submission' = r.id
           /\ store' = Kept(r.annotations)
           /\ IF store' = {}
              THEN /\ drafts' = Without(manifest)
                   /\ phase' = "finish"
                   /\ SendsRequest("finish", [id |-> r.id, annotations |-> {}])
              ELSE /\ drafts' = Saved(manifest, store', NoPending)
                   /\ phase' = "ready"
                   /\ call' = NoCall
                   /\ UNCHANGED wire
    /\ UNCHANGED around

Rendered ==
    /\ \/ Answered("render", "ok") /\ attached
       \/ Answered("render", "error")
    /\ Mine
    /\ phase' = "ready"
    /\ call' = NoCall
    /\ UNCHANGED <<around, store, pending, scheduled_submission, drafts, wire>>

FinishFailed ==
    /\ Answered("finish", "error") /\ Mine
    /\ phase' = "ready"
    /\ scheduled_submission' = call.request.id
    /\ call' = NoCall
    /\ UNCHANGED <<around, store, pending, drafts, wire>>

Finished ==
    /\ Answered("finish", "ok") /\ Mine /\ attached
    /\ phase' = "detached"
    /\ attached' = FALSE
    /\ scheduled_submission' = 0
    /\ drafts' = Without(manifest)
    /\ call' = NoCall
    /\ UNCHANGED <<host, manifest, store, pending, generation, wire, wanted, texts, submissions>>

Next ==
    \/ \E s \in 1..MaxSnapshots : UpdateSnapshot(s) \/ BridgeStarts(s)
    \/ BridgeStops
    \/ \E r \in wire : Handle(r)
    \/ Attach \/ Cancel \/ Restart \/ Write \/ Clear
    \/ \E t \in store : Edit(t) \/ Delete(t)
    \/ Send \/ Export \/ FinishAgain \/ GivesUp
    \/ Ignored \/ SubmitFailed \/ Submitted \/ Rendered \/ FinishFailed \/ Finished

Spec == Init /\ [][Next]_vars

-----------------------------------------------------------------------------
(* Properties.                                                             *)

(* A submission reaches the model once, however often its answer is lost,  *)
(* its request is repeated - also by a Neovim that was restarted - or      *)
(* comes late.                                                             *)
SubmittedOnce == \A id \in 1..MaxSubmissions : sends[id] <= 1

(* An annotation the user did not take back is on the screen, in a draft,  *)
(* or was given to Pi, through timeouts, edits under way, new snapshots    *)
(* and restarts of either side.                                            *)
NoAnnotationLost ==
    \A t \in wanted :
        \/ t \in store \cup delivered
        \/ \E d \in drafts : t \in d.annotations
=============================================================================
