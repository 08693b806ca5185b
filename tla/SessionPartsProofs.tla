--------------------------- MODULE SessionPartsProofs ---------------------------
(***************************************************************************)
(* Proofs about the feedback over a bridge (Annotations), for every number *)
(* of snapshots, texts, submissions, attachments and bridges:              *)
(*                                                                         *)
(* An annotation is on the screen, in a draft or with Pi.  KeepingInv says *)
(* that the draft of the present identity is what is on the screen, that   *)
(* an "ok" to a submission says that its annotations are with Pi, and that *)
(* a bridge is asked to close only by an empty screen.                     *)
(*                                                                         *)
(* A submission is sent once, if the bridge gives every content that it    *)
(* exposes an identity of its own.  OnceInv says that what may be sent     *)
(* again under the present identity and was sent is remembered, whatever   *)
(* else the bridge has forgotten.                                          *)
(*                                                                         *)
(* And about the run that a tool call hands over to its session            *)
(* (BackgroundRun), for every set of runs: it answers once, its panel goes *)
(* with it, and a call that is over is told nothing more.                  *)
(*                                                                         *)
(* And about the server-side compaction (NativeCompaction), for every      *)
(* number of messages, streams and compactions: nothing that was said is   *)
(* forgotten.  HistoryInv says that the paths of the tree agree, that what *)
(* was captured is whole up to the leaf it was captured at, and that a     *)
(* stream has, in its plan or by itself, all that was said when it started.*)
(***************************************************************************)
EXTENDS SessionParts, TLAPS, SequenceTheorems, NaturalsInduction, WellFoundedInduction

-----------------------------------------------------------------------------
(* Feedback over a bridge.                                                 *)

Manifests == [instance : Nat, snapshot : Nat]
Pendings == [id : Nat, annotations : SUBSET Nat]
RequestTypes == {"none", "render", "submit", "finish"}
FeedbackRequests == [type : RequestTypes, manifest : Manifests, id : Nat, annotations : SUBSET Nat]
Calls == [request : FeedbackRequests, reply : {"none", "ok", "error"}, generation : Nat]
Remembered == [id : Nat, fingerprint : SUBSET Nat, scheduled : BOOLEAN]
Drafts == [manifest : Manifests, annotations : SUBSET Nat, pending : Pendings]

HostTypes ==
    /\ instance \in Nat \ {0} /\ answering \in BOOLEAN /\ snapshot \in Nat
    /\ entries \in SUBSET Remembered
    /\ sends \in [1..MaxSubmissions -> Nat] /\ delivered \in SUBSET Nat
ScreenTypes ==
    /\ manifest \in Manifests /\ attached \in BOOLEAN /\ store \in SUBSET Nat
    /\ pending \in Pendings /\ scheduled_submission \in Nat
DraftTypes ==
    /\ drafts \in SUBSET Drafts
    /\ wanted \in SUBSET Nat /\ texts \in Nat /\ submissions \in 0..MaxSubmissions
WireTypes == call \in Calls /\ wire \in SUBSET FeedbackRequests /\ generation \in Nat
FeedbackTypes == HostTypes /\ ScreenTypes /\ DraftTypes /\ WireTypes

(* A submission is remembered once, and as scheduled only when Pi has it.  *)
EntriesAreTrue ==
    /\ \A e, f \in entries : e.id = f.id => e = f
    /\ \A e \in entries : e.scheduled => e.fingerprint \subseteq delivered

(* Nothing is asked without an identity, an answer tells the truth, and    *)
(* the bridge is asked to close when nothing is left on the screen.        *)
CallsAreTrue ==
    /\ phase = "ready" \/ attached \/ call # A!NoCall => manifest # A!NoManifest
    /\ \A r \in wire : r.type # "none"
    /\ call.generation <= generation
    /\ call.request.type = "submit" /\ call.reply = "ok" => call.request.annotations \subseteq delivered
    /\ call.request.type = "finish" /\ call.generation = generation => store = {} /\ phase # "ready"

(* What is on the screen is in the draft of its snapshot, and nothing else.*)
DraftIsScreen ==
    /\ \A d, e \in drafts : d.manifest = e.manifest => d = e
    /\ \A d \in drafts : d.manifest # A!NoManifest
    /\ \A d \in drafts : d.manifest = manifest => d.annotations = store
    /\ store # {} => \E d \in drafts : d.manifest = manifest

KeepingInv ==
    FeedbackTypes /\ EntriesAreTrue /\ CallsAreTrue /\ DraftIsScreen /\ A!NoAnnotationLost

(* The bridge gives every content it exposes an identity of its own.       *)
SnapshotsAreNew == SnapshotsReturn = FALSE

Here == [instance |-> instance, snapshot |-> snapshot]
Seen(m) == m.instance < instance \/ (m.instance = instance /\ m.snapshot <= snapshot)
Known(i) == \E e \in entries : e.id = i /\ e.scheduled

(* Under the identity m the submission i may be sent again: if it is the   *)
(* present one and Pi has the submission, then the bridge remembers it.    *)
Fits(m, i) ==
    /\ Seen(m) /\ i \in 0..submissions
    /\ m = Here /\ i # 0 => (sends[i] > 0 => Known(i))

OnceInv ==
    /\ Fits(manifest, pending.id)
    /\ \A d \in drafts : Fits(d.manifest, d.pending.id)
    /\ \A r \in wire : r.type \in {"render", "submit"} => Fits(r.manifest, r.id)
    /\ \A i \in 1..MaxSubmissions : sends[i] > 0 => i <= submissions
    /\ A!SubmittedOnce

(* A counter that goes up stays a counter, whatever is counted.            *)
LEMMA OneMoreSent ==
  ASSUME NEW T, NEW f \in [T -> Nat], NEW i
  PROVE  [f EXCEPT ![i] = @ + 1] \in [T -> Nat]
<1>1. CASE i \in T
  <2>1. f[i] + 1 \in Nat
    BY <1>1
  <2> QED BY <2>1
<1>2. CASE i \notin T
  BY <1>2, Zenon
<1> QED BY <1>1, <1>2

(* The types of the bridge, the Neovim, its drafts and the calls.          *)
LEMMA FeedbackTypeStep ==
  ASSUME SessionPartsAssumption, FeedbackTypes, [A!Next]_(A!vars)
  PROVE  FeedbackTypes'
<1> USE DEF FeedbackTypes, HostTypes, ScreenTypes, DraftTypes, WireTypes, SessionPartsAssumption
<1>1. ASSUME NEW s \in 1..MaxSnapshots, A!UpdateSnapshot(s) \/ A!BridgeStarts(s) PROVE FeedbackTypes'
  <2>1. s \in Nat /\ entries' = {} /\ snapshot' = s /\ answering' \in BOOLEAN
    <3>1. s \in Nat
      OBVIOUS
    <3>2. CASE A!UpdateSnapshot(s)
      BY <3>1, <3>2 DEF A!UpdateSnapshot
    <3>3. CASE A!BridgeStarts(s)
      BY <3>1, <3>3 DEF A!BridgeStarts
    <3> QED BY <1>1, <3>2, <3>3
  <2>4. instance' = instance \/ instance' = instance + 1
    BY <1>1 DEF A!UpdateSnapshot, A!BridgeStarts
  <2>5. instance' \in Nat \ {0}
    BY <2>4
  <2>2. UNCHANGED <<sends, delivered, A!client, call, wire, wanted, texts, submissions>>
    BY <1>1 DEF A!UpdateSnapshot, A!BridgeStarts
  <2>3. HostTypes'
    BY <2>1, <2>2, <2>5
  <2> QED BY <2>2, <2>3 DEF A!client
<1>2. CASE A!BridgeStops
  BY <1>2 DEF A!BridgeStops, A!client
<1>3. ASSUME NEW r \in wire, A!Handle(r) PROVE FeedbackTypes'
  <2>1. ASSUME NEW answer \in {"ok", "error"}, A!Replies(r, answer)
        PROVE  /\ wire' \in SUBSET FeedbackRequests
               /\ call' \in Calls
    BY <2>1 DEF A!Replies, Calls
  <2>2. ASSUME NEW b \in BOOLEAN
        PROVE  A!Recalled(r, b) \in SUBSET Remembered
    BY DEF A!Recalled, FeedbackRequests, Remembered
  <2>3. A!Scheduled(r.id) \in BOOLEAN
    BY DEF A!Scheduled, A!Remembers, A!Entry
  <2>4. CASE A!Refuses(r)
    BY <2>1, <2>4 DEF A!Refuses, A!Carried, A!client, A!host
  <2>5. CASE A!Render(r)
    BY <2>1, <2>2, <2>3, <2>5 DEF A!Render, A!Carried, A!client
  <2>6. CASE A!Submit(r)
    <3>1. r.annotations \in SUBSET Nat /\ r.id \in Nat
      BY DEF FeedbackRequests
    <3>2. sends' \in [1..MaxSubmissions -> Nat] /\ delivered' \in SUBSET Nat
      <4>1. CASE sends' = sends /\ delivered' = delivered
        BY <4>1
      <4>2. CASE sends' = [sends EXCEPT ![r.id] = @ + 1] /\ delivered' = delivered \cup r.annotations
        <5>1. sends' \in [1..MaxSubmissions -> Nat]
          BY <4>2, OneMoreSent
        <5> QED BY <3>1, <4>2, <5>1
      <4> QED BY <2>6, <4>1, <4>2 DEF A!Submit
    <3>3. entries' \in SUBSET Remembered
      BY <2>2, <2>6 DEF A!Submit
    <3> QED BY <2>1, <2>6, <3>2, <3>3 DEF A!Submit, A!Carried, A!client
  <2>7. CASE A!FinishBridge(r)
    BY <2>1, <2>7 DEF A!FinishBridge, A!Carried, A!client
  <2>8. CASE A!Lost(r)
    BY <2>8 DEF A!Lost, A!Carried, A!client, A!host
  <2> QED BY <1>3, <2>4, <2>5, <2>6, <2>7, <2>8 DEF A!Handle
<1>4. ASSUME NEW m \in Manifests, NEW a \in SUBSET Nat, NEW p \in Pendings
      PROVE  A!Saved(m, a, p) \in SUBSET Drafts
  <2>1. [manifest |-> m, annotations |-> a, pending |-> p] \in Drafts
    BY DEF Drafts
  <2>2. A!Without(m) \in SUBSET Drafts
    BY DEF A!Without
  <2> QED BY <2>1, <2>2 DEF A!Saved
<1>5. ASSUME NEW type \in {"render", "submit", "finish"}, NEW p \in Pendings, A!SendsRequest(type, p)
      PROVE  /\ call' \in Calls
             /\ wire' \in SUBSET FeedbackRequests
  BY <1>5 DEF A!SendsRequest, Calls, FeedbackRequests, RequestTypes, Pendings
<1>6. A!NoPending \in Pendings /\ A!NoManifest \in Manifests
      /\ A!NoCall \in Calls
  BY DEF A!NoPending, A!NoManifest, A!NoCall, A!NoRequest, Calls, Pendings, Manifests, FeedbackRequests, RequestTypes
<1>7. ASSUME NEW m \in Manifests
      PROVE  A!Draft(m).annotations \in SUBSET Nat /\ A!Draft(m).pending \in Pendings
  BY <1>6 DEF A!Draft, Drafts
<1>8. CASE A!Attach
  <2>1. [instance |-> instance, snapshot |-> snapshot] \in Manifests
    BY DEF Manifests
  <2>2. CASE answering
    BY <1>7, <1>8, <2>1, <2>2 DEF A!Attach, A!host
  <2>3. CASE ~answering
    <3>1. generation' \in Nat /\ UNCHANGED <<A!host, manifest, attached, store, pending, scheduled_submission>>
      BY <1>8, <2>3 DEF A!Attach
    <3>2. UNCHANGED <<drafts, call, wire, wanted, texts, submissions>>
      BY <1>8 DEF A!Attach
    <3> QED BY <3>1, <3>2 DEF A!host
  <2> QED BY <2>2, <2>3
<1>9. CASE A!Cancel
  BY <1>6, <1>9 DEF A!Cancel, A!host
<1>10. CASE A!Restart
  BY <1>6, <1>10 DEF A!Restart, A!host
<1>11. ASSUME NEW s \in SUBSET Nat, A!Changes(s)
       PROVE  /\ store' \in SUBSET Nat /\ pending' \in Pendings
              /\ drafts' \in SUBSET Drafts
  BY <1>4, <1>6, <1>11 DEF A!Changes
<1>12. CASE A!Write
  <2>1. store \cup {texts'} \in SUBSET Nat
    BY <1>12 DEF A!Write
  <2>2. A!Changes(store \cup {texts'}) /\ wanted' \in SUBSET Nat /\ texts' \in Nat
    BY <1>12 DEF A!Write
  <2> QED BY <1>11, <1>12, <2>1, <2>2 DEF A!Write, A!host
<1>13. ASSUME NEW t \in store, A!Edit(t) PROVE FeedbackTypes'
  <2>1. (store \ {t}) \cup {texts'} \in SUBSET Nat
    BY <1>13 DEF A!Edit
  <2>2. A!Changes((store \ {t}) \cup {texts'}) /\ wanted' \in SUBSET Nat /\ texts' \in Nat
    BY <1>13 DEF A!Edit
  <2> QED BY <1>11, <1>13, <2>1, <2>2 DEF A!Edit, A!host
<1>14. ASSUME NEW t \in store, A!Delete(t) PROVE FeedbackTypes'
  <2>1. A!Changes(store \ {t}) /\ wanted' \in SUBSET Nat
    BY <1>14 DEF A!Delete
  <2> QED BY <1>11, <1>14, <2>1 DEF A!Delete, A!host
<1>15. CASE A!Clear
  BY <1>6, <1>15 DEF A!Clear, A!host, A!Without
<1>16. ASSUME NEW type \in {"render", "submit"}, A!Freezes(type) PROVE FeedbackTypes'
  <2>1. CASE A!Frozen(pending, store)
    BY <1>5, <1>16, <2>1 DEF A!Freezes, A!host
  <2>2. CASE ~A!Frozen(pending, store)
    <3>4. /\ submissions < MaxSubmissions /\ submissions' = submissions + 1
          /\ pending' = [id |-> submissions', annotations |-> store]
      BY <1>16, <2>2 DEF A!Freezes
    <3>5. submissions' \in Nat /\ submissions' \in 0..MaxSubmissions
      BY <3>4
    <3>1. submissions' \in 0..MaxSubmissions /\ pending' \in Pendings
      BY <3>4, <3>5 DEF Pendings
    <3>2. drafts' \in SUBSET Drafts
      BY <1>4, <1>16, <2>2, <3>1 DEF A!Freezes
    <3>3. A!SendsRequest(type, pending')
      BY <1>16, <2>2 DEF A!Freezes
    <3> QED BY <1>5, <1>16, <3>1, <3>2, <3>3 DEF A!Freezes, A!host
  <2> QED BY <2>1, <2>2
<1>17. CASE A!FinishAgain
  <2>1. [id |-> scheduled_submission, annotations |-> {}] \in Pendings
    BY DEF Pendings
  <2> QED BY <1>5, <1>17, <2>1 DEF A!FinishAgain, A!host
<1>18. CASE A!GivesUp
  BY <1>18 DEF A!GivesUp, A!host, A!client, Calls
<1>19. CASE A!Ignored
  BY <1>6, <1>19 DEF A!Ignored, A!host, A!client
<1>20. CASE A!SubmitFailed
  BY <1>4, <1>6, <1>20 DEF A!SubmitFailed, A!around, A!host
<1>21. CASE A!Submitted
  <2> DEFINE r == call.request
  <2>1. r \in FeedbackRequests /\ [id |-> r.id, annotations |-> {}] \in Pendings
    BY DEF Pendings, FeedbackRequests, Calls
  <2>2. store' \in SUBSET Nat /\ scheduled_submission' \in Nat /\ pending' \in Pendings
    BY <1>6, <1>21, <2>1 DEF A!Submitted, A!Kept, FeedbackRequests
  <2>3. CASE store' = {}
    BY <1>5, <1>21, <2>1, <2>2, <2>3 DEF A!Submitted, A!around, A!host, A!Without
  <2>4. CASE store' # {}
    <3>1. drafts' = A!Saved(manifest, store', A!NoPending) /\ call' = A!NoCall
      BY <1>21, <2>4 DEF A!Submitted
    <3>2. drafts' \in SUBSET Drafts
      BY <1>4, <1>6, <2>2, <3>1
    <3> QED BY <1>6, <1>21, <2>2, <2>4, <3>1, <3>2 DEF A!Submitted, A!around, A!host
  <2> QED BY <2>3, <2>4
<1>22. CASE A!Rendered
  BY <1>6, <1>22 DEF A!Rendered, A!around, A!host
<1>23. CASE A!FinishFailed
  BY <1>6, <1>23 DEF A!FinishFailed, A!around, A!host, FeedbackRequests, Calls
<1>24. CASE A!Finished
  BY <1>6, <1>24 DEF A!Finished, A!host, A!Without
<1>25. CASE UNCHANGED A!vars
  BY <1>25 DEF A!vars, A!host, A!client
<1> QED BY <1>1, <1>2, <1>3, <1>8, <1>9, <1>10, <1>12, <1>13, <1>14, <1>15, <1>16, <1>17, <1>18, <1>19, <1>20, <1>21,
           <1>22, <1>23, <1>24, <1>25 DEF A!Next, A!Send, A!Export

(* The submissions the bridge remembers.                                   *)
LEMMA EntryOf ==
  ASSUME EntriesAreTrue, NEW i, A!Remembers(entries, i)
  PROVE  /\ A!Entry(i) \in entries /\ A!Entry(i).id = i
         /\ \A e \in entries : e.id = i => e = A!Entry(i)
<1>1. PICK e \in entries : e.id = i
  BY DEF A!Remembers
<1>2. A!Entry(i) \in entries /\ A!Entry(i).id = i
  BY <1>1 DEF A!Entry
<1> QED BY <1>2 DEF EntriesAreTrue

(* What the bridge says of a submission is what it remembers.              *)
LEMMA ScheduledIsKnown ==
  ASSUME EntriesAreTrue, NEW i
  PROVE  A!Scheduled(i) <=> Known(i)
<1>1. CASE A!Remembers(entries, i)
  BY <1>1, EntryOf DEF A!Scheduled, Known
<1>2. CASE ~A!Remembers(entries, i)
  BY <1>2 DEF A!Scheduled, Known, A!Remembers
<1> QED BY <1>1, <1>2

(* Remembering a request (bridge.ts, the cache and its pruning).           *)
LEMMA RecalledIsTrue ==
  ASSUME EntriesAreTrue, NEW r, NEW b \in BOOLEAN, entries' = A!Recalled(r, b),
         delivered \subseteq delivered', b => r.annotations \subseteq delivered'
  PROVE  EntriesAreTrue'
<1> DEFINE new == [id |-> r.id, fingerprint |-> r.annotations, scheduled |-> b]
           old == {e \in entries : e.id # r.id}
<1>1. entries' = old \cup {new}
  BY DEF A!Recalled
<1>2. new.id = r.id /\ new.fingerprint = r.annotations /\ new.scheduled = b
  OBVIOUS
<1> HIDE DEF new
<1>3. ASSUME NEW e \in entries', NEW f \in entries', e.id = f.id PROVE e = f
  BY <1>1, <1>2, <1>3 DEF EntriesAreTrue
<1>4. ASSUME NEW e \in entries', e.scheduled PROVE e.fingerprint \subseteq delivered'
  <2>1. CASE e = new
    BY <1>2, <1>4, <2>1
  <2>2. CASE e \in old
    BY <1>4, <2>2 DEF EntriesAreTrue
  <2> QED BY <1>1, <2>1, <2>2
<1> QED BY <1>3, <1>4 DEF EntriesAreTrue

(* What a request that is answered "ok" says is with Pi.                   *)
LEMMA ReplyIsTrue ==
  ASSUME FeedbackTypes, CallsAreTrue, NEW r \in wire, NEW answer \in {"ok", "error"}, A!Replies(r, answer),
         delivered \subseteq delivered', UNCHANGED A!client,
         r.type = "submit" /\ answer = "ok" => r.annotations \subseteq delivered'
  PROVE  CallsAreTrue'
<1>1. UNCHANGED <<phase, attached, manifest, generation, store>>
  BY DEF A!client
<1>4. \A s \in wire' : s.type # "none"
  BY DEF A!Replies, CallsAreTrue
<1>2. CASE call' = call
  BY <1>1, <1>2, <1>4 DEF CallsAreTrue
<1>3. CASE call' # call
  <2>1. call.request = r /\ call.reply = "none" /\ call' = [call EXCEPT !.reply = answer]
    BY <1>3 DEF A!Replies
  <2>2. call \in Calls
    BY DEF FeedbackTypes, WireTypes
  <2>3. call'.request = call.request /\ call'.generation = call.generation /\ call'.reply = answer
    BY <2>1, <2>2 DEF Calls
  <2>4. call # A!NoCall
    <3> SUFFICES ASSUME call = A!NoCall PROVE FALSE
      OBVIOUS
    <3> QED BY <2>1 DEF A!NoCall, A!NoRequest, CallsAreTrue
  <2> QED BY <1>1, <1>4, <2>1, <2>3, <2>4 DEF CallsAreTrue
<1> QED BY <1>2, <1>3

(* Whatever the bridge does about a request.                               *)
LEMMA HandleKeeps ==
  ASSUME KeepingInv, NEW r \in wire, A!Handle(r)
  PROVE  EntriesAreTrue' /\ CallsAreTrue' /\ delivered \subseteq delivered' /\ UNCHANGED A!Carried
<1> USE DEF KeepingInv
<1>1. UNCHANGED A!Carried /\ UNCHANGED A!client
  BY DEF A!Handle, A!Refuses, A!Render, A!Submit, A!FinishBridge, A!Lost, A!Carried
<1>2. CASE A!Refuses(r)
  <2>1. A!Replies(r, "error") /\ UNCHANGED <<entries, delivered>>
    BY <1>2 DEF A!Refuses, A!host
  <2>2. CallsAreTrue'
    BY <1>1, <2>1, ReplyIsTrue
  <2> QED BY <1>1, <2>1, <2>2 DEF EntriesAreTrue
<1>3. CASE A!Render(r)
  <2>1. A!Replies(r, "ok") /\ r.type = "render" /\ delivered' = delivered
    BY <1>3 DEF A!Render
  <2>2. CallsAreTrue'
    BY <1>1, <2>1, ReplyIsTrue
  <2>3. A!Scheduled(r.id) \in BOOLEAN
    BY DEF A!Scheduled, A!Remembers, A!Entry
  <2>4. ASSUME A!Scheduled(r.id) PROVE r.annotations \subseteq delivered'
    BY <1>3, <2>1, <2>4, EntryOf DEF A!Render, A!Renders, A!Scheduled, EntriesAreTrue
  <2>5. entries' = A!Recalled(r, A!Scheduled(r.id))
    BY <1>3 DEF A!Render
  <2>6. EntriesAreTrue'
    BY <2>1, <2>3, <2>4, <2>5, RecalledIsTrue
  <2> QED BY <1>1, <2>1, <2>2, <2>6
<1>4. CASE A!Submit(r)
  <2>1. CASE A!Scheduled(r.id)
    <3>1. A!Replies(r, "ok") /\ UNCHANGED <<entries, delivered>>
      BY <1>4, <2>1 DEF A!Submit
    <3>2. r.annotations \subseteq delivered'
      BY <1>4, <2>1, <3>1, EntryOf DEF A!Submit, A!Renders, A!Scheduled, EntriesAreTrue
    <3>3. CallsAreTrue'
      BY <1>1, <3>1, <3>2, ReplyIsTrue
    <3> QED BY <1>1, <3>1, <3>3 DEF EntriesAreTrue
  <2>2. CASE ~A!Scheduled(r.id) /\ A!Replies(r, "ok") /\ entries' = A!Recalled(r, TRUE)
             /\ delivered' = delivered \cup r.annotations
    <3>1. CallsAreTrue'
      BY <1>1, <2>2, ReplyIsTrue
    <3>2. EntriesAreTrue'
      BY <2>2, RecalledIsTrue
    <3> QED BY <1>1, <2>2, <3>1, <3>2
  <2>3. CASE ~A!Scheduled(r.id) /\ A!Replies(r, "error") /\ entries' = A!Recalled(r, FALSE)
             /\ UNCHANGED <<sends, delivered>>
    <3>1. CallsAreTrue'
      BY <1>1, <2>3, ReplyIsTrue
    <3>2. EntriesAreTrue'
      BY <2>3, RecalledIsTrue
    <3> QED BY <1>1, <2>3, <3>1, <3>2
  <2> QED BY <1>4, <2>1, <2>2, <2>3 DEF A!Submit
<1>5. CASE A!FinishBridge(r)
  <2>1. A!Replies(r, "ok") /\ r.type = "finish" /\ UNCHANGED <<entries, delivered>>
    BY <1>5 DEF A!FinishBridge
  <2>2. CallsAreTrue'
    BY <1>1, <2>1, ReplyIsTrue
  <2> QED BY <1>1, <2>1, <2>2 DEF EntriesAreTrue
<1>6. CASE A!Lost(r)
  <2>1. UNCHANGED <<entries, delivered, call>> /\ wire' \subseteq wire
    BY <1>6 DEF A!Lost, A!host
  <2>2. EntriesAreTrue' /\ delivered \subseteq delivered'
    BY <2>1 DEF EntriesAreTrue
  <2>3. CallsAreTrue'
    BY <1>1, <2>1 DEF CallsAreTrue, A!client
  <2> QED BY <1>1, <2>2, <2>3
<1> QED BY <1>2, <1>3, <1>4, <1>5, <1>6 DEF A!Handle

-----------------------------------------------------------------------------
(* The drafts of the Neovim.                                               *)

(* What is in the draft of the present identity is on the screen, so an    *)
(* annotation that is not, and was not delivered, is in another draft.     *)
LEMMA KeptElsewhere ==
  ASSUME KeepingInv, NEW t \in wanted, t \notin store \cup delivered
  PROVE  \E d \in A!Without(manifest) : t \in d.annotations
<1>1. PICK d \in drafts : t \in d.annotations
  BY DEF KeepingInv, A!NoAnnotationLost
<1>2. d.manifest # manifest
  BY <1>1 DEF KeepingInv, DraftIsScreen
<1> QED BY <1>1, <1>2 DEF A!Without

(* A step that leaves the other drafts alone loses nothing if what it      *)
(* takes from the screen was delivered or taken back.                      *)
LEMMA NothingLost ==
  ASSUME KeepingInv, A!Without(manifest) \subseteq drafts', delivered \subseteq delivered',
         \A t \in wanted' : \/ t \in store' \cup delivered'
                            \/ t \in wanted /\ t \notin store
  PROVE  A!NoAnnotationLost'
<1>1. ASSUME NEW t \in wanted'
      PROVE  t \in store' \cup delivered' \/ \E d \in drafts' : t \in d.annotations
  <2>1. CASE t \in store' \cup delivered'
    BY <2>1
  <2>2. CASE t \in wanted /\ t \notin store /\ t \notin store' \cup delivered'
    BY <2>2, KeptElsewhere
  <2> QED BY <2>1, <2>2
<1> QED BY <1>1 DEF A!NoAnnotationLost

(* A draft that is saved is what is on the screen.                         *)
LEMMA SavedFits ==
  ASSUME DraftIsScreen, manifest # A!NoManifest, NEW p, manifest' = manifest,
         drafts' = A!Saved(manifest, store', p)
  PROVE  DraftIsScreen' /\ A!Without(manifest) \subseteq drafts'
<1> DEFINE new == [manifest |-> manifest, annotations |-> store', pending |-> p]
<1>1. drafts' = A!Without(manifest) \cup {new}
  BY DEF A!Saved
<1>2. new.manifest = manifest /\ new.annotations = store'
  OBVIOUS
<1> HIDE DEF new
<1>3. \A d \in A!Without(manifest) : d \in drafts /\ d.manifest # manifest
  BY DEF A!Without
<1> QED BY <1>1, <1>2, <1>3 DEF DraftIsScreen

(* A draft that is removed leaves an empty screen.                         *)
LEMMA RemovedFits ==
  ASSUME DraftIsScreen, manifest' = manifest, drafts' = A!Without(manifest), store' = {}
  PROVE  DraftIsScreen'
BY DEF DraftIsScreen, A!Without

(* The draft of an identity, or none.                                      *)
LEMMA DraftOf ==
  ASSUME DraftIsScreen, NEW m
  PROVE  \/ A!Draft(m) \in drafts /\ A!Draft(m).manifest = m
         \/ /\ \A d \in drafts : d.manifest # m
            /\ A!Draft(m) = [manifest |-> m, annotations |-> {}, pending |-> A!NoPending]
<1>1. CASE \E d \in drafts : d.manifest = m
  BY <1>1 DEF A!Draft
<1>2. CASE ~\E d \in drafts : d.manifest = m
  BY <1>2 DEF A!Draft
<1> QED BY <1>1, <1>2

(* A request that is sent is the call under way, or nothing is sent.       *)
LEMMA RequestSent ==
  ASSUME NEW type, NEW p, A!SendsRequest(type, p)
  PROVE  \/ attached = FALSE /\ UNCHANGED <<call, wire>>
         \/ \E r : /\ r.type = type /\ r.manifest = manifest /\ r.id = p.id
                   /\ call' = [request |-> r, reply |-> "none", generation |-> generation]
                   /\ wire' = wire \cup {r} /\ attached
BY DEF A!SendsRequest

ScreenInv == CallsAreTrue /\ DraftIsScreen /\ A!NoAnnotationLost

(* Attaching shows the draft of the identity that answers (init.lua).      *)
LEMMA AttachKeeps == ASSUME KeepingInv, A!Attach PROVE ScreenInv'
<1> USE DEF KeepingInv
<1>1. /\ generation' = generation + 1 /\ generation \in Nat /\ call.generation \in Nat
      /\ UNCHANGED <<delivered, drafts, call, wire, wanted>>
  BY DEF A!Attach, A!host, FeedbackTypes, WireTypes, Calls
<1>2. CASE answering
  <2>1. /\ phase' = "ready" /\ manifest' = Here
        /\ store' = A!Draft(Here).annotations
    BY <1>2 DEF A!Attach, Here
  <2>2. Here # A!NoManifest
    BY DEF Here, A!NoManifest, FeedbackTypes, HostTypes
  <2>3. CallsAreTrue'
    BY <1>1, <2>1, <2>2 DEF CallsAreTrue
  <2>4. DraftIsScreen'
    BY <1>1, <2>1, DraftOf DEF DraftIsScreen
  <2>5. ASSUME NEW t \in wanted PROVE t \in delivered \/ \E d \in drafts : t \in d.annotations
    BY <2>5 DEF A!NoAnnotationLost, DraftIsScreen
  <2>6. A!NoAnnotationLost'
    BY <1>1, <2>5 DEF A!NoAnnotationLost
  <2> QED BY <2>3, <2>4, <2>6 DEF ScreenInv
<1>3. CASE ~answering
  <2>1. phase' = "detached" /\ UNCHANGED <<manifest, attached, store>>
    BY <1>3 DEF A!Attach
  <2>2. CallsAreTrue'
    BY <1>1, <2>1 DEF CallsAreTrue
  <2> QED BY <1>1, <2>1, <2>2 DEF ScreenInv, DraftIsScreen, A!NoAnnotationLost
<1> QED BY <1>2, <1>3

(* Cancelling and restarting leave the drafts where they are.              *)
LEMMA LeavingKeeps == ASSUME KeepingInv, A!Cancel \/ A!Restart PROVE ScreenInv'
<1> USE DEF KeepingInv
<1>1. CASE A!Cancel
  BY <1>1 DEF A!Cancel, A!host, ScreenInv, CallsAreTrue, DraftIsScreen, A!NoAnnotationLost
<1>2. CASE A!Restart
  <2>1. /\ phase' = "detached" /\ manifest' = A!NoManifest /\ attached' = FALSE
        /\ store' = {} /\ call' = A!NoCall
        /\ UNCHANGED <<delivered, generation, drafts, wire, wanted>>
    BY <1>2 DEF A!Restart, A!host
  <2>2. A!NoCall.generation = 0 /\ A!NoCall.request.type = "none" /\ generation \in Nat
    BY DEF A!NoCall, A!NoRequest, FeedbackTypes, WireTypes
  <2>3. CallsAreTrue'
    BY <2>1, <2>2 DEF CallsAreTrue
  <2>4. DraftIsScreen'
    BY <2>1 DEF DraftIsScreen
  <2>5. ASSUME NEW t \in wanted PROVE t \in delivered \/ \E d \in drafts : t \in d.annotations
    BY <2>5 DEF A!NoAnnotationLost, DraftIsScreen
  <2>6. A!NoAnnotationLost'
    BY <2>1, <2>5 DEF A!NoAnnotationLost
  <2> QED BY <2>3, <2>4, <2>6 DEF ScreenInv
<1> QED BY <1>1, <1>2

(* Writing, editing, deleting and clearing.                                *)
LEMMA ChangesKeep ==
  ASSUME KeepingInv, NEW a, A!Changes(a), manifest # A!NoManifest,
         UNCHANGED <<delivered, phase, manifest, attached, generation, call, wire>>,
         phase = "ready" \/ store # {},
         \A t \in wanted' : t \in a \/ (t \in wanted /\ t \notin store)
  PROVE  ScreenInv'
<1>1. store' = a /\ drafts' = A!Saved(manifest, store', A!NoPending)
  BY DEF A!Changes
<1>2. DraftIsScreen' /\ A!Without(manifest) \subseteq drafts'
  BY <1>1, SavedFits DEF KeepingInv
<1>3. A!NoAnnotationLost'
  BY <1>1, <1>2, NothingLost
<1>4. CallsAreTrue'
  BY <1>1 DEF KeepingInv, CallsAreTrue
<1> QED BY <1>2, <1>3, <1>4 DEF ScreenInv

(* Whatever the user does to the annotations is saved.                     *)
LEMMA WritingKeeps ==
  ASSUME KeepingInv, A!Write \/ A!Clear \/ \E t \in store : A!Edit(t) \/ A!Delete(t)
  PROVE  ScreenInv'
<1>1. CASE A!Write
  <2>1. /\ A!Changes(store \cup {texts'}) /\ wanted' = wanted \cup {texts'} /\ phase = "ready"
        /\ UNCHANGED <<delivered, phase, manifest, attached, generation, call, wire>>
    BY <1>1 DEF A!Write, A!host
  <2>2. manifest # A!NoManifest
    BY <2>1 DEF KeepingInv, CallsAreTrue
  <2>3. \A t \in wanted' : t \in store \cup {texts'} \/ (t \in wanted /\ t \notin store)
    BY <2>1
  <2> QED BY <2>1, <2>2, <2>3, ChangesKeep
<1>2. ASSUME NEW u \in store, A!Edit(u) PROVE ScreenInv'
  <2>1. /\ A!Changes((store \ {u}) \cup {texts'}) /\ wanted' = (wanted \ {u}) \cup {texts'}
        /\ manifest # A!NoManifest /\ store # {}
        /\ UNCHANGED <<delivered, phase, manifest, attached, generation, call, wire>>
    BY <1>2 DEF A!Edit, A!host
  <2>2. \A t \in wanted' : t \in (store \ {u}) \cup {texts'} \/ (t \in wanted /\ t \notin store)
    BY <2>1
  <2> QED BY <2>1, <2>2, ChangesKeep
<1>3. ASSUME NEW u \in store, A!Delete(u) PROVE ScreenInv'
  <2>1. /\ A!Changes(store \ {u}) /\ wanted' = wanted \ {u} /\ phase = "ready"
        /\ UNCHANGED <<delivered, phase, manifest, attached, generation, call, wire>>
    BY <1>3 DEF A!Delete, A!host
  <2>2. manifest # A!NoManifest
    BY <2>1 DEF KeepingInv, CallsAreTrue
  <2>3. \A t \in wanted' : t \in store \ {u} \/ (t \in wanted /\ t \notin store)
    BY <2>1
  <2> QED BY <2>1, <2>2, <2>3, ChangesKeep
<1>4. CASE A!Clear
  <2>1. /\ store' = {} /\ drafts' = A!Without(manifest) /\ wanted' = wanted \ store /\ phase = "ready"
        /\ UNCHANGED <<delivered, phase, manifest, attached, generation, call, wire>>
    BY <1>4 DEF A!Clear, A!host
  <2>2. DraftIsScreen'
    BY <2>1, RemovedFits DEF KeepingInv
  <2>3. A!NoAnnotationLost'
    BY <2>1, NothingLost
  <2>4. CallsAreTrue'
    BY <2>1 DEF KeepingInv, CallsAreTrue
  <2> QED BY <2>2, <2>3, <2>4 DEF ScreenInv
<1> QED BY <1>1, <1>2, <1>3, <1>4

(* Sending, and the answers.                                               *)
LEMMA RequestKeeps ==
  ASSUME KeepingInv, NEW type \in {"render", "submit", "finish"}, NEW p, A!SendsRequest(type, p),
         UNCHANGED <<delivered, manifest, attached, generation>>, phase' # "ready",
         type = "finish" => store' = {},
         store' = store \/ type = "finish"
  PROVE  CallsAreTrue'
<1> USE DEF KeepingInv
<1>1. CASE UNCHANGED <<call, wire>>
  BY <1>1 DEF CallsAreTrue
<1>2. CASE attached /\ \E r : /\ r.type = type /\ r.manifest = manifest /\ r.id = p.id
                   /\ call' = [request |-> r, reply |-> "none", generation |-> generation]
                   /\ wire' = wire \cup {r}
  <2>1. PICK r : /\ r.type = type
                 /\ call' = [request |-> r, reply |-> "none", generation |-> generation]
                 /\ wire' = wire \cup {r}
    BY <1>2
  <2>2. call'.request = r /\ call'.reply = "none" /\ call'.generation = generation /\ generation \in Nat
    BY <2>1 DEF FeedbackTypes, WireTypes
  <2> QED BY <1>2, <2>1, <2>2 DEF CallsAreTrue
<1> QED BY <1>1, <1>2, RequestSent

(* Freezing what is sent saves it under its submission id first.           *)
LEMMA SendingKeeps ==
  ASSUME KeepingInv, (\E type \in {"render", "submit"} : A!Freezes(type)) \/ A!FinishAgain
  PROVE  ScreenInv'
<1> USE DEF KeepingInv
<1>1. ASSUME NEW type \in {"render", "submit"}, A!Freezes(type) PROVE ScreenInv'
  <2>1. /\ phase = "ready" /\ phase' = type
        /\ UNCHANGED <<delivered, manifest, attached, store, generation, wanted>>
        /\ \E p : A!SendsRequest(type, p)
        /\ \/ UNCHANGED drafts
           \/ \E p : drafts' = A!Saved(manifest, store, p)
    BY <1>1 DEF A!Freezes, A!Ready, A!host
  <2>2. manifest # A!NoManifest
    BY <2>1 DEF CallsAreTrue
  <2>3. CallsAreTrue'
    BY <2>1, RequestKeeps
  <2>4. CASE UNCHANGED drafts
    BY <2>1, <2>3, <2>4 DEF ScreenInv, DraftIsScreen, A!NoAnnotationLost
  <2>5. CASE \E p : drafts' = A!Saved(manifest, store, p)
    <3>1. DraftIsScreen' /\ A!Without(manifest) \subseteq drafts'
      BY <2>1, <2>2, <2>5, SavedFits
    <3>2. A!NoAnnotationLost'
      BY <2>1, <3>1, NothingLost
    <3> QED BY <2>3, <3>1, <3>2 DEF ScreenInv
  <2> QED BY <2>1, <2>4, <2>5
<1>2. CASE A!FinishAgain
  <2>1. /\ store = {} /\ phase' = "finish"
        /\ \E p : A!SendsRequest("finish", p)
        /\ UNCHANGED <<delivered, manifest, attached, store, generation, wanted, drafts>>
    BY <1>2 DEF A!FinishAgain, A!host
  <2>2. CallsAreTrue'
    BY <2>1, RequestKeeps
  <2> QED BY <2>1, <2>2 DEF ScreenInv, DraftIsScreen, A!NoAnnotationLost
<1> QED BY <1>1, <1>2

(* No answer is due to a Neovim that asked for nothing.                    *)
LEMMA NothingAsked ==
  ASSUME KeepingInv, call' = A!NoCall, UNCHANGED <<manifest, generation, wire>>,
         manifest # A!NoManifest
  PROVE  CallsAreTrue'
<1>1. A!NoCall.generation = 0 /\ A!NoCall.request.type = "none" /\ generation \in Nat
  BY DEF A!NoCall, A!NoRequest, KeepingInv, FeedbackTypes, WireTypes
<1> QED BY <1>1 DEF KeepingInv, CallsAreTrue

(* A call under way was made under an identity.                            *)
LEMMA CallHasIdentity == ASSUME KeepingInv, call # A!NoCall PROVE manifest # A!NoManifest
BY DEF KeepingInv, CallsAreTrue

(* The answers: what leaves the screen is with Pi.                         *)
LEMMA AnswersKeep ==
  ASSUME KeepingInv,
         A!GivesUp \/ A!Ignored \/ A!SubmitFailed \/ A!Submitted \/ A!Rendered \/ A!FinishFailed \/ A!Finished
  PROVE  ScreenInv'
<1> USE DEF KeepingInv
<1>1. CASE A!GivesUp
  <2>1. /\ call # A!NoCall /\ call' = [call EXCEPT !.reply = "error"]
        /\ UNCHANGED <<delivered, A!client, wire, wanted>>
    BY <1>1 DEF A!GivesUp, A!host
  <2>2. call'.request = call.request /\ call'.generation = call.generation /\ call'.reply = "error"
    BY <2>1 DEF FeedbackTypes, WireTypes, Calls
  <2> QED BY <2>1, <2>2 DEF ScreenInv, CallsAreTrue, DraftIsScreen, A!NoAnnotationLost, A!client
<1>2. CASE A!Ignored \/ A!Rendered \/ A!FinishFailed
  <2>1. /\ call # A!NoCall /\ call' = A!NoCall
        /\ UNCHANGED <<delivered, manifest, store, generation, drafts, wire, wanted>>
    BY <1>2 DEF A!Ignored, A!Rendered, A!FinishFailed, A!Answered, A!client, A!around, A!host
  <2>2. CallsAreTrue'
    BY <2>1, NothingAsked, CallHasIdentity
  <2> QED BY <2>1, <2>2 DEF ScreenInv, DraftIsScreen, A!NoAnnotationLost
<1>3. CASE A!SubmitFailed
  <2>1. /\ call # A!NoCall /\ call' = A!NoCall /\ drafts' = A!Saved(manifest, store', pending)
        /\ UNCHANGED <<delivered, manifest, store, generation, wire, wanted>>
    BY <1>3 DEF A!SubmitFailed, A!Answered, A!around, A!host
  <2>2. CallsAreTrue'
    BY <2>1, NothingAsked, CallHasIdentity
  <2>3. DraftIsScreen' /\ A!Without(manifest) \subseteq drafts'
    BY <2>1, SavedFits, CallHasIdentity
  <2>4. A!NoAnnotationLost'
    BY <2>1, <2>3, NothingLost
  <2> QED BY <2>2, <2>3, <2>4 DEF ScreenInv
<1>4. CASE A!Submitted
  <2>1. /\ call # A!NoCall /\ call.request.annotations \subseteq delivered
        /\ store' = store \ call.request.annotations
        /\ UNCHANGED <<delivered, manifest, attached, generation, wanted>>
    BY <1>4 DEF A!Submitted, A!Answered, A!Kept, A!around, A!host, CallsAreTrue
  <2>2. \A t \in wanted' : t \in store' \cup delivered' \/ (t \in wanted /\ t \notin store)
    BY <2>1
  <2>3. CASE store' = {}
    <3>1. /\ drafts' = A!Without(manifest) /\ phase' = "finish"
          /\ \E p : A!SendsRequest("finish", p)
      BY <1>4, <2>3 DEF A!Submitted
    <3>2. CallsAreTrue'
      BY <2>1, <2>3, <3>1, RequestKeeps
    <3>3. DraftIsScreen'
      BY <2>1, <2>3, <3>1, RemovedFits
    <3>4. A!NoAnnotationLost'
      BY <2>1, <2>2, <3>1, NothingLost
    <3> QED BY <3>2, <3>3, <3>4 DEF ScreenInv
  <2>4. CASE store' # {}
    <3>1. drafts' = A!Saved(manifest, store', A!NoPending) /\ call' = A!NoCall /\ wire' = wire
      BY <1>4, <2>4 DEF A!Submitted
    <3>2. CallsAreTrue'
      BY <2>1, <3>1, NothingAsked, CallHasIdentity
    <3>3. DraftIsScreen' /\ A!Without(manifest) \subseteq drafts'
      BY <2>1, <3>1, SavedFits, CallHasIdentity
    <3>4. A!NoAnnotationLost'
      BY <2>1, <2>2, <3>3, NothingLost
    <3> QED BY <3>2, <3>3, <3>4 DEF ScreenInv
  <2> QED BY <2>3, <2>4
<1>5. CASE A!Finished
  <2>1. /\ call # A!NoCall /\ call' = A!NoCall /\ drafts' = A!Without(manifest)
        /\ call.request.type = "finish" /\ call.generation = generation
        /\ UNCHANGED <<delivered, manifest, store, generation, wire, wanted>>
    BY <1>5 DEF A!Finished, A!Answered, A!Mine, A!host
  <2>2. store' = {}
    BY <2>1 DEF CallsAreTrue
  <2>3. CallsAreTrue'
    BY <2>1, NothingAsked, CallHasIdentity
  <2>4. DraftIsScreen'
    BY <2>1, <2>2, RemovedFits
  <2>5. A!NoAnnotationLost'
    BY <2>1, <2>2, NothingLost
  <2> QED BY <2>3, <2>4, <2>5 DEF ScreenInv
<1> QED BY <1>1, <1>2, <1>3, <1>4, <1>5

(* Every step of the bridge and of the Neovim.                             *)
LEMMA KeepingStep ==
  ASSUME SessionPartsAssumption, KeepingInv, [A!Next]_(A!vars)
  PROVE  KeepingInv'
<1>1. FeedbackTypes'
  BY FeedbackTypeStep DEF KeepingInv
<1>2. CASE UNCHANGED <<A!client, sends, delivered, call, wire, wanted>> /\ entries' \in {entries, {}}
  BY <1>1, <1>2 DEF KeepingInv, EntriesAreTrue, CallsAreTrue, DraftIsScreen, A!NoAnnotationLost, A!client
<1>3. ASSUME NEW s, A!UpdateSnapshot(s) \/ A!BridgeStarts(s) \/ A!BridgeStops
      PROVE  UNCHANGED <<A!client, sends, delivered, call, wire, wanted>> /\ entries' \in {entries, {}}
  BY <1>3 DEF A!UpdateSnapshot, A!BridgeStarts, A!BridgeStops
<1>4. ASSUME NEW r \in wire, A!Handle(r) PROVE KeepingInv'
  <2>1. /\ EntriesAreTrue' /\ CallsAreTrue' /\ delivered \subseteq delivered'
        /\ UNCHANGED <<manifest, store, drafts, wanted>>
    BY <1>4, HandleKeeps DEF A!Carried, A!client
  <2> QED BY <1>1, <2>1 DEF KeepingInv, DraftIsScreen, A!NoAnnotationLost
<1>5. ASSUME ScreenInv', UNCHANGED A!host PROVE KeepingInv'
  BY <1>1, <1>5 DEF KeepingInv, ScreenInv, EntriesAreTrue, A!host
<1>6. CASE A!Attach
  BY <1>5, <1>6, AttachKeeps DEF A!Attach
<1>7. CASE A!Cancel \/ A!Restart
  BY <1>5, <1>7, LeavingKeeps DEF A!Cancel, A!Restart
<1>8. CASE A!Write \/ A!Clear \/ \E t \in store : A!Edit(t) \/ A!Delete(t)
  BY <1>5, <1>8, WritingKeeps DEF A!Write, A!Clear, A!Edit, A!Delete
<1>9. CASE A!Send \/ A!Export \/ A!FinishAgain
  BY <1>5, <1>9, SendingKeeps DEF A!Send, A!Export, A!Freezes, A!FinishAgain
<1>10. CASE A!GivesUp \/ A!Ignored \/ A!SubmitFailed \/ A!Submitted \/ A!Rendered \/ A!FinishFailed \/ A!Finished
  BY <1>5, <1>10, AnswersKeep DEF A!GivesUp, A!Ignored, A!SubmitFailed, A!Submitted, A!Rendered,
                                  A!FinishFailed, A!Finished, A!around
<1>11. CASE UNCHANGED A!vars
  BY <1>2, <1>11 DEF A!vars, A!host
<1> QED BY <1>2, <1>3, <1>4, <1>6, <1>7, <1>8, <1>9, <1>10, <1>11 DEF A!Next

(* At the start there is nothing to keep.                                  *)
LEMMA KeepingStarts == ASSUME SessionPartsAssumption, A!Init PROVE KeepingInv
<1> USE DEF A!Init
<1>1. A!NoPending \in Pendings /\ A!NoManifest \in Manifests /\ A!NoCall \in Calls
      /\ A!NoCall.generation = 0 /\ A!NoCall.request.type = "none"
  BY DEF A!NoPending, A!NoManifest, A!NoCall, A!NoRequest, Calls, Pendings, Manifests, FeedbackRequests, RequestTypes
<1>2. HostTypes
  <2>1. sends \in [1..MaxSubmissions -> Nat]
    OBVIOUS
  <2> QED BY <2>1 DEF HostTypes
<1>3. ScreenTypes /\ WireTypes
  BY <1>1 DEF ScreenTypes, WireTypes
<1>4. DraftTypes
  BY DEF DraftTypes, SessionPartsAssumption
<1>5. EntriesAreTrue /\ CallsAreTrue /\ DraftIsScreen /\ A!NoAnnotationLost
  BY <1>1 DEF EntriesAreTrue, CallsAreTrue, DraftIsScreen, A!NoAnnotationLost
<1> QED BY <1>2, <1>3, <1>4, <1>5 DEF KeepingInv, FeedbackTypes

(* The inductive invariant of what is kept, with no hypothesis.            *)
LEMMA AnnotationsStay == A!Spec => []KeepingInv
BY SessionPartsAssumption, KeepingStarts, KeepingStep, PTL DEF A!Spec

-----------------------------------------------------------------------------
(* What was sent once.                                                     *)

(* Steps of the bridge but for requests: an identity that nobody has seen  *)
(* is nobody's, so that nothing is to be remembered for it.                *)
LEMMA NewIdentityFits ==
  ASSUME SessionPartsAssumption, KeepingInv, OnceInv, SnapshotsAreNew, NEW s \in 1..MaxSnapshots,
         A!UpdateSnapshot(s) \/ A!BridgeStarts(s), NEW m \in Manifests, NEW i, Fits(m, i)
  PROVE  Fits(m, i)'
<1>1. /\ instance \in Nat /\ snapshot \in Nat /\ s \in Nat /\ snapshot' = s
      /\ UNCHANGED <<sends, submissions>>
      /\ \/ instance' = instance + 1
         \/ instance' = instance /\ s > snapshot
  BY DEF A!UpdateSnapshot, A!BridgeStarts, SnapshotsAreNew, SessionPartsAssumption, KeepingInv, FeedbackTypes,
         HostTypes
<1>2. m.instance \in Nat /\ m.snapshot \in Nat /\ Seen(m)
  BY DEF Manifests, Fits
<1>3. Seen(m)'
  BY <1>1, <1>2 DEF Seen
<1>4. m # Here'
  <2>1. Here'.instance = instance' /\ Here'.snapshot = s
    BY <1>1 DEF Here
  <2>2. m.instance < instance' \/ m.snapshot < s
    BY <1>1, <1>2 DEF Seen
  <2>3. m.instance <= instance
    BY <1>1, <1>2 DEF Seen
  <2> QED BY <1>1, <1>2, <2>1, <2>2, <2>3
<1> QED BY <1>1, <1>3, <1>4 DEF Fits

(* A request: a submission that may be sent again is still remembered.     *)
LEMMA RecalledStaysKnown ==
  ASSUME NEW r, NEW b \in BOOLEAN, entries' = A!Recalled(r, b), NEW i, Known(i), i = r.id => b
  PROVE  Known(i)'
<1> DEFINE new == [id |-> r.id, fingerprint |-> r.annotations, scheduled |-> b]
<1>1. new \in entries' /\ \A e \in entries : e.id # r.id => e \in entries'
  BY DEF A!Recalled
<1>2. new.id = r.id /\ new.scheduled = b
  OBVIOUS
<1> HIDE DEF new
<1>3. CASE i = r.id
  BY <1>1, <1>2, <1>3 DEF Known
<1>4. CASE i # r.id
  BY <1>1, <1>4 DEF Known
<1> QED BY <1>3, <1>4

(* A request that is handled is sent to Pi if it was not before.           *)
LEMMA HandleSendsOnce ==
  ASSUME SessionPartsAssumption, KeepingInv, OnceInv, NEW r \in wire, A!Handle(r)
  PROVE  /\ \A i : Known(i) => Known(i)'
         /\ \A i \in 1..MaxSubmissions : sends'[i] = sends[i] \/ (sends[i] = 0 /\ sends'[i] = 1 /\ i = r.id /\ Known(i)')
         /\ r.type \notin {"render", "submit"} => sends' = sends
<1>1. /\ EntriesAreTrue /\ sends \in [1..MaxSubmissions -> Nat] /\ r \in FeedbackRequests
      /\ A!Scheduled(r.id) \in BOOLEAN
  BY DEF KeepingInv, FeedbackTypes, HostTypes, WireTypes, A!Scheduled, A!Remembers, A!Entry
<1>2. CASE UNCHANGED <<entries, sends>>
  BY <1>2 DEF Known
<1>3. CASE A!Render(r)
  <2>1. entries' = A!Recalled(r, A!Scheduled(r.id)) /\ sends' = sends
    BY <1>3 DEF A!Render
  <2>2. ASSUME NEW i, Known(i) PROVE Known(i)'
    <3>1. i = r.id => A!Scheduled(r.id)
      BY <1>1, <2>2, ScheduledIsKnown
    <3> QED BY <1>1, <2>1, <2>2, <3>1, RecalledStaysKnown
  <2> QED BY <2>1, <2>2
<1>4. CASE A!Submit(r) /\ ~A!Scheduled(r.id) /\ entries' = A!Recalled(r, FALSE) /\ sends' = sends
  <2>1. ASSUME NEW i, Known(i) PROVE Known(i)'
    <3>1. i # r.id
      BY <1>1, <1>4, <2>1, ScheduledIsKnown
    <3> QED BY <1>4, <2>1, <3>1, RecalledStaysKnown
  <2> QED BY <1>4, <2>1
<1>5. CASE A!Submit(r) /\ ~A!Scheduled(r.id) /\ entries' = A!Recalled(r, TRUE)
           /\ sends' = [sends EXCEPT ![r.id] = @ + 1]
  <2>1. r.type = "submit" /\ r.manifest = Here
    BY <1>5 DEF A!Submit, A!Identified, Here
  <2>2. ~Known(r.id)
    BY <1>1, <1>5, ScheduledIsKnown
  <2>3. Fits(r.manifest, r.id)
    BY <2>1 DEF OnceInv
  <2>4. r.id \in 1..MaxSubmissions => sends[r.id] = 0
    BY <1>1, <2>1, <2>2, <2>3 DEF Fits
  <2>5. ASSUME NEW i, Known(i) PROVE Known(i)'
    BY <1>5, <2>5, RecalledStaysKnown
  <2>6. Known(r.id)'
    <3> DEFINE new == [id |-> r.id, fingerprint |-> r.annotations, scheduled |-> TRUE]
    <3>1. new \in entries'
      BY <1>5 DEF A!Recalled
    <3> QED BY <3>1 DEF Known
  <2>7. ASSUME NEW i \in 1..MaxSubmissions PROVE sends'[i] = sends[i] \/ (sends[i] = 0 /\ sends'[i] = 1 /\ i = r.id)
    BY <1>1, <1>5, <2>4
  <2> QED BY <2>1, <2>5, <2>6, <2>7
<1>6. CASE A!Refuses(r) \/ A!FinishBridge(r) \/ A!Lost(r)
  BY <1>2, <1>6 DEF A!Refuses, A!FinishBridge, A!Lost, A!host
<1>7. CASE A!Submit(r)
  BY <1>2, <1>4, <1>5, <1>7 DEF A!Submit
<1> QED BY <1>3, <1>6, <1>7 DEF A!Handle

(* Handling a request keeps what was sent remembered.                      *)
LEMMA HandleOnce ==
  ASSUME SessionPartsAssumption, KeepingInv, OnceInv, NEW r \in wire, A!Handle(r)
  PROVE  OnceInv'
<1>1. /\ UNCHANGED <<instance, snapshot, manifest, pending, drafts, submissions>> /\ wire' \subseteq wire
      /\ sends \in [1..MaxSubmissions -> Nat] /\ submissions \in 0..MaxSubmissions
  BY DEF A!Handle, A!Refuses, A!Render, A!Submit, A!FinishBridge, A!Lost, A!Carried, A!client, A!host, A!Replies,
         KeepingInv, FeedbackTypes, HostTypes, DraftTypes
<1>2. /\ \A i : Known(i) => Known(i)'
      /\ \A i \in 1..MaxSubmissions : sends'[i] = sends[i] \/ (sends[i] = 0 /\ sends'[i] = 1 /\ i = r.id /\ Known(i)')
      /\ r.type \notin {"render", "submit"} => sends' = sends
  BY HandleSendsOnce
<1>3. ASSUME NEW m, NEW i, Fits(m, i) PROVE Fits(m, i)'
  <2>1. Seen(m)' /\ i \in 0..submissions'
    BY <1>1, <1>3 DEF Fits, Seen
  <2>2. ASSUME m = Here', i # 0, sends'[i] > 0 PROVE Known(i)'
    <3>1. i \in 1..MaxSubmissions /\ m = Here
      BY <1>1, <1>3, <2>2 DEF Fits, Here
    <3> QED BY <1>1, <1>2, <1>3, <2>2, <3>1 DEF Fits
  <2> QED BY <2>1, <2>2 DEF Fits
<1>4. ASSUME NEW i \in 1..MaxSubmissions, sends'[i] > 0 PROVE i <= submissions'
  <2>1. CASE sends'[i] = sends[i]
    BY <1>1, <1>4, <2>1 DEF OnceInv
  <2>2. CASE sends'[i] # sends[i]
    <3>1. i = r.id /\ r.type \in {"render", "submit"}
      BY <1>2, <2>2
    <3>2. Fits(r.manifest, r.id)
      BY <3>1 DEF OnceInv
    <3> QED BY <1>1, <3>1, <3>2 DEF Fits
  <2> QED BY <2>1, <2>2
<1>5. A!SubmittedOnce'
  BY <1>1, <1>2 DEF OnceInv, A!SubmittedOnce
<1> QED BY <1>1, <1>3, <1>4, <1>5 DEF OnceInv

(* The Neovim: whatever identity and submission it joins, fit, with the    *)
(* submission that it may just have numbered.                              *)
FitsNow(m, i) ==
    /\ Seen(m) /\ i \in 0..submissions'
    /\ m = Here /\ i # 0 => (sends[i] > 0 => Known(i))

(* A step of the Neovim sends only what may be sent again.                 *)
LEMMA ClientOnce ==
  ASSUME KeepingInv, OnceInv, UNCHANGED A!host, submissions' \in Nat, submissions' >= submissions,
         FitsNow(manifest', pending'.id),
         \A d \in drafts' : d \in drafts \/ FitsNow(d.manifest, d.pending.id),
         \A r \in wire' : r \in wire \/ r.type = "finish" \/ FitsNow(r.manifest, r.id)
  PROVE  OnceInv'
<1>1. UNCHANGED <<instance, snapshot, entries, sends>> /\ submissions \in Nat
  BY DEF A!host, KeepingInv, FeedbackTypes, DraftTypes
<1>2. ASSUME NEW m, NEW i, Fits(m, i) \/ FitsNow(m, i) PROVE Fits(m, i)'
  <2>1. Seen(m)' /\ i \in 0..submissions'
    BY <1>1, <1>2 DEF Fits, FitsNow, Seen
  <2> QED BY <1>1, <1>2, <2>1 DEF Fits, FitsNow, Here, Known
<1>3. A!SubmittedOnce'
  BY <1>1 DEF OnceInv, A!SubmittedOnce
<1>4. \A i \in 1..MaxSubmissions : sends'[i] > 0 => i <= submissions'
  BY <1>1 DEF OnceInv
<1>5. ASSUME NEW m, NEW i, m = manifest', i = pending'.id PROVE Fits(m, i)'
  BY <1>2, <1>5
<1>6. \A d \in drafts' : Fits(d.manifest, d.pending.id)'
  BY <1>2 DEF OnceInv
<1>7. \A r \in wire' : r.type \in {"render", "submit"} => Fits(r.manifest, r.id)'
  BY <1>2 DEF OnceInv
<1> QED BY <1>3, <1>4, <1>5, <1>6, <1>7 DEF OnceInv, Fits, Seen, Here

(* More submissions leave the earlier ones as they are.                    *)
LEMMA StillFits ==
  ASSUME KeepingInv, submissions' \in Nat, submissions' >= submissions, NEW m, NEW i, Fits(m, i)
  PROVE  FitsNow(m, i)
BY DEF KeepingInv, FeedbackTypes, DraftTypes, Fits, FitsNow

(* No submission may always be sent.                                       *)
LEMMA NoPendingFits ==
  ASSUME submissions' \in Nat, NEW m, Seen(m)
  PROVE  FitsNow(m, A!NoPending.id)
BY DEF FitsNow, A!NoPending

(* A draft that is saved holds a submission that may be sent again.        *)
LEMMA SavedOnce ==
  ASSUME NEW a, NEW p, drafts' = A!Saved(manifest, a, p), FitsNow(manifest, p.id)
  PROVE  \A d \in drafts' : d \in drafts \/ FitsNow(d.manifest, d.pending.id)
<1> DEFINE new == [manifest |-> manifest, annotations |-> a, pending |-> p]
<1>1. \A d \in drafts' : d \in drafts \/ d = new
  BY DEF A!Saved, A!Without
<1>2. new.manifest = manifest /\ new.pending = p
  OBVIOUS
<1> HIDE DEF new
<1> QED BY <1>1, <1>2

(* A request holds a submission that may be sent again.                    *)
LEMMA RequestOnce ==
  ASSUME NEW type, NEW p, A!SendsRequest(type, p), type = "finish" \/ FitsNow(manifest, p.id)
  PROVE  \A r \in wire' : r \in wire \/ r.type = "finish" \/ FitsNow(r.manifest, r.id)
<1>1. CASE wire' = wire
  BY <1>1
<1>2. CASE \E r : r.type = type /\ r.manifest = manifest /\ r.id = p.id /\ wire' = wire \cup {r}
  <2>1. PICK r : r.type = type /\ r.manifest = manifest /\ r.id = p.id /\ wire' = wire \cup {r}
    BY <1>2
  <2>2. r.type = "finish" \/ FitsNow(r.manifest, r.id)
    BY <2>1
  <2> QED BY <2>1, <2>2
<1>3. wire' = wire \/ \E r : r.type = type /\ r.manifest = manifest /\ r.id = p.id /\ wire' = wire \cup {r}
  BY RequestSent
<1> QED BY <1>1, <1>2, <1>3

(* The steps on the screen.                                                *)
LEMMA ScreenOnce ==
  ASSUME KeepingInv, OnceInv,
         A!Attach \/ A!Cancel \/ A!Restart \/ A!Write \/ A!Clear \/ \E t \in store : A!Edit(t) \/ A!Delete(t)
  PROVE  OnceInv'
<1>1. /\ UNCHANGED A!host /\ UNCHANGED <<wire, submissions>>
  BY DEF A!Attach, A!Cancel, A!Restart, A!Write, A!Clear, A!Edit, A!Delete
<1>2. /\ submissions \in Nat /\ instance \in Nat \ {0} /\ snapshot \in Nat
      /\ Fits(manifest, pending.id) /\ Seen(manifest)
  BY DEF KeepingInv, FeedbackTypes, HostTypes, DraftTypes, OnceInv, Fits
<1>3. FitsNow(manifest, A!NoPending.id) /\ FitsNow(manifest, pending.id)
  BY <1>1, <1>2, NoPendingFits, StillFits
<1>4. CASE A!Attach /\ answering
  <2>1. manifest' = Here /\ pending' = A!Draft(Here).pending /\ drafts' = drafts
    BY <1>4 DEF A!Attach, Here
  <2>2. Seen(Here)
    BY <1>2 DEF Seen, Here
  <2>3. CASE A!Draft(Here) \in drafts /\ A!Draft(Here).manifest = Here
    <3>1. Fits(Here, A!Draft(Here).pending.id)
      BY <2>3 DEF OnceInv
    <3>2. FitsNow(Here, A!Draft(Here).pending.id)
      BY <1>1, <1>2, <3>1, StillFits
    <3> QED BY <1>1, <1>2, <2>1, <3>2, ClientOnce
  <2>4. CASE A!Draft(Here) = [manifest |-> Here, annotations |-> {}, pending |-> A!NoPending]
    <3>1. FitsNow(Here, A!NoPending.id)
      BY <1>1, <1>2, <2>2, NoPendingFits
    <3> QED BY <1>1, <1>2, <2>1, <2>4, <3>1, ClientOnce
  <2> QED BY <2>3, <2>4, DraftOf DEF KeepingInv
<1>5. CASE A!Attach /\ ~answering
  BY <1>1, <1>2, <1>3, <1>5, ClientOnce DEF A!Attach
<1>6. CASE A!Cancel
  BY <1>1, <1>2, <1>3, <1>6, ClientOnce DEF A!Cancel
<1>7. CASE A!Restart
  <2>1. manifest' = A!NoManifest /\ pending' = A!NoPending /\ drafts' = drafts
    BY <1>7 DEF A!Restart
  <2>2. Seen(A!NoManifest)
    BY <1>2 DEF Seen, A!NoManifest
  <2>3. FitsNow(A!NoManifest, A!NoPending.id)
    BY <1>1, <1>2, <2>2, NoPendingFits
  <2> QED BY <1>1, <1>2, <2>1, <2>3, ClientOnce
<1>8. ASSUME NEW a, A!Changes(a), manifest' = manifest PROVE OnceInv'
  <2>1. pending' = A!NoPending /\ drafts' = A!Saved(manifest, a, A!NoPending)
    BY <1>8 DEF A!Changes
  <2>2. \A d \in drafts' : d \in drafts \/ FitsNow(d.manifest, d.pending.id)
    BY <1>3, <2>1, SavedOnce
  <2> QED BY <1>1, <1>2, <1>3, <1>8, <2>1, <2>2, ClientOnce
<1>9. CASE A!Write \/ \E t \in store : A!Edit(t) \/ A!Delete(t)
  BY <1>8, <1>9 DEF A!Write, A!Edit, A!Delete
<1>10. CASE A!Clear
  <2>1. manifest' = manifest /\ pending' = A!NoPending /\ drafts' \subseteq drafts
    BY <1>10 DEF A!Clear, A!Without
  <2> QED BY <1>1, <1>2, <1>3, <2>1, ClientOnce
<1> QED BY <1>4, <1>5, <1>6, <1>7, <1>9, <1>10

(* The steps that send, and the answers.                                   *)
LEMMA RequestsOnce ==
  ASSUME SessionPartsAssumption, KeepingInv, OnceInv,
         (\E type \in {"render", "submit"} : A!Freezes(type)) \/ A!FinishAgain \/ A!GivesUp \/ A!Ignored
            \/ A!SubmitFailed \/ A!Submitted \/ A!Rendered \/ A!FinishFailed \/ A!Finished
  PROVE  OnceInv'
<1>1. UNCHANGED A!host /\ manifest' = manifest
  BY DEF A!Freezes, A!FinishAgain, A!GivesUp, A!Ignored, A!SubmitFailed, A!Submitted, A!Rendered,
         A!FinishFailed, A!Finished, A!around, A!client
<1>2. /\ submissions \in 0..MaxSubmissions /\ MaxSubmissions \in Nat
      /\ Fits(manifest, pending.id) /\ Seen(manifest)
  BY DEF KeepingInv, FeedbackTypes, DraftTypes, OnceInv, Fits, SessionPartsAssumption
<1>3. submissions' \in Nat => FitsNow(manifest, A!NoPending.id)
  BY <1>2, NoPendingFits
<1>9. submissions' \in Nat /\ submissions' >= submissions => FitsNow(manifest, pending.id)
  BY <1>2, StillFits
<1>4. ASSUME NEW type, A!Freezes(type) PROVE OnceInv'
  <2>1. CASE A!Frozen(pending, store)
    <3>1. A!SendsRequest(type, pending) /\ UNCHANGED <<pending, drafts, submissions>>
      BY <1>4, <2>1 DEF A!Freezes
    <3>2. \A r \in wire' : r \in wire \/ r.type = "finish" \/ FitsNow(r.manifest, r.id)
      BY <1>2, <1>9, <3>1, RequestOnce
    <3> QED BY <1>1, <1>2, <1>9, <3>1, <3>2, ClientOnce
  <2>2. CASE ~A!Frozen(pending, store)
    <3>1. /\ submissions < MaxSubmissions /\ submissions' = submissions + 1
          /\ pending' = [id |-> submissions', annotations |-> store]
          /\ drafts' = A!Saved(manifest, store, pending')
          /\ A!SendsRequest(type, pending')
      BY <1>4, <2>2 DEF A!Freezes
    <3>2. pending'.id = submissions' /\ submissions' \in 1..MaxSubmissions /\ submissions' > submissions
      BY <1>2, <3>1
    <3>4. FitsNow(manifest, pending'.id)
      <4>1. ~(sends[submissions'] > 0)
        BY <1>2, <3>2 DEF OnceInv
      <4> QED BY <1>2, <3>2, <4>1 DEF FitsNow
    <3>5. \A d \in drafts' : d \in drafts \/ FitsNow(d.manifest, d.pending.id)
      BY <1>1, <3>1, <3>4, SavedOnce
    <3>6. \A r \in wire' : r \in wire \/ r.type = "finish" \/ FitsNow(r.manifest, r.id)
      BY <1>1, <3>1, <3>4, RequestOnce
    <3> QED BY <1>1, <1>2, <3>1, <3>2, <3>4, <3>5, <3>6, ClientOnce
  <2> QED BY <2>1, <2>2
<1>5. CASE A!FinishAgain
  <2>1. UNCHANGED <<pending, drafts, submissions>> /\ \E p : A!SendsRequest("finish", p)
    BY <1>5 DEF A!FinishAgain
  <2>2. \A r \in wire' : r \in wire \/ r.type = "finish" \/ FitsNow(r.manifest, r.id)
    BY <2>1, RequestOnce
  <2> QED BY <1>1, <1>2, <1>9, <2>1, <2>2, ClientOnce
<1>6. CASE A!GivesUp \/ A!Ignored \/ A!Rendered \/ A!FinishFailed \/ A!Finished
  <2>1. UNCHANGED <<pending, wire, submissions>> /\ drafts' \subseteq drafts
    BY <1>6 DEF A!GivesUp, A!Ignored, A!Rendered, A!FinishFailed, A!Finished, A!around, A!client, A!Without
  <2> QED BY <1>1, <1>2, <1>9, <2>1, ClientOnce
<1>7. CASE A!SubmitFailed
  <2>1. UNCHANGED <<pending, wire, submissions>> /\ drafts' = A!Saved(manifest, store, pending)
    BY <1>7 DEF A!SubmitFailed, A!around
  <2>2. \A d \in drafts' : d \in drafts \/ FitsNow(d.manifest, d.pending.id)
    BY <1>2, <1>9, <2>1, SavedOnce
  <2> QED BY <1>1, <1>2, <1>9, <2>1, <2>2, ClientOnce
<1>8. CASE A!Submitted
  <2>1. pending' = A!NoPending /\ submissions' = submissions
    BY <1>8 DEF A!Submitted, A!around
  <2>2. CASE store' = {}
    <3>1. drafts' \subseteq drafts /\ \E p : A!SendsRequest("finish", p)
      BY <1>8, <2>2 DEF A!Submitted, A!Without
    <3>2. \A r \in wire' : r \in wire \/ r.type = "finish" \/ FitsNow(r.manifest, r.id)
      BY <3>1, RequestOnce
    <3> QED BY <1>1, <1>2, <1>3, <2>1, <3>1, <3>2, ClientOnce
  <2>3. CASE store' # {}
    <3>1. drafts' = A!Saved(manifest, store', A!NoPending) /\ wire' = wire
      BY <1>8, <2>3 DEF A!Submitted
    <3>2. \A d \in drafts' : d \in drafts \/ FitsNow(d.manifest, d.pending.id)
      BY <1>2, <1>3, <2>1, <3>1, SavedOnce
    <3> QED BY <1>1, <1>2, <1>3, <2>1, <3>1, <3>2, ClientOnce
  <2> QED BY <2>2, <2>3
<1> QED BY <1>4, <1>5, <1>6, <1>7, <1>8

(* Every step of the bridge and of the Neovim.                             *)
LEMMA OnceStep ==
  ASSUME SessionPartsAssumption, SnapshotsAreNew, KeepingInv, OnceInv, [A!Next]_(A!vars)
  PROVE  OnceInv'
<1>1. ASSUME NEW s \in 1..MaxSnapshots, A!UpdateSnapshot(s) \/ A!BridgeStarts(s) PROVE OnceInv'
  <2>1. UNCHANGED <<manifest, pending, drafts, wire, sends, submissions>>
    BY <1>1 DEF A!UpdateSnapshot, A!BridgeStarts, A!client
  <2>2. \A m \in Manifests : \A i : Fits(m, i) => Fits(m, i)'
    BY <1>1, NewIdentityFits
  <2>3. /\ manifest \in Manifests /\ \A d \in drafts : d.manifest \in Manifests
        /\ \A r \in wire : r.manifest \in Manifests
    BY DEF KeepingInv, FeedbackTypes, ScreenTypes, DraftTypes, WireTypes, Drafts, FeedbackRequests
  <2> QED BY <2>1, <2>2, <2>3 DEF OnceInv, A!SubmittedOnce
<1>2. CASE A!BridgeStops \/ UNCHANGED A!vars
  <2>1. UNCHANGED <<instance, snapshot, entries, sends, manifest, pending, drafts, wire, submissions>>
    BY <1>2 DEF A!BridgeStops, A!client, A!vars, A!host
  <2> QED BY <2>1 DEF OnceInv, Fits, Seen, Here, Known, A!SubmittedOnce
<1> QED BY <1>1, <1>2, HandleOnce, ScreenOnce, RequestsOnce DEF A!Next, A!Send, A!Export

(* At the start nothing was sent.                                          *)
LEMMA OnceStarts == ASSUME SessionPartsAssumption, A!Init PROVE OnceInv
BY DEF SessionPartsAssumption, A!Init, OnceInv, Fits, Seen, Here, A!NoManifest, A!NoPending, A!SubmittedOnce

(* The inductive invariant of what is sent once.                           *)
LEMMA SubmissionsArriveOnce == SnapshotsAreNew => (A!Spec => []OnceInv)
<1> SUFFICES ASSUME SnapshotsAreNew PROVE A!Spec => []OnceInv
  OBVIOUS
<1>1. KeepingInv /\ OnceInv /\ [A!Next]_(A!vars) => OnceInv'
  BY SessionPartsAssumption, OnceStep
<1>2. A!Init => OnceInv
  BY SessionPartsAssumption, OnceStarts
<1> QED BY <1>1, <1>2, AnnotationsStay, PTL DEF A!Spec

-----------------------------------------------------------------------------
(* Whatever is lost, late or repeated, whoever restarts and however the    *)
(* snapshots change, an annotation is on the screen, in a draft or with Pi *)
(* (init.lua, the drafts; bridge.ts, render and submit).                   *)
THEOREM AnnotationsAreKept == A!Spec => []A!NoAnnotationLost
BY AnnotationsStay, PTL DEF KeepingInv

(* A submission is sent to Pi once, however often it is asked for and      *)
(* however few submissions the bridge remembers, if no identity comes back *)
(* for another content (bridge.ts, the submission cache).                  *)
THEOREM SubmissionsAreSentOnce == SnapshotsAreNew => (A!Spec => []A!SubmittedOnce)
BY SubmissionsArriveOnce, PTL DEF OnceInv

-----------------------------------------------------------------------------
(* Runs in the background.                                                 *)

Answer == {"completed", "aborted", "failed"}
RunRecords ==
    [call : {"none", "open", "returned", "threw"}, background : BOOLEAN, handedOff : BOOLEAN,
     relays : BOOLEAN, cause : {"no", "origin", "launch", "kill", "shutdown"},
     script : {"none", "running", "done", "final", "failed", "settled"}, busy : BOOLEAN,
     streams : BOOLEAN, number : Nat]

RunsTypes ==
    /\ run \in [Runs -> RunRecords]
    /\ panel \in [Runs -> {"none", "live", "final"}]
    /\ ui \in [Runs -> [cleared : BOOLEAN, finished : BOOLEAN, ticks : BOOLEAN]]
    /\ tracked \in SUBSET Runs /\ registered \in SUBSET Runs
    /\ session \in [state : {"open", "closing"}, number : Nat,
                    awaited : SUBSET Runs, clears : SUBSET Runs]
    /\ results \in [Runs -> Seq(Answer)]
    /\ toasts \in SUBSET (Runs \X Nat)
    /\ lateUpdate \in SUBSET Runs

-----------------------------------------------------------------------------
(* The inductive invariant.  A run is live when its session owes an answer *)
(* for it; the session then knows it, also while it closes.                *)

LiveRun(r) == run[r].handedOff /\ run[r].script # "settled"

(* A call that was not made has no traces.                                 *)
NotLaunched(r) ==
    run[r].call = "none" <=> run[r].script = "none"
LeavesNoTrace(r) ==
    run[r].call = "none" =>
        /\ ~run[r].handedOff /\ ~run[r].background /\ ~run[r].busy /\ ~ui[r].ticks
        /\ ~ui[r].finished /\ r \notin lateUpdate

(* A run that was handed over belongs to nobody but its session.           *)
HandedOver(r) ==
    run[r].handedOff =>
        /\ run[r].call = "returned" /\ run[r].background
        /\ ~run[r].streams /\ ~run[r].relays /\ run[r].cause # "launch"
        /\ r \notin lateUpdate

SessionKnows(r) ==
    LiveRun(r) =>
        /\ run[r].number = session.number
        /\ session.state = "open" => r \in tracked /\ r \in registered
        /\ session.state = "closing" => r \in session.awaited /\ r \in session.clears

(* The panel is there exactly for live runs, and final with their end.     *)
PanelInv(r) ==
    /\ run[r].background /\ ~ui[r].cleared <=> LiveRun(r)
    /\ panel[r] # "none" <=> LiveRun(r)
    /\ LiveRun(r) => (ui[r].finished <=> run[r].script = "final")
    /\ LiveRun(r) => (panel[r] = "final" <=> run[r].script = "final")

AnswerInv(r) ==
    /\ ~(run[r].handedOff /\ run[r].script = "settled") => results[r] = <<>>
    /\ run[r].handedOff /\ run[r].script = "settled" =>
          \/ results[r] = <<"completed">>
          \/ results[r] = <<"failed">>
          \/ results[r] = <<"aborted">> /\ run[r].cause \in {"kill", "shutdown", "origin"}

ToastInv == \A t \in toasts : run[t[1]].handedOff /\ run[t[1]].number = t[2]

RunInv(r) ==
    /\ NotLaunched(r) /\ LeavesNoTrace(r) /\ HandedOver(r)
    /\ SessionKnows(r) /\ PanelInv(r) /\ AnswerInv(r)

RunsInv ==
    /\ RunsTypes
    /\ \A r \in Runs : RunInv(r)
    /\ ToastInv

LEMMA RunsInitially == R!InitRuns => RunsInv
  BY DEF R!InitRuns, RunsInv, RunsTypes, RunInv, NotLaunched, LeavesNoTrace, HandedOver, SessionKnows,
         PanelInv, AnswerInv, ToastInv, LiveRun, R!Idle, RunRecords, Answer

(* What no step but the launch changes in the record of a run; a record    *)
(* with one of its other fields replaced.                                  *)
FixedFields(x, y) ==
    /\ y.background = x.background /\ y.handedOff = x.handedOff
    /\ y.relays = x.relays /\ y.streams = x.streams /\ y.number = x.number

LEMMA CauseReplaced ==
  ASSUME NEW x \in RunRecords, NEW c \in {"origin", "kill", "shutdown"}, NEW y, y = [x EXCEPT !.cause = c]
  PROVE  /\ y \in RunRecords /\ FixedFields(x, y)
         /\ y.call = x.call /\ y.script = x.script /\ y.busy = x.busy /\ y.cause = c
BY DEF RunRecords, FixedFields

LEMMA BusyReplaced ==
  ASSUME NEW x \in RunRecords, NEW b \in BOOLEAN, NEW y, y = [x EXCEPT !.busy = b]
  PROVE  /\ y \in RunRecords /\ FixedFields(x, y)
         /\ y.call = x.call /\ y.script = x.script /\ y.cause = x.cause
BY DEF RunRecords, FixedFields

LEMMA ScriptReplaced ==
  ASSUME NEW x \in RunRecords, NEW s \in {"done", "final", "failed", "settled"}, NEW y, y = [x EXCEPT !.script = s]
  PROVE  /\ y \in RunRecords /\ FixedFields(x, y)
         /\ y.call = x.call /\ y.script = s /\ y.busy = x.busy /\ y.cause = x.cause
BY DEF RunRecords, FixedFields

LEMMA CallReplaced ==
  ASSUME NEW x \in RunRecords, NEW c \in {"returned", "threw"}, NEW y, y = [x EXCEPT !.call = c]
  PROVE  /\ y \in RunRecords /\ FixedFields(x, y)
         /\ y.call = c /\ y.script = x.script /\ y.busy = x.busy /\ y.cause = x.cause
BY DEF RunRecords, FixedFields

Fixed(r) == FixedFields(run[r], run'[r])
SameCall(r) == run'[r].call = run[r].call
SameScript(r) == run'[r].script = run[r].script
SameCause(r) == run'[r].cause = run[r].cause
SameBusy(r) == run'[r].busy = run[r].busy

LEMMA FixedKeepsToasts ==
  ASSUME RunsInv, \A r \in Runs : Fixed(r), UNCHANGED toasts
  PROVE  ToastInv'
<1>1. \A t \in toasts : t[1] \in Runs
  BY DEF RunsInv, RunsTypes
<1> QED BY <1>1 DEF RunsInv, ToastInv, Fixed, FixedFields

(* A run that was not launched before has no toasts.                       *)
LEMMA LaunchKeepsToasts ==
  ASSUME RunsInv, NEW r \in Runs, run[r].call = "none", UNCHANGED toasts,
         \A q \in Runs : q # r => run'[q] = run[q]
  PROVE  ToastInv'
<1>1. \A t \in toasts : t[1] \in Runs /\ run[t[1]].handedOff
  BY DEF RunsInv, RunsTypes, ToastInv
<1>2. ~run[r].handedOff
  BY DEF RunsInv, RunInv, LeavesNoTrace
<1>3. \A t \in toasts : t[1] # r
  BY <1>1, <1>2
<1> QED BY <1>1, <1>3 DEF RunsInv, ToastInv

-----------------------------------------------------------------------------
(* Steps, one lemma for those that change the same things.                 *)

(* An abort changes causes only, and not that of a run that is settled.    *)
LEMMA AbortKeepsInv ==
  ASSUME RunsInv, NEW S, NEW cause \in {"origin", "kill", "shutdown"}, R!Abort(S, cause),
         UNCHANGED <<panel, ui, results, toasts, lateUpdate>>,
         UNCHANGED <<tracked, registered, session>> \/ R!ShutdownBegins
  PROVE  RunsInv'
<1>1. /\ run' \in [Runs -> RunRecords]
      /\ \A r \in Runs : Fixed(r) /\ SameCall(r) /\ SameScript(r) /\ SameBusy(r)
      /\ \A r \in Runs :
            \/ SameCause(r)
            \/ run[r].script # "settled" /\ run'[r].cause \in {"origin", "kill", "shutdown"}
  <2>1. run \in [Runs -> RunRecords] BY DEF RunsInv, RunsTypes
  <2>2. \A r \in Runs : \/ run'[r] = run[r]
                        \/ run'[r] = [run[r] EXCEPT !.cause = cause] /\ run[r].script # "settled"
    BY DEF R!Abort
  <2>3. ASSUME NEW r \in Runs, run'[r] = [run[r] EXCEPT !.cause = cause]
        PROVE  /\ run'[r] \in RunRecords /\ Fixed(r)
               /\ SameCall(r) /\ SameScript(r) /\ SameBusy(r) /\ run'[r].cause = cause
    BY <2>1, <2>3, CauseReplaced DEF Fixed, SameCall, SameScript, SameBusy
  <2>4. ASSUME NEW r \in Runs, run'[r] = run[r]
        PROVE  /\ run'[r] \in RunRecords /\ Fixed(r)
               /\ SameCall(r) /\ SameScript(r) /\ SameBusy(r) /\ SameCause(r)
    BY <2>1, <2>4 DEF Fixed, FixedFields, SameCall, SameScript, SameBusy, SameCause
  <2>5. \A r \in Runs : run'[r] \in RunRecords
    BY <2>2, <2>3, <2>4
  <2>6. run' \in [Runs -> RunRecords]
    BY <2>5 DEF R!Abort
  <2> QED BY <2>2, <2>3, <2>4, <2>6
<1>2. /\ session' \in [state : {"open", "closing"}, number : Nat, awaited : SUBSET Runs, clears : SUBSET Runs]
      /\ tracked' \in SUBSET Runs /\ registered' \in SUBSET Runs
      /\ \A r \in Runs : SessionKnows(r)'
  <2>1. CASE UNCHANGED <<tracked, registered, session>>
    BY <1>1, <2>1, SMTT(30) DEF RunsInv, RunsTypes, RunInv, SessionKnows, LiveRun, Fixed, FixedFields, SameScript
  <2>2. CASE R!ShutdownBegins
    <3>1. /\ session' = [state |-> "closing", number |-> session.number, awaited |-> tracked, clears |-> registered]
          /\ session.state = "open" /\ tracked' = {} /\ registered' = {}
      BY <2>2 DEF R!ShutdownBegins, RunsInv, RunsTypes
    <3>2. ASSUME NEW r \in Runs PROVE SessionKnows(r)'
      <4>1. SessionKnows(r) BY DEF RunsInv, RunInv
      <4>2. LiveRun(r)' => LiveRun(r) /\ run'[r].number = run[r].number
        BY <1>1 DEF LiveRun, Fixed, FixedFields, SameScript
      <4> QED BY <3>1, <4>1, <4>2 DEF SessionKnows
    <3> QED BY <3>1, <3>2 DEF RunsInv, RunsTypes
  <2> QED BY <2>1, <2>2
<1>3. RunsTypes'
  BY <1>1, <1>2 DEF RunsInv, RunsTypes
<1>4. ASSUME NEW r \in Runs PROVE RunInv(r)'
  <2>1. RunInv(r) BY DEF RunsInv
  <2>2. NotLaunched(r)' /\ LeavesNoTrace(r)' /\ HandedOver(r)'
    BY <1>1, <2>1 DEF RunInv, NotLaunched, LeavesNoTrace, HandedOver, Fixed, FixedFields, SameCall, SameScript, SameBusy, SameCause
  <2>3. PanelInv(r)' /\ AnswerInv(r)'
    BY <1>1, <2>1 DEF RunInv, PanelInv, AnswerInv, LiveRun, Fixed, FixedFields, SameScript, SameCause
  <2> QED BY <1>2, <2>2, <2>3 DEF RunInv
<1>5. ToastInv'
  BY <1>1, FixedKeepsToasts
<1> QED BY <1>3, <1>4, <1>5 DEF RunsInv

LEMMA LastFrame ==
  ASSUME NEW x \in [cleared : BOOLEAN, finished : BOOLEAN, ticks : BOOLEAN],
         NEW y, y = [x EXCEPT !.finished = TRUE, !.ticks = FALSE]
  PROVE  /\ y \in [cleared : BOOLEAN, finished : BOOLEAN, ticks : BOOLEAN]
         /\ y.cleared = x.cleared /\ y.finished /\ ~y.ticks
OBVIOUS

(* Clear, as an operator of createLiveBackgroundUi.                        *)
LEMMA ClearedTypes ==
  ASSUME panel \in [Runs -> {"none", "live", "final"}],
         ui \in [Runs -> [cleared : BOOLEAN, finished : BOOLEAN, ticks : BOOLEAN]],
         NEW S, R!Clear(S)
  PROVE  /\ panel' \in [Runs -> {"none", "live", "final"}]
         /\ ui' \in [Runs -> [cleared : BOOLEAN, finished : BOOLEAN, ticks : BOOLEAN]]
         /\ \A r \in Runs : r \notin S => panel'[r] = panel[r] /\ ui'[r] = ui[r]
         /\ \A r \in S \cap Runs :
               /\ ui'[r] = [cleared |-> TRUE, finished |-> ui[r].finished, ticks |-> FALSE]
               /\ panel'[r] = IF ui[r].cleared THEN panel[r] ELSE "none"
BY DEF R!Clear

(* The other runs keep their part of the invariant.                        *)
LEMMA OtherRunsKeepInv ==
  ASSUME RunsInv, NEW q \in Runs,
         run'[q] = run[q], ui'[q] = ui[q], panel'[q] = panel[q], results'[q] = results[q],
         q \in lateUpdate' <=> q \in lateUpdate,
         q \in tracked' <=> q \in tracked, q \in registered' <=> q \in registered,
         UNCHANGED session
  PROVE  RunInv(q)'
BY DEF RunsInv, RunInv, NotLaunched, LeavesNoTrace, HandedOver, SessionKnows, PanelInv, AnswerInv, LiveRun

LEMMA LaunchKeepsInv ==
  ASSUME RunsInv, NEW r \in Runs,
         R!LaunchForeground(r) \/ \E aborted \in BOOLEAN, fails \in {"no", "track", "register"} :
                                   R!LaunchBackground(r, aborted, fails)
  PROVE  RunsInv'
<1>1. CASE R!LaunchForeground(r)
  <2>1. RunsTypes'
    BY <1>1 DEF RunsInv, RunsTypes, R!LaunchForeground, R!Idle, RunRecords
  <2>2. ASSUME NEW q \in Runs, q # r PROVE RunInv(q)'
    BY <1>1, <2>2, OtherRunsKeepInv DEF RunsInv, RunsTypes, R!LaunchForeground
  <2>3. RunInv(r)'
    BY <1>1 DEF RunsInv, RunsTypes, RunInv, NotLaunched, LeavesNoTrace, HandedOver, SessionKnows,
                PanelInv, AnswerInv, LiveRun, R!LaunchForeground, R!MayLaunch, R!Idle, RunRecords
  <2>4. ToastInv'
    <3>1. run[r].call = "none" /\ toasts' = toasts /\ \A q \in Runs : q # r => run'[q] = run[q]
      BY <1>1 DEF RunsInv, RunsTypes, R!LaunchForeground, R!MayLaunch
    <3> QED BY <3>1, LaunchKeepsToasts
  <2> QED BY <2>1, <2>2, <2>3, <2>4 DEF RunsInv
<1>2. ASSUME NEW aborted \in BOOLEAN, NEW fails \in {"no", "track", "register"}, R!LaunchBackground(r, aborted, fails)
      PROVE  RunsInv'
  <2> DEFINE ok == (fails = "no")
             failed == (fails # "no")
             relay == ~R!Detached
             outcome == IF fails = "no" THEN "returned" ELSE "threw"
             cause == IF aborted THEN "origin" ELSE IF fails # "no" THEN "launch" ELSE "no"
             launched == [R!Idle EXCEPT !.call = outcome, !.background = TRUE, !.handedOff = ok,
                                      !.script = "running", !.relays = relay,
                                      !.number = session.number, !.streams = failed,
                                      !.cause = cause]
             shown == [cleared |-> failed, finished |-> FALSE, ticks |-> ok]
             board == IF fails = "no" THEN "live" ELSE "none"
  <2>a. /\ run' = [run EXCEPT ![r] = launched]
        /\ panel' = [panel EXCEPT ![r] = board]
        /\ ui' = [ui EXCEPT ![r] = shown]
    BY <1>2 DEF R!LaunchBackground
  <2>b. /\ ok \in BOOLEAN /\ failed \in BOOLEAN /\ relay \in BOOLEAN
        /\ outcome \in {"returned", "threw"} /\ cause \in {"no", "launch", "origin"}
        /\ board \in {"none", "live", "final"} /\ session.number \in Nat
        /\ fails = "no" => ok = TRUE /\ failed = FALSE
        /\ fails # "no" => ok = FALSE /\ failed = TRUE
        /\ relay = FALSE
    BY DEF R!Detached, RunsInv, RunsTypes
  <2> HIDE DEF ok, failed, relay, outcome, cause, board
  <2>c. /\ launched \in RunRecords
        /\ launched.call = outcome /\ launched.background = TRUE /\ launched.handedOff = ok
        /\ launched.relays = relay /\ launched.cause = cause /\ launched.script = "running"
        /\ launched.number = session.number /\ launched.streams = failed
    BY <2>b DEF R!Idle, RunRecords
  <2>d. /\ shown \in [cleared : BOOLEAN, finished : BOOLEAN, ticks : BOOLEAN]
        /\ shown.cleared = failed /\ shown.finished = FALSE /\ shown.ticks = ok
    BY <2>b
  <2> HIDE DEF launched, shown
  <2>1. RunsTypes'
    <3>1. run' \in [Runs -> RunRecords] BY <2>a, <2>c DEF RunsInv, RunsTypes
    <3>2. panel' \in [Runs -> {"none", "live", "final"}] BY <2>a, <2>b DEF RunsInv, RunsTypes
    <3>3. ui' \in [Runs -> [cleared : BOOLEAN, finished : BOOLEAN, ticks : BOOLEAN]]
      BY <2>a, <2>d DEF RunsInv, RunsTypes
    <3> QED BY <1>2, <3>1, <3>2, <3>3 DEF RunsInv, RunsTypes, R!LaunchBackground
  <2>2. ASSUME NEW q \in Runs, q # r PROVE RunInv(q)'
    <3>1. run'[q] = run[q] /\ ui'[q] = ui[q] /\ panel'[q] = panel[q]
      BY <2>2, <2>a DEF RunsInv, RunsTypes
    <3> QED BY <1>2, <2>2, <3>1, OtherRunsKeepInv DEF R!LaunchBackground
  <2>3. RunInv(r)'
    <3>1. /\ run'[r] = launched /\ ui'[r] = shown /\ panel'[r] = board /\ results'[r] = results[r]
      BY <1>2, <2>a DEF RunsInv, RunsTypes, R!LaunchBackground
    <3>0. /\ outcome = IF fails = "no" THEN "returned" ELSE "threw"
          /\ cause = IF aborted THEN "origin" ELSE IF fails # "no" THEN "launch" ELSE "no"
          /\ board = IF fails = "no" THEN "live" ELSE "none"
          /\ fails = "no" => ok = TRUE /\ failed = FALSE
          /\ fails # "no" => ok = FALSE /\ failed = TRUE
          /\ relay = FALSE
      BY <2>b DEF outcome, cause, board
    <3>2. /\ session.state = "open" /\ run[r].call = "none" /\ r \notin lateUpdate /\ lateUpdate' = lateUpdate
          /\ results[r] = <<>> /\ session' = session
      BY <1>2 DEF RunsInv, RunInv, LeavesNoTrace, AnswerInv, R!LaunchBackground, R!MayLaunch
    <3>3. fails = "no" => r \in tracked' /\ r \in registered'
      BY <1>2 DEF R!LaunchBackground
    <3>4. /\ run'[r].call # "none" /\ run'[r].background /\ ~run'[r].relays /\ run'[r].script = "running"
          /\ fails = "no" => run'[r].handedOff /\ ~run'[r].streams
          /\ fails # "no" => ~run'[r].handedOff
          /\ fails = "no" => run'[r].call = "returned" /\ run'[r].cause # "launch"
          /\ run'[r].number = session.number
      <4>1. CASE fails = "no"
        BY <2>c, <3>0, <3>1, <4>1
      <4>2. CASE fails # "no"
        BY <2>c, <3>0, <3>1, <4>2
      <4> QED BY <4>1, <4>2
    <3>5. (fails = "no" => ~ui'[r].cleared) /\ (fails # "no" => ui'[r].cleared)
      BY <2>d, <3>0, <3>1
    <3>6. ~ui'[r].finished
      BY <2>d, <3>1
    <3>7. LiveRun(r)' <=> fails = "no"
      BY <3>4 DEF LiveRun
    <3>8. NotLaunched(r)' /\ LeavesNoTrace(r)' /\ HandedOver(r)'
      BY <3>2, <3>4 DEF NotLaunched, LeavesNoTrace, HandedOver
    <3>9. SessionKnows(r)' /\ AnswerInv(r)'
      BY <3>1, <3>2, <3>3, <3>4, <3>7 DEF SessionKnows, AnswerInv
    <3>10. PanelInv(r)'
      BY <2>d, <3>0, <3>1, <3>4, <3>5, <3>6, <3>7 DEF PanelInv
    <3> QED BY <3>8, <3>9, <3>10 DEF RunInv
  <2>4. ToastInv'
    <3>1. run[r].call = "none" /\ toasts' = toasts /\ \A q \in Runs : q # r => run'[q] = run[q]
      BY <1>2 DEF RunsInv, RunsTypes, R!LaunchBackground, R!MayLaunch
    <3> QED BY <3>1, LaunchKeepsToasts
  <2> QED BY <2>1, <2>2, <2>3, <2>4 DEF RunsInv
<1> QED BY <1>1, <1>2

(* Agents, logs and the ticks of the panel.                                *)
LEMMA UpdateKeepsInv ==
  ASSUME RunsInv, NEW r \in Runs, R!Update(r), run[r].script # "none" /\ (ui[r].ticks => run[r].script # "none"),
         \/ UNCHANGED run
         \/ \E busy \in BOOLEAN : run' = [run EXCEPT ![r].busy = busy],
         UNCHANGED <<ui, tracked, registered, session, results, toasts>>
  PROVE  RunsInv'
<1>1. /\ run' \in [Runs -> RunRecords]
      /\ \A q \in Runs : Fixed(q) /\ SameCall(q) /\ SameScript(q) /\ SameCause(q)
      /\ \A q \in Runs : q # r => run'[q] = run[q]
  <2>1. run \in [Runs -> RunRecords] BY DEF RunsInv, RunsTypes
  <2>2. CASE UNCHANGED run
    BY <2>1, <2>2 DEF Fixed, FixedFields, SameCall, SameScript, SameCause
  <2>3. ASSUME NEW busy \in BOOLEAN, run' = [run EXCEPT ![r].busy = busy]
        PROVE  /\ run' \in [Runs -> RunRecords]
               /\ \A q \in Runs : Fixed(q) /\ SameCall(q) /\ SameScript(q) /\ SameCause(q)
               /\ \A q \in Runs : q # r => run'[q] = run[q]
    <3>1. run'[r] = [run[r] EXCEPT !.busy = busy]
      BY <2>1, <2>3
    <3>2. run'[r] \in RunRecords /\ Fixed(r) /\ SameCall(r) /\ SameScript(r) /\ SameCause(r)
      BY <2>1, <3>1, BusyReplaced DEF Fixed, SameCall, SameScript, SameCause
    <3>3. ASSUME NEW q \in Runs, q # r
          PROVE run'[q] = run[q] /\ Fixed(q) /\ SameCall(q) /\ SameScript(q) /\ SameCause(q)
      BY <2>1, <2>3, <3>3 DEF Fixed, FixedFields, SameCall, SameScript, SameCause
    <3>4. run' \in [Runs -> RunRecords]
      BY <2>1, <2>3, <3>2
    <3> QED BY <3>2, <3>3, <3>4
  <2> QED BY <2>2, <2>3
<1>2. /\ panel' \in [Runs -> {"none", "live", "final"}]
      /\ \A q \in Runs : q # r => panel'[q] = panel[q]
      /\ panel'[r] = IF R!Renders(r) THEN "live" ELSE panel[r]
  BY DEF RunsInv, RunsTypes, R!Update, R!Render
<1>3. RunsTypes'
  BY <1>1, <1>2 DEF RunsInv, RunsTypes, R!Update
<1>4. ASSUME NEW q \in Runs, q # r PROVE RunInv(q)'
  BY <1>1, <1>2, <1>4, OtherRunsKeepInv DEF R!Update
<1>5. RunInv(r)'
  <2>1. RunInv(r) BY DEF RunsInv
  <2>2. NotLaunched(r)' /\ LeavesNoTrace(r)' /\ SessionKnows(r)' /\ AnswerInv(r)'
    <3>1. r \notin lateUpdate' \/ run[r].call # "none"
      BY <2>1 DEF RunInv, NotLaunched
    <3> QED BY <1>1, <2>1, <3>1 DEF RunInv, NotLaunched, LeavesNoTrace, SessionKnows, AnswerInv, LiveRun,
                                    Fixed, FixedFields, SameCall, SameScript, SameCause
  <2>3. HandedOver(r)'
    BY <1>1, <2>1 DEF RunInv, HandedOver, R!Update, R!Streams, Fixed, FixedFields, SameCall, SameCause
  <2>4. PanelInv(r)'
    <3>1. PanelInv(r) /\ ui'[r] = ui[r] /\ ui[r].finished \in BOOLEAN /\ ui[r].cleared \in BOOLEAN
      BY <2>1 DEF RunInv, RunsInv, RunsTypes
    <3>2. /\ LiveRun(r)' <=> LiveRun(r)
          /\ run'[r].background = run[r].background /\ run'[r].script = run[r].script
      BY <1>1 DEF LiveRun, Fixed, FixedFields, SameScript
    <3> QED BY <1>2, <3>1, <3>2 DEF PanelInv, R!Renders
  <2> QED BY <2>2, <2>3, <2>4 DEF RunInv
<1>6. ToastInv'
  BY <1>1, FixedKeepsToasts
<1> QED BY <1>3, <1>4, <1>5, <1>6 DEF RunsInv

(* The script and the run around it come to their ends.                    *)
LEMMA EndKeepsInv ==
  ASSUME RunsInv, NEW r \in Runs, R!ScriptEnds(r) \/ R!Completes(r)
  PROVE  RunsInv'
<1>1. PICK end \in {"done", "failed", "final"} :
         /\ run' = [run EXCEPT ![r].script = end] /\ run[r].script \in {"running", "done"}
         /\ IF end = "final" THEN R!RenderFinal(r) ELSE UNCHANGED <<panel, ui>>
  BY DEF R!ScriptEnds, R!Completes
<1>2. UNCHANGED <<tracked, registered, session, results, toasts, lateUpdate>>
  BY DEF R!ScriptEnds, R!Completes
<1>3. /\ run' \in [Runs -> RunRecords]
      /\ \A q \in Runs : Fixed(q) /\ SameCall(q) /\ SameCause(q) /\ SameBusy(q)
      /\ run'[r].script = end
      /\ \A q \in Runs : q # r => run'[q] = run[q]
  <2>1. run \in [Runs -> RunRecords] BY DEF RunsInv, RunsTypes
  <2>2. run'[r] = [run[r] EXCEPT !.script = end]
    BY <1>1, <2>1
  <2>3. run'[r] \in RunRecords /\ Fixed(r) /\ SameCall(r) /\ SameCause(r) /\ SameBusy(r) /\ run'[r].script = end
    BY <2>1, <2>2, ScriptReplaced DEF Fixed, SameCall, SameCause, SameBusy
  <2>4. ASSUME NEW q \in Runs, q # r
        PROVE run'[q] = run[q] /\ Fixed(q) /\ SameCall(q) /\ SameCause(q) /\ SameBusy(q)
    BY <1>1, <2>1, <2>4 DEF Fixed, FixedFields, SameCall, SameCause, SameBusy
  <2>5. run' \in [Runs -> RunRecords]
    BY <1>1, <2>1, <2>3
  <2> QED BY <2>3, <2>4, <2>5
<1>4. /\ panel' \in [Runs -> {"none", "live", "final"}]
      /\ ui' \in [Runs -> [cleared : BOOLEAN, finished : BOOLEAN, ticks : BOOLEAN]]
      /\ \A q \in Runs : q # r => panel'[q] = panel[q] /\ ui'[q] = ui[q]
      /\ ui'[r].cleared = ui[r].cleared
      /\ IF end = "final" /\ R!Renders(r)
         THEN panel'[r] = "final" /\ ui'[r].finished /\ ~ui'[r].ticks
         ELSE panel'[r] = panel[r] /\ ui'[r] = ui[r]
  <2>1. /\ panel \in [Runs -> {"none", "live", "final"}]
        /\ ui \in [Runs -> [cleared : BOOLEAN, finished : BOOLEAN, ticks : BOOLEAN]]
    BY DEF RunsInv, RunsTypes
  <2>2. CASE end = "final" /\ R!Renders(r)
    <3>1. /\ panel' = [panel EXCEPT ![r] = "final"]
          /\ ui' = [ui EXCEPT ![r].finished = TRUE, ![r].ticks = FALSE]
      BY <1>1, <2>2 DEF R!RenderFinal
    <3>2. ui[r] \in [cleared : BOOLEAN, finished : BOOLEAN, ticks : BOOLEAN]
      BY <2>1
    <3>3. ui'[r] = [ui[r] EXCEPT !.finished = TRUE, !.ticks = FALSE]
      BY <2>1, <3>1
    <3>4. /\ ui'[r] \in [cleared : BOOLEAN, finished : BOOLEAN, ticks : BOOLEAN]
          /\ ui'[r].cleared = ui[r].cleared /\ ui'[r].finished /\ ~ui'[r].ticks
      BY <3>2, <3>3, LastFrame
    <3>5. ui' = [ui EXCEPT ![r] = ui'[r]]
      BY <2>1, <3>1
    <3> QED BY <2>1, <2>2, <3>1, <3>4, <3>5
  <2>3. CASE ~(end = "final" /\ R!Renders(r))
    BY <1>1, <2>1, <2>3 DEF R!RenderFinal
  <2> QED BY <2>2, <2>3
<1>5. RunsTypes'
  BY <1>2, <1>3, <1>4 DEF RunsInv, RunsTypes
<1>6. ASSUME NEW q \in Runs, q # r PROVE RunInv(q)'
  BY <1>2, <1>3, <1>4, <1>6, OtherRunsKeepInv
<1>7. RunInv(r)'
  <2>1. RunInv(r) BY DEF RunsInv
  <2>2. /\ run'[r].script = end /\ run'[r].call = run[r].call /\ run'[r].background = run[r].background
        /\ run'[r].handedOff = run[r].handedOff /\ run'[r].cause = run[r].cause /\ run'[r].busy = run[r].busy
        /\ run'[r].relays = run[r].relays /\ run'[r].streams = run[r].streams /\ run'[r].number = run[r].number
    BY <1>3 DEF Fixed, FixedFields, SameCall, SameCause, SameBusy
  <2>3. LiveRun(r)' <=> LiveRun(r)
    BY <1>1, <2>2 DEF LiveRun
  <2>4. NotLaunched(r)' /\ LeavesNoTrace(r)' /\ HandedOver(r)' /\ SessionKnows(r)' /\ AnswerInv(r)'
    BY <1>1, <1>2, <2>1, <2>2, <2>3 DEF RunInv, NotLaunched, LeavesNoTrace, HandedOver, SessionKnows, AnswerInv
  <2>5. PanelInv(r)'
    BY <1>1, <1>4, <2>1, <2>2, <2>3 DEF RunInv, PanelInv, R!Renders, LiveRun
  <2> QED BY <2>4, <2>5 DEF RunInv
<1>8. ToastInv'
  BY <1>2, <1>3, FixedKeepsToasts
<1> QED BY <1>5, <1>6, <1>7, <1>8 DEF RunsInv

(* The handlers at the end of a run.                                       *)
LEMMA SettleKeepsInv ==
  ASSUME RunsInv, NEW r \in Runs, R!Settles(r)
  PROVE  RunsInv'
<1>1. /\ run[r].script \in {"final", "failed"}
      /\ UNCHANGED <<tracked, registered, session, lateUpdate>>
  BY DEF R!Settles
<1>2. RunInv(r) BY DEF RunsInv
<1>3. /\ run' \in [Runs -> RunRecords]
      /\ \A q \in Runs : q # r => run'[q] = run[q]
      /\ run'[r].script = "settled"
      /\ Fixed(r) /\ SameCause(r) /\ SameBusy(r)
      /\ run[r].background => run'[r].call = run[r].call
      /\ ~run[r].background => run'[r].call \in {"returned", "threw"}
  <2>1. run \in [Runs -> RunRecords] BY DEF RunsInv, RunsTypes
  <2>2. CASE run[r].background
    <3>1. run' = [run EXCEPT ![r].script = "settled"]
      BY <2>2 DEF R!Settles
    <3>2. run'[r] = [run[r] EXCEPT !.script = "settled"]
      BY <2>1, <3>1
    <3>3. run'[r] \in RunRecords /\ Fixed(r) /\ SameCall(r) /\ SameCause(r) /\ SameBusy(r) /\ run'[r].script = "settled"
      BY <2>1, <3>2, ScriptReplaced DEF Fixed, SameCall, SameCause, SameBusy
    <3> QED BY <2>1, <2>2, <3>1, <3>3 DEF SameCall
  <2>3. CASE ~run[r].background
    <3>1. PICK end \in {"returned", "threw"} : run' = [run EXCEPT ![r].script = "settled", ![r].call = end]
      BY <2>3 DEF R!Settles
    <3>2. run' = [run EXCEPT ![r] = [run[r] EXCEPT !.script = "settled", !.call = end]]
      BY <2>1, <3>1
    <3> DEFINE settled == [run[r] EXCEPT !.script = "settled"]
    <3>3. run'[r] = [settled EXCEPT !.call = end]
      BY <2>1, <3>2
    <3>4. /\ settled \in RunRecords /\ FixedFields(run[r], settled)
          /\ settled.script = "settled" /\ settled.busy = run[r].busy /\ settled.cause = run[r].cause
      BY <2>1, ScriptReplaced
    <3> HIDE DEF settled
    <3>5. /\ run'[r] \in RunRecords /\ FixedFields(settled, run'[r])
          /\ run'[r].call = end /\ run'[r].script = settled.script
          /\ run'[r].busy = settled.busy /\ run'[r].cause = settled.cause
      BY <3>3, <3>4, CallReplaced
    <3>6. Fixed(r) /\ SameCause(r) /\ SameBusy(r) /\ run'[r].script = "settled"
      BY <3>4, <3>5 DEF Fixed, FixedFields, SameCause, SameBusy
    <3> QED BY <2>1, <2>3, <3>2, <3>5, <3>6
  <2> QED BY <2>2, <2>3
<1>4. /\ panel' \in [Runs -> {"none", "live", "final"}]
      /\ ui' \in [Runs -> [cleared : BOOLEAN, finished : BOOLEAN, ticks : BOOLEAN]]
      /\ \A q \in Runs : q # r => panel'[q] = panel[q] /\ ui'[q] = ui[q]
      /\ run[r].background => ui'[r].cleared /\ panel'[r] = IF ui[r].cleared THEN panel[r] ELSE "none"
      /\ ~run[r].background => panel'[r] = panel[r] /\ ui'[r] = ui[r]
  <2>1. /\ panel \in [Runs -> {"none", "live", "final"}]
        /\ ui \in [Runs -> [cleared : BOOLEAN, finished : BOOLEAN, ticks : BOOLEAN]]
    BY DEF RunsInv, RunsTypes
  <2>2. CASE run[r].background
    <3>1. R!Clear({r})
      BY <2>2 DEF R!Settles
    <3>2. /\ panel' \in [Runs -> {"none", "live", "final"}]
          /\ ui' \in [Runs -> [cleared : BOOLEAN, finished : BOOLEAN, ticks : BOOLEAN]]
          /\ \A q \in Runs : q \notin {r} => panel'[q] = panel[q] /\ ui'[q] = ui[q]
          /\ \A q \in {r} \cap Runs :
                /\ ui'[q] = [cleared |-> TRUE, finished |-> ui[q].finished, ticks |-> FALSE]
                /\ panel'[q] = IF ui[q].cleared THEN panel[q] ELSE "none"
      BY <2>1, <3>1, ClearedTypes
    <3> QED BY <2>2, <3>2
  <2>3. CASE ~run[r].background
    BY <2>1, <2>3 DEF R!Settles
  <2> QED BY <2>2, <2>3
<1>5. /\ results' \in [Runs -> Seq(Answer)]
      /\ \A q \in Runs : q # r => results'[q] = results[q]
      /\ results'[r] = IF run[r].background /\ run[r].handedOff THEN Append(results[r], R!Status(r)) ELSE results[r]
  <2>1. R!Status(r) \in Answer
    BY DEF R!Status, Answer
  <2>2. results \in [Runs -> Seq(Answer)] BY DEF RunsInv, RunsTypes
  <2>3. Append(results[r], R!Status(r)) \in Seq(Answer) BY <2>1, <2>2
  <2>4. \/ run[r].background /\ run[r].handedOff /\ results' = [results EXCEPT ![r] = Append(@, R!Status(r))]
        \/ ~(run[r].background /\ run[r].handedOff) /\ results' = results
    BY DEF R!Settles, R!Answers
  <2> QED BY <2>2, <2>3, <2>4
<1>6. toasts' \in SUBSET (Runs \X Nat) /\ ToastInv'
  <2>1. \/ toasts' = toasts
        \/ toasts' = toasts \cup {<<r, session.number>>} /\ run[r].handedOff
    BY DEF R!Settles, R!Answers
  <2>2. run[r].handedOff => run[r].number = session.number
    BY <1>1, <1>2 DEF RunInv, SessionKnows, LiveRun
  <2>3. session.number \in Nat BY DEF RunsInv, RunsTypes
  <2>4. \A t \in toasts : /\ t[1] \in Runs /\ run[t[1]].handedOff /\ run[t[1]].number = t[2]
                           /\ run'[t[1]].handedOff /\ run'[t[1]].number = t[2]
    <3>1. ASSUME NEW t \in toasts PROVE t[1] \in Runs /\ run[t[1]].handedOff /\ run[t[1]].number = t[2]
      BY DEF RunsInv, RunsTypes, ToastInv
    <3>2. ASSUME NEW q \in Runs PROVE run'[q].handedOff = run[q].handedOff /\ run'[q].number = run[q].number
      BY <1>3 DEF Fixed, FixedFields
    <3> QED BY <3>1, <3>2
  <2>5. toasts \in SUBSET (Runs \X Nat)
    BY DEF RunsInv, RunsTypes
  <2> QED BY <1>3, <2>1, <2>2, <2>3, <2>4, <2>5 DEF ToastInv, Fixed, FixedFields
<1>7. RunsTypes'
  BY <1>1, <1>3, <1>4, <1>5, <1>6 DEF RunsInv, RunsTypes
<1>8. ASSUME NEW q \in Runs, q # r PROVE RunInv(q)'
  BY <1>1, <1>3, <1>4, <1>5, <1>8, OtherRunsKeepInv
<1>9. RunInv(r)'
  <2>1. run[r].call # "none" /\ run'[r].call # "none"
    BY <1>1, <1>2, <1>3 DEF RunInv, NotLaunched, HandedOver
  <2>2. NotLaunched(r)' /\ LeavesNoTrace(r)' /\ SessionKnows(r)'
    BY <1>3, <2>1 DEF NotLaunched, LeavesNoTrace, SessionKnows, LiveRun
  <2>3. HandedOver(r)'
    BY <1>1, <1>2, <1>3 DEF RunInv, HandedOver, Fixed, FixedFields, SameCause
  <2>4. PanelInv(r)'
    BY <1>1, <1>2, <1>3, <1>4 DEF RunInv, PanelInv, LiveRun, HandedOver, Fixed, FixedFields
  <2>5. AnswerInv(r)'
    <3>1. CASE ~run[r].handedOff
      BY <1>2, <1>3, <1>5, <3>1 DEF RunInv, AnswerInv, Fixed, FixedFields
    <3>2. CASE run[r].handedOff
      <4>1. results[r] = <<>> /\ run[r].background /\ run[r].cause # "launch"
        BY <1>1, <1>2, <3>2 DEF RunInv, AnswerInv, HandedOver
      <4>2. results'[r] = <<R!Status(r)>>
        BY <1>5, <3>2, <4>1
      <4>3. R!Status(r) = "aborted" => run[r].cause \in {"kill", "shutdown", "origin"}
        BY <4>1 DEF R!Status, R!Aborted, RunsInv, RunsTypes, RunRecords
      <4>4. R!Status(r) \in Answer
        BY DEF R!Status, Answer
      <4> QED BY <1>3, <3>2, <4>2, <4>3, <4>4 DEF AnswerInv, Answer, Fixed, FixedFields, SameCause
    <3> QED BY <3>1, <3>2
  <2> QED BY <2>2, <2>3, <2>4, <2>5 DEF RunInv
<1> QED BY <1>6, <1>7, <1>8, <1>9 DEF RunsInv

LEMMA UnregisterKeepsInv ==
  ASSUME RunsInv, NEW r \in Runs, R!Unregister(r)
  PROVE  RunsInv'
<1>1. RunsTypes' /\ ToastInv'
  BY DEF RunsInv, RunsTypes, ToastInv, R!Unregister
<1>2. ASSUME NEW q \in Runs PROVE RunInv(q)'
  BY DEF RunsInv, RunInv, NotLaunched, LeavesNoTrace, HandedOver, SessionKnows, PanelInv, AnswerInv,
         LiveRun, R!Unregister
<1> QED BY <1>1, <1>2 DEF RunsInv

(* A session ends when it owes no answer: no run is live then.             *)
LEMMA ShutdownKeepsInv ==
  ASSUME RunsInv, R!ShutdownEnds
  PROVE  RunsInv'
<1>1. \A r \in Runs : ~LiveRun(r)
  BY DEF RunsInv, RunInv, SessionKnows, LiveRun, R!ShutdownEnds
<1>2. \A r \in Runs : panel[r] = "none"
  BY <1>1 DEF RunsInv, RunInv, PanelInv
<1>3. /\ UNCHANGED <<run, tracked, registered, results, toasts, lateUpdate>>
      /\ panel' \in [Runs -> {"none", "live", "final"}]
      /\ ui' \in [Runs -> [cleared : BOOLEAN, finished : BOOLEAN, ticks : BOOLEAN]]
      /\ \A r \in Runs : panel'[r] = "none" /\ ui'[r].finished = ui[r].finished
                         /\ (ui[r].cleared => ui'[r].cleared) /\ (ui'[r].ticks => ui[r].ticks)
  <2>1. /\ panel \in [Runs -> {"none", "live", "final"}]
        /\ ui \in [Runs -> [cleared : BOOLEAN, finished : BOOLEAN, ticks : BOOLEAN]]
    BY DEF RunsInv, RunsTypes
  <2>2. R!Clear(session.clears) /\ UNCHANGED <<run, tracked, registered, results, toasts, lateUpdate>>
    BY DEF R!ShutdownEnds
  <2>3. /\ panel' \in [Runs -> {"none", "live", "final"}]
        /\ ui' \in [Runs -> [cleared : BOOLEAN, finished : BOOLEAN, ticks : BOOLEAN]]
        /\ \A q \in Runs : q \notin session.clears => panel'[q] = panel[q] /\ ui'[q] = ui[q]
        /\ \A q \in session.clears \cap Runs :
              /\ ui'[q] = [cleared |-> TRUE, finished |-> ui[q].finished, ticks |-> FALSE]
              /\ panel'[q] = IF ui[q].cleared THEN panel[q] ELSE "none"
    BY <2>1, <2>2, ClearedTypes
  <2>4. ASSUME NEW r \in Runs
        PROVE  /\ panel'[r] = "none" /\ ui'[r].finished = ui[r].finished
               /\ (ui[r].cleared => ui'[r].cleared) /\ (ui'[r].ticks => ui[r].ticks)
    <3>1. CASE r \in session.clears BY <1>2, <2>3, <3>1
    <3>2. CASE r \notin session.clears BY <1>2, <2>3, <3>2
    <3> QED BY <3>1, <3>2
  <2> QED BY <2>2, <2>3, <2>4
<1>4. RunsTypes' /\ ToastInv'
  BY <1>3 DEF RunsInv, RunsTypes, ToastInv, R!ShutdownEnds
<1>5. ASSUME NEW r \in Runs PROVE RunInv(r)'
  <2>1. RunInv(r) BY DEF RunsInv
  <2>2. ~LiveRun(r) /\ ~LiveRun(r)' BY <1>1, <1>3 DEF LiveRun
  <2> QED BY <1>3, <2>1, <2>2 DEF RunInv, NotLaunched, LeavesNoTrace, HandedOver, SessionKnows, PanelInv, AnswerInv
<1> QED BY <1>4, <1>5 DEF RunsInv

-----------------------------------------------------------------------------
LEMMA RunsNext ==
  ASSUME RunsInv, [R!NextOfRuns]_(R!runVars)
  PROVE  RunsInv'
<1>1. ASSUME NEW r \in Runs, R!LaunchForeground(r) PROVE RunsInv'
  BY <1>1, LaunchKeepsInv
<1>2. ASSUME NEW r \in Runs, NEW aborted \in BOOLEAN, NEW fails \in {"no", "track", "register"},
             R!LaunchBackground(r, aborted, fails)
      PROVE RunsInv'
  BY <1>2, LaunchKeepsInv
<1>3. ASSUME NEW r \in Runs, R!OriginAborts(r) PROVE RunsInv'
  <2>1. /\ R!Abort({r}, "origin") /\ UNCHANGED <<panel, ui, results, toasts, lateUpdate>>
        /\ UNCHANGED <<tracked, registered, session>>
    BY <1>3 DEF R!OriginAborts
  <2> QED BY <2>1, AbortKeepsInv
<1>4. ASSUME NEW id \in Runs \cup {0}, R!KillRun(id) PROVE RunsInv'
  <2>1. /\ R!Abort(R!Resolved(id), "kill") /\ UNCHANGED <<panel, ui, results, toasts, lateUpdate>>
        /\ UNCHANGED <<tracked, registered, session>>
    BY <1>4 DEF R!KillRun
  <2> QED BY <2>1, AbortKeepsInv
<1>5. CASE R!ShutdownBegins
  <2>1. /\ R!Abort({r \in Runs : run[r].number = session.number /\ run[r].background}, "shutdown")
        /\ UNCHANGED <<panel, ui, results, toasts, lateUpdate>>
    BY <1>5 DEF R!ShutdownBegins
  <2> QED BY <1>5, <2>1, AbortKeepsInv
<1>6. ASSUME NEW r \in Runs, R!AgentStarts(r) \/ R!AgentEnds(r) \/ R!Logs(r) \/ R!Tick(r) PROVE RunsInv'
  <2>1. /\ R!Update(r) /\ UNCHANGED <<ui, tracked, registered, session, results, toasts>>
        /\ UNCHANGED run \/ \E busy \in BOOLEAN : run' = [run EXCEPT ![r].busy = busy]
    BY <1>6 DEF R!AgentStarts, R!AgentEnds, R!Logs, R!Tick
  <2>2. run[r].script # "none"
    BY <1>6 DEF R!AgentStarts, R!AgentEnds, R!Logs, R!Tick, RunsInv, RunInv, NotLaunched, LeavesNoTrace
  <2> QED BY <2>1, <2>2, UpdateKeepsInv
<1>7. ASSUME NEW r \in Runs, R!ScriptEnds(r) \/ R!Completes(r) PROVE RunsInv'
  BY <1>7, EndKeepsInv
<1>8. ASSUME NEW r \in Runs, R!Settles(r) PROVE RunsInv'
  BY <1>8, SettleKeepsInv
<1>9. ASSUME NEW r \in Runs, R!Unregister(r) PROVE RunsInv'
  BY <1>9, UnregisterKeepsInv
<1>10. CASE R!ShutdownEnds
  BY <1>10, ShutdownKeepsInv
<1>11. CASE UNCHANGED R!runVars
  BY <1>11 DEF R!runVars, RunsInv, RunsTypes, RunInv, NotLaunched, LeavesNoTrace, HandedOver, SessionKnows,
               PanelInv, AnswerInv, ToastInv, LiveRun
<1> QED BY <1>1, <1>2, <1>3, <1>4, <1>5, <1>6, <1>7, <1>8, <1>9, <1>10, <1>11 DEF R!NextOfRuns

(* What the invariant says of the runs, in the words of their properties.  *)
LEMMA InvOfRunsMeans ==
  ASSUME RunsInv
  PROVE  R!DetachedRunAnswersOnce /\ R!PanelFollowsRun /\ R!NoUpdateOfOverCall
<1>1. R!DetachedRunAnswersOnce
  <2> SUFFICES ASSUME NEW r \in Runs
               PROVE  /\ Len(results[r]) = IF run[r].handedOff /\ run[r].script = "settled" THEN 1 ELSE 0
                      /\ results[r] = <<"aborted">> => run[r].cause \in {"kill", "shutdown", "origin"}
                      /\ results[r] = <<"completed">> => run[r].call = "returned"
    BY DEF R!DetachedRunAnswersOnce
  <2>1. AnswerInv(r) /\ HandedOver(r)
    BY DEF RunsInv, RunInv
  <2>2. Len(<<>>) = 0 /\ <<"aborted">> # <<"completed">> /\ <<"aborted">> # <<"failed">>
        /\ <<"aborted">> # <<>> /\ <<"completed">> # <<>>
        /\ Len(<<"aborted">>) = 1 /\ Len(<<"completed">>) = 1 /\ Len(<<"failed">>) = 1
    OBVIOUS
  <2>3. CASE run[r].handedOff /\ run[r].script = "settled"
    BY <2>1, <2>2, <2>3 DEF AnswerInv, HandedOver
  <2>4. CASE ~(run[r].handedOff /\ run[r].script = "settled")
    BY <2>1, <2>2, <2>4 DEF AnswerInv
  <2> QED BY <2>3, <2>4
<1>2. R!PanelFollowsRun
  BY DEF RunsInv, RunInv, PanelInv, LiveRun, SessionKnows, ToastInv, R!PanelFollowsRun
<1>3. R!NoUpdateOfOverCall
  BY DEF RunsInv, RunsTypes, RunInv, HandedOver, R!NoUpdateOfOverCall
<1> QED BY <1>1, <1>2, <1>3

(* The invariant holds in every reachable state, for any set of runs and   *)
(* any number of sessions (workflow-tool.ts, execute).                     *)
THEOREM RunsInvariant == R!SpecOfRuns => []RunsInv
<1>1. RunsInv /\ [R!NextOfRuns]_(R!runVars) => RunsInv'
  BY RunsNext
<1> QED BY RunsInitially, <1>1, PTL DEF R!SpecOfRuns

(* A run that was handed over answers its session once, and says it was    *)
(* aborted only when somebody aborted it; a launch that failed, and a run  *)
(* in the foreground, answer never.                                        *)
THEOREM AnswersOnce == R!SpecOfRuns => []R!DetachedRunAnswersOnce
<1>1. RunsInv => R!DetachedRunAnswersOnce BY InvOfRunsMeans
<1> QED BY RunsInvariant, <1>1, PTL

(* The panel above the editor is there for live runs of this session only, *)
(* its last frame stays, and no toast outlives the session of its run.     *)
THEOREM PanelFollows == R!SpecOfRuns => []R!PanelFollowsRun
<1>1. RunsInv => R!PanelFollowsRun BY InvOfRunsMeans
<1> QED BY RunsInvariant, <1>1, PTL

(* A call that handed its run over is told nothing more by it.             *)
THEOREM OverCallIsToldNothing == R!SpecOfRuns => []R!NoUpdateOfOverCall
<1>1. RunsInv => R!NoUpdateOfOverCall BY InvOfRunsMeans
<1> QED BY RunsInvariant, <1>1, PTL

(* A step by which a run that was handed over becomes an aborted one is    *)
(* a kill or the shutdown of its session.                                  *)
LEMMA OwnersStep ==
  ASSUME RunsInv, [R!NextOfRuns]_(R!runVars), run' # run, NEW r \in Runs,
         run[r].handedOff, run[r].cause = "no", run'[r].cause # "no"
  PROVE  run'[r].cause \in {"kill", "shutdown"}
<1>1. ~run[r].relays /\ run[r].call = "returned"
  BY DEF RunsInv, RunInv, HandedOver
<1>2. ASSUME NEW S, NEW cause, R!Abort(S, cause), r \in S \/ cause \in {"kill", "shutdown"} PROVE run'[r].cause = cause
  BY <1>2 DEF R!Abort, RunsInv, RunsTypes, RunRecords
<1>3. ASSUME NEW q \in Runs, R!OriginAborts(q) PROVE FALSE
  BY <1>1, <1>3 DEF R!OriginAborts, R!Abort, RunsInv, RunsTypes
<1>4. ASSUME NEW id \in Runs \cup {0}, R!KillRun(id) PROVE run'[r].cause = "kill"
  BY <1>2, <1>4 DEF R!KillRun
<1>5. CASE R!ShutdownBegins
  BY <1>2, <1>5 DEF R!ShutdownBegins
<1>6. ASSUME NEW q \in Runs,
             \/ R!LaunchForeground(q)
             \/ \E aborted \in BOOLEAN, fails \in {"no", "track", "register"} : R!LaunchBackground(q, aborted, fails)
             \/ R!AgentStarts(q) \/ R!AgentEnds(q) \/ R!Logs(q) \/ R!Tick(q)
             \/ R!ScriptEnds(q) \/ R!Completes(q) \/ R!Settles(q) \/ R!Unregister(q)
      PROVE FALSE
  <2>1. run \in [Runs -> RunRecords] BY DEF RunsInv, RunsTypes
  <2>2. CASE R!LaunchForeground(q)
    BY <1>1, <2>1, <2>2 DEF R!LaunchForeground, R!MayLaunch
  <2>3. CASE \E aborted \in BOOLEAN, fails \in {"no", "track", "register"} : R!LaunchBackground(q, aborted, fails)
    BY <1>1, <2>1, <2>3 DEF R!LaunchBackground, R!MayLaunch
  <2>4. CASE R!AgentStarts(q) \/ R!AgentEnds(q) \/ R!Logs(q) \/ R!Tick(q)
    BY <2>1, <2>4 DEF R!AgentStarts, R!AgentEnds, R!Logs, R!Tick, RunRecords
  <2>5. CASE R!ScriptEnds(q) \/ R!Completes(q)
    BY <2>1, <2>5 DEF R!ScriptEnds, R!Completes, RunRecords
  <2>6. CASE R!Settles(q)
    BY <2>1, <2>6 DEF R!Settles, RunRecords
  <2> QED BY <1>6, <2>2, <2>3, <2>4, <2>5, <2>6 DEF R!Unregister
<1>7. CASE R!ShutdownEnds
  BY <1>7 DEF R!ShutdownEnds
<1> QED BY <1>3, <1>4, <1>5, <1>6, <1>7 DEF R!NextOfRuns, R!runVars

(* Nobody but a kill or the shutdown of its session aborts a run once it   *)
(* has been handed over: the signal of the call is detached from it.       *)
THEOREM OwnersAbort == R!SpecOfRuns => R!OnlyOwnersAbort
<1> DEFINE Owners == \A r \in Runs : run[r].handedOff /\ ~R!Aborted(r) /\ R!Aborted(r)' => run[r]'.cause \in {"kill", "shutdown"}
<1>1. RunsInv /\ [R!NextOfRuns]_(R!runVars) => [Owners]_run
  BY OwnersStep DEF R!Aborted
<1> QED BY RunsInvariant, <1>1, PTL DEF R!SpecOfRuns, R!OnlyOwnersAbort

-----------------------------------------------------------------------------
(* The server-side compaction.                                             *)

TreeEntries == [kind : {"message", "native", "plain", "malformed"}, path : SUBSET Nat,
                covers : SUBSET Nat, by : Models \cup {Nobody}]
Plans == [kind : {"none", "block", "send"}, by : Models \cup {Nobody},
          replays : BOOLEAN, replay : SUBSET Nat, leaf : Nat]
StreamStages == {"idle", "started", "arming", "hooked", "sent"}
Streams == [pc : StreamStages, mode : {"normal", "summarization"}, model : Models \cup {Nobody},
            scoped : BOOLEAN, generation : Nat, sequence : Nat, arming : BOOLEAN,
            aborted : BOOLEAN, plan : Plans, need : SUBSET Nat, covers : SUBSET Nat]
Captured == [leaf : Nat, by : Models \cup {Nobody}, covers : SUBSET Nat]
CompactionRuns == [pc : {"idle", "auth", "remote", "held", "pi"}, on : SUBSET Nat, covers : SUBSET Nat,
                   native : BOOLEAN, snapshot : Captured \cup {Nobody}, attempt : Nat]

TreeTypes ==
    /\ trunk \in Seq(TreeEntries)
    /\ leaf \in DOMAIN trunk \cup {0}
CaptureTypes ==
    /\ model \in Models /\ epoch \in Nat /\ newest \in Nat /\ invocations \in Nat
    /\ held \in Captured \cup {Nobody}
StreamTypes == request \in [Requests -> Streams]
CompactorTypes == compaction \in [Compactions -> CompactionRuns]

(* The path of an entry is that of each entry on it, up to that entry.     *)
TreeInv ==
    \A i \in DOMAIN trunk :
       /\ trunk[i].path \subseteq 1..i /\ i \in trunk[i].path
       /\ \A j \in trunk[i].path : trunk[j].path = {k \in trunk[i].path : k <= j}

(* Of the normal requests one is under way; what is appended meanwhile are *)
(* no messages.  A plan is made from what the stream started with.         *)
StreamInv(r) ==
    /\ request[r].pc # "idle" /\ request[r].mode = "normal" =>
          /\ N!Messages(N!Branch) \subseteq request[r].need
          /\ \A q \in Requests : request[q].pc # "idle" /\ request[q].mode = "normal" => q = r
    /\ request[r].pc = "started" =>
          /\ request[r].need = N!Messages(N!Branch) /\ request[r].covers = N!PiContext(N!Branch)
          /\ request[r].model = model /\ request[r].plan.kind = "none"
    /\ request[r].pc \in {"arming", "hooked"} =>
          /\ request[r].plan.kind = "none" /\ request[r].model \in Decorated =>
                request[r].need \subseteq request[r].covers
          /\ request[r].plan.kind = "send" =>
                /\ ~request[r].plan.replays => request[r].need \subseteq request[r].covers
                /\ request[r].plan.replays => request[r].need \subseteq request[r].plan.replay
    /\ request[r].pc = "hooked" /\ request[r].plan.kind = "send" /\ request[r].mode = "normal" =>
          /\ request[r].plan.leaf \in DOMAIN trunk \cup {0}
          /\ request[r].plan.leaf # 0 => N!Messages(trunk[request[r].plan.leaf].path) \subseteq request[r].need
    /\ request[r].pc = "sent" /\ request[r].model \in Decorated => request[r].need \subseteq request[r].covers

(* What was captured stands for all that was said up to its leaf.          *)
CapturedInv(s) ==
    s # Nobody =>
       /\ s.leaf \in DOMAIN trunk \cup {0}
       /\ s.leaf # 0 => N!Messages(trunk[s.leaf].path) \subseteq s.covers

(* Pi's own compactor has all that was said, unless a checkpoint of the    *)
(* provider is on the branch; then it does not run.                        *)
CompactorInv(c) ==
    /\ compaction[c].pc # "idle" => compaction[c].on \subseteq DOMAIN trunk
    /\ compaction[c].pc # "idle" /\ ~compaction[c].native =>
          N!Messages(compaction[c].on) \subseteq compaction[c].covers
    /\ compaction[c].pc = "pi" => ~compaction[c].native
    /\ CapturedInv(compaction[c].snapshot)

HistoryInv ==
    /\ TreeTypes /\ CaptureTypes /\ StreamTypes /\ CompactorTypes
    /\ TreeInv /\ N!NothingForgotten
    /\ \A r \in Requests : StreamInv(r)
    /\ CapturedInv(held)
    /\ \A c \in Compactions : CompactorInv(c)

(* The hook of the extension runs in the turn in which the stream starts.  *)
HooksAreFirst == HooksAwait = FALSE

LEMMA GreatestBelow ==
  ASSUME NEW n \in Nat, NEW S \in SUBSET (0..n), 0 \in S
  PROVE  N!Max(S) \in S /\ \A m \in S : m <= N!Max(S)
<1> DEFINE P == {k \in 0..n : n - k \in S}
<1>1. n \in P
  OBVIOUS
<1>2. PICK k \in P : \A j \in P : k <= j
  <2> DEFINE Less == OpToRel(<, Nat)
  <2>1. IsWellFoundedOn(Less, Nat)
    BY NatLessThanWellFounded, Zenon
  <2> HIDE DEF Less, P
  <2>2. P \in SUBSET Nat /\ P # {}
    BY <1>1 DEF P
  <2>3. PICK k \in P : \A j \in P : ~(<<j, k>> \in Less)
    BY <2>1, <2>2, WFMin, Zenon
  <2>4. \A j \in P : j < k => <<j, k>> \in Less
    BY <2>2 DEF Less, OpToRel
  <2>5. ASSUME NEW j \in P PROVE k <= j
    <3>1. ~(j < k) BY <2>3, <2>4
    <3>2. j \in Nat /\ k \in Nat BY <2>2, <2>3
    <3> QED BY <3>1, <3>2
  <2> QED BY <2>3, <2>5
<1>3. n - k \in S /\ \A m \in S : m <= n - k
  <2>1. ASSUME NEW m \in S PROVE m <= n - k
    <3>1. n - m \in P
      BY <2>1
    <3> QED BY <1>2, <3>1
  <2> QED BY <1>2, <2>1
<1>4. \A x \in S : (\A y \in S : x >= y) => x = n - k
  BY <1>2, <1>3
<1> QED BY <1>2, <1>3, <1>4 DEF N!Max

(* A session that only grows says what it said.                            *)
Extends ==
    /\ DOMAIN trunk \subseteq DOMAIN trunk'
    /\ \A i \in DOMAIN trunk : trunk'[i] = trunk[i]

LEMMA OldPathsStay ==
  ASSUME TreeTypes, TreeInv, Extends, NEW i \in DOMAIN trunk
  PROVE  /\ N!Messages(trunk[i].path)' = N!Messages(trunk[i].path)
         /\ N!Messages(trunk[i].path)' = {m \in trunk[i].path : trunk[m].kind = "message"}
<1>1. trunk[i].path \subseteq DOMAIN trunk
  BY DEF TreeTypes, TreeInv
<1>2. trunk'[i] = trunk[i] /\ \A m \in trunk[i].path : trunk'[m] = trunk[m]
  BY <1>1 DEF Extends
<1> QED BY <1>2 DEF N!Messages

LEMMA BranchOfTree ==
  ASSUME TreeTypes, TreeInv
  PROVE  /\ N!Branch \subseteq DOMAIN trunk
         /\ \A j \in N!Branch : trunk[j].path = {k \in N!Branch : k <= j}
         /\ leaf # 0 => leaf \in N!Branch
<1>1. CASE leaf = 0
  BY <1>1 DEF N!Branch
<1>2. CASE leaf # 0
  <2>1. leaf \in DOMAIN trunk /\ N!Branch = trunk[leaf].path
    BY <1>2 DEF TreeTypes, N!Branch
  <2> QED BY <2>1 DEF TreeTypes, TreeInv
<1> QED BY <1>1, <1>2


LEMMA LatestOfBranch ==
  ASSUME TreeTypes, TreeInv
  PROVE  N!LatestCompaction(N!Branch) \in {0} \cup {i \in N!Branch : trunk[i].kind # "message"}
<1> DEFINE b == N!Branch
           k == N!LatestCompaction(b)
           n == Len(trunk)
<1>1. n \in Nat /\ DOMAIN trunk = 1..n /\ b \subseteq 1..n
  BY BranchOfTree DEF TreeTypes
<1> HIDE DEF b, n
<1>2. k \in {0} \cup {i \in b : trunk[i].kind # "message"}
  <2> DEFINE S == {0} \cup {i \in b : trunk[i].kind # "message"}
  <2>1. S \in SUBSET (0..n) /\ 0 \in S
    <3>1. b \subseteq 0..n /\ 0 \in 0..n
      BY <1>1
    <3> QED BY <3>1, Zenon
  <2> HIDE DEF S
  <2>2. N!Max(S) \in S
    BY <1>1, <2>1, GreatestBelow
  <2> QED BY <2>2 DEF N!LatestCompaction, S
<1> QED BY <1>2 DEF b

(* What Pi says in place of a branch, and what is replayed, is all of it.  *)
LEMMA ContextIsWhole ==
  ASSUME TreeTypes, TreeInv, N!NothingForgotten
  PROVE  /\ N!Checkpoint(N!Branch) \in {"none", "native", "plain", "malformed"}
         /\ N!PiContext(N!Branch) \in SUBSET Nat
         /\ N!Checkpoint(N!Branch) \in {"none", "plain"} => N!Messages(N!Branch) \subseteq N!PiContext(N!Branch)
         /\ N!ReplayHistory(N!Branch) \in SUBSET Nat
         /\ N!Checkpoint(N!Branch) = "native" => N!Messages(N!Branch) \subseteq N!ReplayHistory(N!Branch)
<1> DEFINE b == N!Branch
           k == N!LatestCompaction(b)
           n == Len(trunk)
<1>1. n \in Nat /\ DOMAIN trunk = 1..n /\ b \subseteq 1..n
  BY BranchOfTree DEF TreeTypes
<1>2. k \in {0} \cup {i \in b : trunk[i].kind # "message"}
  BY LatestOfBranch
<1> HIDE DEF b, n, k
<1>3. b \subseteq Nat /\ N!Messages(b) \subseteq Nat
  <2>1. b \subseteq Nat BY <1>1
  <2>2. N!Messages(b) \subseteq b BY DEF N!Messages
  <2> QED BY <2>1, <2>2
<1>4. CASE k = 0
  <2>1. \A i \in N!Messages(b) : i > k
    BY <1>1, <1>3, <1>4 DEF N!Messages
  <2>2. N!PiContext(b) = N!Messages(b) /\ N!Checkpoint(b) = "none" /\ N!ReplayHistory(b) = {}
    BY <1>3, <1>4, <2>1 DEF k, N!PiContext, N!Checkpoint, N!ReplayHistory
  <2> QED BY <1>3, <2>2 DEF b
<1>5. CASE k # 0
  <2>1. k \in b /\ k \in DOMAIN trunk /\ trunk[k].kind # "message"
    BY <1>1, <1>2, <1>5
  <2>2. trunk[k].kind \in {"native", "plain", "malformed"} /\ trunk[k].covers \in SUBSET Nat
    <3>1. trunk[k] \in TreeEntries
      <4> HIDE DEF TreeEntries
      <4> QED BY <2>1 DEF TreeTypes
    <3> QED BY <2>1, <3>1 DEF TreeEntries
  <2>3. \A i \in N!Messages(b) : i > k \/ i \in N!Messages(trunk[k].path)
    <3>1. trunk[k].path = {i \in b : i <= k}
      BY <2>1, BranchOfTree DEF b
    <3>2. k \in Nat
      BY <1>1, <2>1
    <3> QED BY <1>3, <3>1, <3>2 DEF N!Messages
  <2>4. trunk[k].kind \in {"native", "plain"} => N!Messages(trunk[k].path) \subseteq trunk[k].covers
    BY <2>1 DEF N!NothingForgotten
  <2> DEFINE after == {i \in N!Messages(b) : i > k}
  <2>5. after \subseteq Nat /\ (trunk[k].kind \in {"native", "plain"} => N!Messages(b) \subseteq after \cup trunk[k].covers)
    BY <1>3, <2>3, <2>4
  <2>6. N!Checkpoint(b) = trunk[k].kind
    BY <1>5 DEF k, N!Checkpoint
  <2>7. N!PiContext(b) = after \cup (IF trunk[k].kind = "plain" THEN trunk[k].covers ELSE {})
    BY <1>5 DEF k, N!PiContext
  <2>8. N!ReplayHistory(b) = IF trunk[k].kind = "native" THEN trunk[k].covers \cup after ELSE {}
    BY <2>6 DEF k, N!ReplayHistory
  <2> HIDE DEF after
  <2> QED BY <2>2, <2>5, <2>6, <2>7, <2>8 DEF b
<1> QED BY <1>4, <1>5

(* An entry is appended.                                                   *)
LEMMA Appended ==
  ASSUME TreeTypes, TreeInv, NEW kind, NEW covers, NEW by, N!Append1(kind, covers, by),
         [kind |-> kind, path |-> N!Branch \cup {leaf'}, covers |-> covers, by |-> by] \in TreeEntries
  PROVE  /\ TreeTypes' /\ TreeInv' /\ Extends
         /\ leaf' \notin DOMAIN trunk /\ DOMAIN trunk' = DOMAIN trunk \cup {leaf'}
         /\ trunk'[leaf'] = [kind |-> kind, path |-> N!Branch \cup {leaf'}, covers |-> covers, by |-> by]
         /\ N!Branch' = N!Branch \cup {leaf'}
         /\ N!Messages(N!Branch)' = N!Messages(N!Branch) \cup (IF kind = "message" THEN {leaf'} ELSE {})
<1> DEFINE n == Len(trunk)
           entry == [kind |-> kind, path |-> N!Branch \cup {leaf'}, covers |-> covers, by |-> by]
<1>1. n \in Nat /\ DOMAIN trunk = 1..n /\ leaf' = n + 1
  <2>1. n \in Nat /\ DOMAIN trunk = 1..n BY DEF TreeTypes
  <2>2. leaf' = n + 1 BY DEF N!Append1
  <2> QED BY <2>1, <2>2
<1>2. trunk' = Append(trunk, entry) /\ entry \in TreeEntries /\ trunk \in Seq(TreeEntries)
  BY DEF N!Append1, TreeTypes
<1> HIDE DEF entry, TreeEntries
<1>3. DOMAIN trunk' = 1..(n + 1) /\ trunk'[leaf'] = entry /\ \A i \in 1..n : trunk'[i] = trunk[i]
  BY <1>1, <1>2
<1> HIDE DEF n
<1>5. TreeTypes'
  <2>1. trunk' \in Seq(TreeEntries)
    BY <1>2
  <2> QED BY <1>1, <1>3, <2>1 DEF TreeTypes
<1>6. entry.path = N!Branch \cup {leaf'} /\ entry.kind = kind
  BY DEF entry
<1>7. N!Branch \subseteq 1..n /\ \A j \in N!Branch : trunk[j].path = {k \in N!Branch : k <= j}
  BY <1>1, BranchOfTree
<1>8. TreeInv'
  <2> SUFFICES ASSUME NEW i \in 1..(n + 1)
               PROVE  /\ trunk'[i].path \subseteq 1..i /\ i \in trunk'[i].path
                      /\ \A j \in trunk'[i].path : trunk'[j].path = {k \in trunk'[i].path : k <= j}
    BY <1>3 DEF TreeInv
  <2>1. CASE i \in 1..n
    <3>1. /\ trunk[i].path \subseteq 1..i /\ i \in trunk[i].path
          /\ \A j \in trunk[i].path : trunk[j].path = {k \in trunk[i].path : k <= j}
      BY <1>1, <2>1 DEF TreeInv
    <3>2. \A j \in trunk[i].path : trunk'[j] = trunk[j]
      BY <1>1, <1>3, <2>1, <3>1
    <3> QED BY <1>3, <2>1, <3>1, <3>2
  <2>2. CASE i = n + 1
    <3> DEFINE p == N!Branch \cup {n + 1}
    <3>1. trunk'[i].path = p
      BY <1>1, <1>3, <1>6, <2>2
    <3>2. ASSUME NEW j \in p PROVE trunk'[j].path = {k \in p : k <= j}
      <4>1. CASE j = n + 1
        <5>1. \A k \in p : k <= j
          BY <1>1, <1>7, <4>1
        <5> QED BY <2>2, <3>1, <4>1, <5>1
      <4>2. CASE j \in N!Branch
        <5>1. trunk'[j].path = {k \in N!Branch : k <= j}
          BY <1>3, <1>7, <4>2
        <5>2. ~(n + 1 <= j)
          BY <1>1, <1>7, <4>2
        <5> QED BY <5>1, <5>2
      <4> QED BY <4>1, <4>2
    <3>3. p \subseteq 1..i /\ i \in p
      BY <1>1, <1>7, <2>2
    <3> HIDE DEF p
    <3> QED BY <3>1, <3>2, <3>3
  <2> QED BY <1>1, <2>1, <2>2
<1>9. Extends /\ leaf' \notin DOMAIN trunk /\ DOMAIN trunk' = DOMAIN trunk \cup {leaf'}
  BY <1>1, <1>3 DEF Extends
<1>10. N!Branch' = N!Branch \cup {leaf'}
  <2>1. leaf' # 0
    BY <1>1
  <2> QED BY <1>3, <1>6, <2>1 DEF N!Branch
<1>11. N!Messages(N!Branch)' = N!Messages(N!Branch) \cup (IF kind = "message" THEN {leaf'} ELSE {})
  <2>1. N!Messages(N!Branch)' = {i \in N!Branch \cup {leaf'} : trunk'[i].kind = "message"}
    BY <1>10 DEF N!Messages
  <2>2. \A i \in N!Branch : trunk'[i] = trunk[i]
    BY <1>3, <1>7
  <2> QED BY <1>3, <1>6, <2>1, <2>2 DEF N!Messages
<1> QED BY <1>3, <1>5, <1>8, <1>9, <1>10, <1>11 DEF entry

LEMMA SessionRests ==
  ASSUME TreeTypes, TreeInv, N!NothingForgotten, UNCHANGED <<trunk, leaf>>
  PROVE  /\ TreeTypes' /\ TreeInv' /\ N!NothingForgotten' /\ Extends
         /\ N!Messages(N!Branch)' = N!Messages(N!Branch)
         /\ N!PiContext(N!Branch)' = N!PiContext(N!Branch)
         /\ N!Branch' = N!Branch
<1>1. TreeTypes' /\ TreeInv' /\ Extends
  BY DEF TreeTypes, TreeInv, Extends
<1>2. N!NothingForgotten' /\ N!Branch' = N!Branch
  BY DEF N!NothingForgotten, N!Messages, N!Branch
<1>3. N!Messages(N!Branch)' = N!Messages(N!Branch)
  BY DEF N!Messages, N!Branch
<1>4. N!PiContext(N!Branch)' = N!PiContext(N!Branch)
  BY DEF N!PiContext, N!LatestCompaction, N!Messages, N!Branch, N!Max
<1> QED BY <1>1, <1>2, <1>3, <1>4

LEMMA CapturedStays ==
  ASSUME TreeTypes, TreeInv, Extends, NEW s, CapturedInv(s)
  PROVE  CapturedInv(s)'
<1> SUFFICES ASSUME s # Nobody, s.leaf \in DOMAIN trunk, s.leaf # 0
             PROVE  N!Messages(trunk[s.leaf].path)' \subseteq s.covers
  BY DEF CapturedInv, Extends
<1>1. N!Messages(trunk[s.leaf].path) \subseteq s.covers
  BY DEF CapturedInv
<1>2. trunk'[s.leaf].path = trunk[s.leaf].path
  BY DEF Extends
<1>3. N!Messages(trunk[s.leaf].path)' = {m \in trunk'[s.leaf].path : trunk'[m].kind = "message"}
  BY DEF N!Messages
<1>4. \A m \in trunk[s.leaf].path : trunk'[m] = trunk[m]
  BY DEF TreeTypes, TreeInv, Extends
<1> QED BY <1>1, <1>2, <1>3, <1>4 DEF N!Messages

LEMMA HeldStays ==
  ASSUME TreeTypes, TreeInv, Extends, CapturedInv(held), held' = held
  PROVE  CapturedInv(held)'
<1> SUFFICES ASSUME held # Nobody
             PROVE  /\ held.leaf \in DOMAIN trunk' \cup {0}
                    /\ held.leaf # 0 => {m \in trunk'[held.leaf].path : trunk'[m].kind = "message"} \subseteq held.covers
  BY DEF CapturedInv, N!Messages
<1>1. held.leaf \in DOMAIN trunk \cup {0} /\ (held.leaf # 0 => N!Messages(trunk[held.leaf].path) \subseteq held.covers)
  BY DEF CapturedInv
<1>2. held.leaf \in DOMAIN trunk => /\ trunk'[held.leaf].path = trunk[held.leaf].path
                                    /\ \A m \in trunk[held.leaf].path : trunk'[m] = trunk[m]
  BY DEF TreeTypes, TreeInv, Extends
<1> QED BY <1>1, <1>2 DEF N!Messages, Extends

(* What an entry forgets, it forgot before; so only a new one matters.     *)
LEMMA OldEntriesRemember ==
  ASSUME TreeTypes, TreeInv, Extends, N!NothingForgotten, DOMAIN trunk' = DOMAIN trunk \cup {leaf'},
         trunk'[leaf'].kind \in {"native", "plain"} => N!Messages(trunk[leaf].path)' \subseteq trunk'[leaf'].covers
  PROVE  N!NothingForgotten'
<1> SUFFICES ASSUME NEW i \in DOMAIN trunk', trunk'[i].kind \in {"native", "plain"}
             PROVE  {m \in trunk'[i].path : trunk'[m].kind = "message"} \subseteq trunk'[i].covers
  BY DEF N!NothingForgotten, N!Messages
<1>1. CASE i = leaf'
  BY <1>1 DEF N!Messages
<1>2. CASE i \in DOMAIN trunk
  <2>1. trunk'[i] = trunk[i] /\ \A m \in trunk[i].path : trunk'[m] = trunk[m]
    BY <1>2 DEF TreeTypes, TreeInv, Extends
  <2>2. N!Messages(trunk[i].path) \subseteq trunk[i].covers
    BY <1>2, <2>1 DEF N!NothingForgotten
  <2> QED BY <2>1, <2>2 DEF N!Messages
<1> QED BY <1>1, <1>2

(* The session grows, and a compaction, or a stream, is let alone.         *)
LEMMA CompactorStays ==
  ASSUME TreeTypes, TreeInv, Extends, NEW c, CompactorInv(c), compaction'[c] = compaction[c]
  PROVE  CompactorInv(c)'
<1> DEFINE k == compaction[c]
<1>1. CapturedInv(compaction[c].snapshot)'
  <2> DEFINE s == compaction[c].snapshot
  <2>1. CapturedInv(s) BY DEF CompactorInv
  <2>2. s' = s BY Zenon
  <2>3. ASSUME s # Nobody PROVE s.leaf \in DOMAIN trunk' \cup {0} /\ (s.leaf # 0 => {m \in trunk'[s.leaf].path : trunk'[m].kind = "message"} \subseteq s.covers)
    <3>1. s.leaf \in DOMAIN trunk \cup {0} /\ (s.leaf # 0 => N!Messages(trunk[s.leaf].path) \subseteq s.covers)
      BY <2>1, <2>3 DEF CapturedInv
    <3>2. s.leaf \in DOMAIN trunk => trunk'[s.leaf].path = trunk[s.leaf].path
      BY DEF Extends
    <3>3. s.leaf \in DOMAIN trunk => \A m \in trunk[s.leaf].path : trunk'[m] = trunk[m]
      BY DEF TreeTypes, TreeInv, Extends
    <3> QED BY <3>1, <3>2, <3>3 DEF N!Messages, Extends
  <2> QED BY <2>2, <2>3 DEF CapturedInv, N!Messages
<1>2. k.pc # "idle" => k.on \subseteq DOMAIN trunk'
  BY DEF CompactorInv, Extends
<1>3. k.pc # "idle" /\ ~k.native => {m \in k.on : trunk'[m].kind = "message"} \subseteq k.covers
  <2>1. k.pc # "idle" => \A m \in k.on : trunk'[m] = trunk[m]
    BY DEF CompactorInv, Extends
  <2> QED BY <2>1 DEF CompactorInv, N!Messages
<1> QED BY <1>1, <1>2, <1>3 DEF CompactorInv, N!Messages

IsNormal(s) == s.pc # "idle" /\ s.mode = "normal"

LEMMA StreamStays ==
  ASSUME TreeTypes, TreeInv, Extends, NEW r \in Requests, StreamInv(r), request'[r] = request[r],
         \/ N!PiContext(N!Branch)' = N!PiContext(N!Branch) /\ N!Messages(N!Branch)' = N!Messages(N!Branch) /\ model' = model
         \/ request[r].pc # "started",
         IsNormal(request[r]) => N!Messages(N!Branch)' \subseteq N!Messages(N!Branch),
         IsNormal(request[r]) => \A q \in Requests : IsNormal(request'[q]) => q = r \/ IsNormal(request[q])
  PROVE  StreamInv(r)'
<1> DEFINE s == request[r]
<1>1. IsNormal(s) => /\ N!Messages(N!Branch)' \subseteq s.need
                     /\ \A q \in Requests : IsNormal(request'[q]) => q = r
  BY DEF StreamInv, IsNormal
<1>2. s.pc = "started" => s.need = N!Messages(N!Branch)' /\ s.covers = N!PiContext(N!Branch)' /\ s.model = model' /\ s.plan.kind = "none"
  BY DEF StreamInv
<1>3. s.pc = "hooked" /\ s.plan.kind = "send" /\ s.mode = "normal" =>
          /\ s.plan.leaf \in DOMAIN trunk' \cup {0}
          /\ s.plan.leaf # 0 => {m \in trunk'[s.plan.leaf].path : trunk'[m].kind = "message"} \subseteq s.need
  <2> SUFFICES ASSUME s.pc = "hooked", s.plan.kind = "send", s.mode = "normal"
               PROVE  /\ s.plan.leaf \in DOMAIN trunk' \cup {0}
                      /\ s.plan.leaf # 0 => {m \in trunk'[s.plan.leaf].path : trunk'[m].kind = "message"} \subseteq s.need
    OBVIOUS
  <2> DEFINE l == s.plan.leaf
  <2>1. l \in DOMAIN trunk \cup {0} /\ (l # 0 => N!Messages(trunk[l].path) \subseteq s.need)
    BY DEF StreamInv
  <2>2. l \in DOMAIN trunk => trunk'[l].path = trunk[l].path /\ \A m \in trunk[l].path : trunk'[m] = trunk[m]
    BY DEF TreeTypes, TreeInv, Extends
  <2> HIDE DEF l
  <2>3. l \in DOMAIN trunk' \cup {0} /\ (l # 0 => {m \in trunk'[l].path : trunk'[m].kind = "message"} \subseteq s.need)
    BY <2>1, <2>2 DEF N!Messages, Extends
  <2> QED BY <2>3 DEF l
<1>4. /\ s.pc \in {"arming", "hooked"} =>
          /\ s.plan.kind = "none" /\ s.model \in Decorated => s.need \subseteq s.covers
          /\ s.plan.kind = "send" =>
                /\ ~s.plan.replays => s.need \subseteq s.covers
                /\ s.plan.replays => s.need \subseteq s.plan.replay
      /\ s.pc = "sent" /\ s.model \in Decorated => s.need \subseteq s.covers
  BY DEF StreamInv
<1>5. \A l : N!Messages(trunk[l].path)' = {m \in trunk'[l].path : trunk'[m].kind = "message"}
  BY DEF N!Messages
<1> HIDE DEF s
<1>6. request'[r] = s
  BY DEF s
<1> QED BY <1>1, <1>2, <1>3, <1>4, <1>5, <1>6 DEF StreamInv, IsNormal, N!Messages

(* A stream moves, and the session rests.                                  *)
LEMMA OneStreamMoves ==
  ASSUME HistoryInv, UNCHANGED <<trunk, leaf, model, compaction>>, NEW r \in Requests,
         StreamTypes', CaptureTypes', \A q \in Requests \ {r} : request'[q] = request[q],
         StreamInv(r)', IsNormal(request'[r]) => IsNormal(request[r]),
         held' = held \/ CapturedInv(held)'
  PROVE  HistoryInv'
<1>1. TreeTypes' /\ TreeInv' /\ N!NothingForgotten' /\ Extends
      /\ N!Messages(N!Branch)' = N!Messages(N!Branch) /\ N!PiContext(N!Branch)' = N!PiContext(N!Branch)
  BY SessionRests DEF HistoryInv
<1>2. ASSUME NEW q \in Requests PROVE StreamInv(q)'
  <2>1. CASE q # r
    <3>1. StreamInv(q) /\ request'[q] = request[q]
      BY <2>1 DEF HistoryInv
    <3>2. \A p \in Requests : IsNormal(request'[p]) => p = q \/ IsNormal(request[p])
      OBVIOUS
    <3> QED BY <1>1, <3>1, <3>2, StreamStays DEF HistoryInv
  <2> QED BY <2>1
<1>3. CapturedInv(held)'
  <2>1. CASE held' = held
    BY <1>1, <2>1 DEF HistoryInv, CapturedInv, N!Messages, Extends
  <2> QED BY <2>1
<1>4. CompactorTypes' /\ \A c \in Compactions : CompactorInv(c)'
  <2>1. \A c \in Compactions : CompactorInv(c) /\ compaction'[c] = compaction[c]
    BY DEF HistoryInv
  <2> QED BY <1>1, <2>1, CompactorStays DEF HistoryInv, CompactorTypes
<1> QED BY <1>1, <1>2, <1>3, <1>4 DEF HistoryInv

LEMMA NoStream == N!NoRequest \in Streams /\ N!NoRequest.pc = "idle" /\ N!NoRequest.plan.kind = "none"
<1>1. N!NoPlan \in Plans /\ N!NoPlan.kind = "none"
  BY DEF N!NoPlan, Plans
<1> HIDE DEF N!NoPlan, Plans
<1> QED BY <1>1 DEF N!NoRequest, Streams, StreamStages

LEMMA IdleStream ==
  ASSUME NEW r, request'[r].pc = "idle"
  PROVE  StreamInv(r)' /\ ~IsNormal(request'[r])
BY DEF StreamInv, IsNormal

LEMMA ArmedStream ==
  ASSUME NEW s \in Streams, NEW plan \in Plans
  PROVE  LET t == [s EXCEPT !.pc = "hooked", !.arming = TRUE, !.plan = plan]
         IN  /\ t \in Streams /\ t.pc = "hooked" /\ t.plan = plan /\ t.mode = s.mode
             /\ t.model = s.model /\ t.need = s.need /\ t.covers = s.covers
<1> HIDE DEF Plans
<1> QED BY DEF Streams, StreamStages

LEMMA ArmsOrDrops ==
  ASSUME StreamTypes, CaptureTypes,
         NEW r \in Requests, NEW plan \in Plans, N!Arms(r, plan)
  PROVE  /\ StreamTypes' /\ epoch' \in Nat /\ newest' \in Nat /\ held' \in {held, Nobody}
         /\ \A q \in Requests \ {r} : request'[q] = request[q]
         /\ \/ request'[r].pc = "idle"
            \/ /\ request'[r].pc = "hooked" /\ request'[r].plan = plan
               /\ request'[r].mode = request[r].mode /\ request'[r].model = request[r].model
               /\ request'[r].need = request[r].need /\ request'[r].covers = request[r].covers
<1>1. request \in [Requests -> Streams] /\ request[r] \in Streams
  BY DEF StreamTypes
<1>2. CASE request[r].scoped /\ request[r].generation = epoch
  <2> DEFINE t == [request[r] EXCEPT !.pc = "hooked", !.arming = TRUE, !.plan = plan]
  <2>1. request' = [request EXCEPT ![r] = t]
    <3>1. request' = [request EXCEPT ![r].pc = "hooked", ![r].arming = TRUE, ![r].plan = plan]
      BY <1>2 DEF N!Arms
    <3> HIDE DEF Streams, Plans
    <3> QED BY <1>1, <3>1
  <2>2. /\ t \in Streams /\ t.pc = "hooked" /\ t.plan = plan /\ t.mode = request[r].mode
        /\ t.model = request[r].model /\ t.need = request[r].need /\ t.covers = request[r].covers
    BY <1>1, ArmedStream
  <2>3. request[r].sequence \in Nat
    BY <1>1 DEF Streams
  <2>4. epoch' = epoch /\ newest' \in {request[r].sequence, newest} /\ held' \in {held, Nobody}
    BY <1>2 DEF N!Arms
  <2> HIDE DEF t, Streams
  <2> QED BY <1>1, <2>1, <2>2, <2>3, <2>4 DEF StreamTypes, CaptureTypes
<1>3. CASE ~(request[r].scoped /\ request[r].generation = epoch)
  <2>1. request' = [request EXCEPT ![r] = N!NoRequest] /\ UNCHANGED <<epoch, newest, held>>
    BY <1>3 DEF N!Arms, N!controller
  <2>2. N!NoRequest \in Streams /\ N!NoRequest.pc = "idle"
    BY NoStream
  <2> HIDE DEF Streams
  <2> QED BY <1>1, <2>1, <2>2 DEF StreamTypes, CaptureTypes
<1> QED BY <1>2, <1>3

LEMMA DraftIsPlan ==
  ASSUME TreeTypes, TreeInv, CaptureTypes, N!NothingForgotten, NEW kind \in {"none", "block", "send"}
  PROVE  /\ N!Draft(kind) \in Plans /\ N!Draft(kind).kind = kind /\ N!Draft(kind).leaf = leaf
         /\ N!Draft(kind).replay = N!ReplayHistory(N!Branch)
         /\ N!Draft(kind).replays = (N!Checkpoint(N!Branch) = "native")
<1>1. N!ReplayHistory(N!Branch) \in SUBSET Nat
  BY ContextIsWhole
<1>2. Len(trunk) \in Nat /\ DOMAIN trunk = 1..Len(trunk)
  BY DEF TreeTypes
<1>3. leaf \in Nat /\ model \in Models
  BY <1>2 DEF TreeTypes, CaptureTypes
<1> QED BY <1>1, <1>3 DEF N!Draft, Plans

LEMMA Contexts ==
  TreeTypes /\ TreeInv => N!PiContext(N!Branch) \in SUBSET Nat /\ N!Messages(N!Branch) \in SUBSET Nat
<1> SUFFICES ASSUME TreeTypes, TreeInv
             PROVE  N!PiContext(N!Branch) \in SUBSET Nat /\ N!Messages(N!Branch) \in SUBSET Nat
  OBVIOUS
<1> DEFINE b == N!Branch
           k == N!LatestCompaction(b)
<1>1. b \subseteq DOMAIN trunk /\ Len(trunk) \in Nat /\ DOMAIN trunk = 1..Len(trunk)
  BY BranchOfTree DEF TreeTypes
<1>2. b \subseteq Nat /\ N!Messages(b) \subseteq b
  BY <1>1 DEF N!Messages
<1>3. k \in {0} \cup b
  BY BranchOfTree, LatestOfBranch
<1>4. k # 0 => trunk[k].covers \in SUBSET Nat
  <2>1. k # 0 => trunk[k] \in TreeEntries
    BY <1>1, <1>3 DEF TreeTypes
  <2> HIDE DEF k
  <2> QED BY <2>1 DEF TreeEntries
<1> HIDE DEF b
<1>5. N!PiContext(b) \subseteq Nat
  <2>1. N!PiContext(b) = {i \in N!Messages(b) : i > k} \cup (IF k # 0 /\ trunk[k].kind = "plain" THEN trunk[k].covers ELSE {})
    BY DEF N!PiContext
  <2> HIDE DEF k
  <2> QED BY <1>2, <1>4, <2>1
<1> QED BY <1>2, <1>5 DEF b

LEMMA ContextsNext ==
  TreeTypes' /\ TreeInv' => N!PiContext(N!Branch)' \in SUBSET Nat /\ N!Messages(N!Branch)' \in SUBSET Nat
<1>1. (TreeTypes /\ TreeInv)' => (N!PiContext(N!Branch) \in SUBSET Nat /\ N!Messages(N!Branch) \in SUBSET Nat)'
  BY Contexts, PTL
<1> QED BY <1>1

LEMMA EntryAppended ==
  ASSUME TreeTypes, TreeInv, NEW kind \in {"message", "native", "plain"}, NEW covers \in SUBSET Nat,
         NEW by \in Models \cup {Nobody}, N!Append1(kind, covers, by)
  PROVE  [kind |-> kind, path |-> N!Branch \cup {leaf'}, covers |-> covers, by |-> by] \in TreeEntries
<1>1. Len(trunk) \in Nat /\ DOMAIN trunk = 1..Len(trunk)
  BY DEF TreeTypes
<1>2. N!Branch \subseteq DOMAIN trunk
  BY BranchOfTree
<1>3. leaf' \in Nat /\ N!Branch \subseteq Nat
  BY <1>1, <1>2 DEF N!Append1
<1> QED BY <1>3 DEF TreeEntries

LEMMA MessageAppended ==
  ASSUME TreeTypes, TreeInv, N!NothingForgotten, N!Append1("message", {}, Nobody)
  PROVE  TreeTypes' /\ TreeInv' /\ Extends /\ N!NothingForgotten'
<1>1. [kind |-> "message", path |-> N!Branch \cup {leaf'}, covers |-> {}, by |-> Nobody] \in TreeEntries
  BY EntryAppended
<1>2. /\ TreeTypes' /\ TreeInv' /\ Extends /\ DOMAIN trunk' = DOMAIN trunk \cup {leaf'}
      /\ trunk'[leaf'] = [kind |-> "message", path |-> N!Branch \cup {leaf'}, covers |-> {}, by |-> Nobody]
  BY <1>1, Appended
<1>3. trunk'[leaf'].kind = "message"
  BY <1>2
<1> QED BY <1>2, <1>3, OldEntriesRemember

(* A message is appended and sent, or Pi summarizes.                       *)
LEMMA StartsKeeps ==
  ASSUME HistoryInv, N!HookIsFirst, HooksAreFirst, NEW r \in Requests,
         NEW mode \in {"normal", "summarization"}, NEW scoped \in BOOLEAN, N!Starts(r, mode, scoped)
  PROVE  HistoryInv'
<1> DEFINE need == N!Messages(N!Branch)'
           covers == N!PiContext(N!Branch)'
           t == [N!NoRequest EXCEPT !.pc = "started", !.mode = mode, !.model = model,
                      !.scoped = scoped, !.generation = epoch, !.sequence = invocations',
                      !.need = need, !.covers = covers]
<1>1. request' = [request EXCEPT ![r] = t] /\ request[r].pc = "idle" /\ invocations' = invocations + 1
  BY DEF N!Starts
<1>2. UNCHANGED <<model, epoch, newest, held, compaction>> /\ CaptureTypes'
  BY DEF N!Starts, N!controller, HistoryInv, CaptureTypes
<1>3. request \in [Requests -> Streams]
  BY DEF HistoryInv, StreamTypes
<1>4. ASSUME TreeTypes', TreeInv', N!NothingForgotten'
      PROVE  /\ t \in Streams /\ t.pc = "started" /\ t.mode = mode /\ t.model = model
             /\ t.need = need /\ t.covers = covers /\ t.plan.kind = "none"
  <2>1. covers \in SUBSET Nat /\ need \in SUBSET Nat
    BY <1>4, ContextsNext
  <2>2. invocations' \in Nat
    BY <1>2 DEF CaptureTypes
  <2>3. t = [N!NoRequest EXCEPT !.pc = "started", !.mode = mode, !.model = model,
                      !.scoped = scoped, !.generation = epoch, !.sequence = invocations',
                      !.need = need, !.covers = covers]
    OBVIOUS
  <2>4. CaptureTypes
    BY DEF HistoryInv
  <2>5. N!NoRequest \in Streams /\ N!NoRequest.plan.kind = "none"
    BY NoStream
  <2> HIDE DEF t, need, covers, N!NoRequest, Plans
  <2> QED BY <2>1, <2>2, <2>3, <2>4, <2>5 DEF Streams, StreamStages, CaptureTypes
<1> HIDE DEF t, Streams
<1>5. ASSUME TreeTypes', TreeInv', N!NothingForgotten', \A q \in Requests : IsNormal(t) => ~IsNormal(request[q])
      PROVE  /\ StreamTypes' /\ StreamInv(r)' /\ \A q \in Requests \ {r} : request'[q] = request[q]
             /\ request'[r] = t
  <2>1. StreamTypes'
    BY <1>1, <1>3, <1>4, <1>5 DEF StreamTypes
  <2>2. request'[r] = t /\ \A q \in Requests \ {r} : request'[q] = request[q]
    BY <1>1, <1>3
  <2>3. \A q \in Requests : IsNormal(t) /\ IsNormal(request'[q]) => q = r
    BY <1>5, <2>2
  <2> QED BY <1>2, <1>4, <1>5, <2>1, <2>2, <2>3 DEF StreamInv, IsNormal
<1>6. CASE mode = "summarization"
  <2>1. UNCHANGED <<trunk, leaf>>
    BY <1>6 DEF N!Starts
  <2>2. TreeTypes' /\ TreeInv' /\ N!NothingForgotten'
    BY <2>1, SessionRests DEF HistoryInv
  <2>3. ~IsNormal(t)
    BY <1>4, <1>6, <2>2 DEF IsNormal
  <2> QED BY <1>2, <1>5, <2>1, <2>2, <2>3, OneStreamMoves
<1>7. CASE mode = "normal"
  <2>1. N!PiIsIdle /\ N!Append1("message", {}, Nobody)
    BY <1>7 DEF N!Starts
  <2>4. TreeTypes' /\ TreeInv' /\ Extends
    BY <2>1, MessageAppended DEF HistoryInv
  <2>5. N!NothingForgotten'
    BY <2>1, MessageAppended DEF HistoryInv
  <2>6. \A q \in Requests : ~IsNormal(request[q])
    BY <2>1 DEF N!PiIsIdle, IsNormal
  <2>7. ASSUME NEW q \in Requests PROVE StreamInv(q)'
    <3>1. CASE q # r
      <4>1. request'[q].pc = "idle"
        BY <1>5, <2>1, <2>4, <2>5, <2>6, <3>1 DEF N!PiIsIdle
      <4> QED BY <4>1, IdleStream
    <3> QED BY <1>5, <2>4, <2>5, <2>6, <3>1
  <2>8. CapturedInv(held)'
    <3>1. CapturedInv(held) /\ held' = held
      BY <1>2 DEF HistoryInv
    <3> QED BY <2>4, <3>1, HeldStays DEF HistoryInv
  <2>9. CompactorTypes' /\ \A c \in Compactions : CompactorInv(c)'
    <3>1. \A c \in Compactions : CompactorInv(c) /\ compaction'[c] = compaction[c]
      BY <1>2 DEF HistoryInv
    <3> QED BY <1>2, <2>4, <3>1, CompactorStays DEF HistoryInv, CompactorTypes
  <2> QED BY <1>2, <1>5, <2>4, <2>5, <2>6, <2>7, <2>8, <2>9 DEF HistoryInv
<1> QED BY <1>6, <1>7

(* A plan is armed that stands for what the stream started with.           *)
LEMMA ArmingKeeps ==
  ASSUME HistoryInv, UNCHANGED <<trunk, leaf, model, compaction, invocations>>,
         NEW r \in Requests, NEW plan \in Plans, request[r].pc \in {"started", "arming"}, N!Arms(r, plan),
         plan.kind = "none" /\ request[r].model \in Decorated => request[r].need \subseteq request[r].covers,
         plan.kind = "send" =>
            /\ plan.leaf = leaf
            /\ ~plan.replays => request[r].need \subseteq request[r].covers
            /\ plan.replays => request[r].need \subseteq plan.replay
  PROVE  HistoryInv'
<1> DEFINE s == request[r]
           t == request'[r]
<1>1. /\ StreamTypes' /\ epoch' \in Nat /\ newest' \in Nat /\ held' \in {held, Nobody}
      /\ \A q \in Requests \ {r} : request'[q] = request[q]
      /\ \/ t.pc = "idle"
         \/ t.pc = "hooked" /\ t.plan = plan /\ t.mode = s.mode /\ t.model = s.model /\ t.need = s.need /\ t.covers = s.covers
  BY ArmsOrDrops DEF HistoryInv
<1>2. CaptureTypes'
  BY <1>1 DEF HistoryInv, CaptureTypes
<1>3. held' = held \/ CapturedInv(held)'
  BY <1>1 DEF CapturedInv
<1>4. StreamInv(r)' /\ (IsNormal(t) => IsNormal(s))
  <2>1. CASE t.pc = "idle"
    BY <2>1, IdleStream
  <2>2. CASE t.pc # "idle"
    <3>1. t.pc = "hooked" /\ t.plan = plan /\ t.mode = s.mode /\ t.model = s.model /\ t.need = s.need /\ t.covers = s.covers
      BY <1>1, <2>2
    <3>2. s.mode = "normal" => /\ N!Messages(N!Branch) \subseteq s.need
                               /\ \A q \in Requests : IsNormal(request[q]) => q = r
      BY DEF HistoryInv, StreamInv, IsNormal
    <3>3. N!Messages(N!Branch)' = N!Messages(N!Branch)
      BY SessionRests DEF HistoryInv
    <3>4. s.mode = "normal" => \A q \in Requests : IsNormal(request'[q]) => q = r
      BY <1>1, <3>2
    <3>5. leaf \in DOMAIN trunk \cup {0} /\ (leaf # 0 => N!Branch = trunk[leaf].path)
      BY DEF HistoryInv, TreeTypes, N!Branch
    <3>6. leaf # 0 => {m \in trunk'[leaf].path : trunk'[m].kind = "message"} = N!Messages(N!Branch)
      BY <3>5 DEF N!Messages
    <3>7. s.pc # "idle" BY Zenon
    <3> HIDE DEF s, t
    <3>8. t = request'[r] BY DEF t
    <3>9. plan.kind = "send" /\ t.mode = "normal" =>
             /\ t.plan.leaf \in DOMAIN trunk' \cup {0}
             /\ t.plan.leaf # 0 => {m \in trunk'[t.plan.leaf].path : trunk'[m].kind = "message"} \subseteq t.need
      BY <3>1, <3>2, <3>5, <3>6
    <3>10. \A l : N!Messages(trunk[l].path)' = {m \in trunk'[l].path : trunk'[m].kind = "message"}
      BY DEF N!Messages
    <3>11. t.mode = "normal" => N!Messages(N!Branch)' \subseteq t.need
      BY <3>1, <3>2, <3>3
    <3>12. /\ plan.kind = "none" /\ t.model \in Decorated => t.need \subseteq t.covers
           /\ plan.kind = "send" =>
                /\ ~plan.replays => t.need \subseteq t.covers
                /\ plan.replays => t.need \subseteq plan.replay
      BY <3>1 DEF s
    <3>13. IsNormal(t) => IsNormal(s)
      BY <3>1, <3>7 DEF IsNormal
    <3>14. StreamInv(r)'
      BY <3>1, <3>4, <3>8, <3>9, <3>10, <3>11, <3>12 DEF StreamInv, IsNormal
    <3> QED BY <3>13, <3>14
  <2> QED BY <2>1, <2>2
<1> QED BY <1>1, <1>2, <1>3, <1>4, OneStreamMoves

LEMMA HookKeeps ==
  ASSUME HistoryInv, SessionPartsAssumption, NEW r \in Requests, N!Hook(r)
  PROVE  HistoryInv'
<1> DEFINE s == request[r]
           checkpoint == N!Checkpoint(N!Branch)
<1>1. s.pc = "started" /\ UNCHANGED <<trunk, leaf, model, compaction, invocations>>
  BY DEF N!Hook, N!session
<1>2. s.need = N!Messages(N!Branch) /\ s.covers = N!PiContext(N!Branch) /\ s.model = model /\ s.plan.kind = "none"
  BY <1>1 DEF HistoryInv, StreamInv
<1>3. /\ checkpoint \in {"none", "plain"} => s.need \subseteq s.covers
      /\ checkpoint = "native" => s.need \subseteq N!ReplayHistory(N!Branch)
      /\ checkpoint \in {"none", "native", "plain", "malformed"}
  BY <1>2, ContextIsWhole DEF HistoryInv
<1>4. /\ N!Draft("block") \in Plans /\ N!Draft("block").kind = "block"
      /\ N!Draft("send") \in Plans /\ N!Draft("send").kind = "send"
      /\ N!Draft("send").replay = N!ReplayHistory(N!Branch) /\ N!Draft("send").replays = (checkpoint = "native")
  BY DraftIsPlan DEF HistoryInv
<1>5. CASE N!Arms(r, N!Draft("block"))
  BY <1>1, <1>4, <1>5, ArmingKeeps
<1> DEFINE Moves(pc, plan) ==
              /\ StreamTypes' /\ \A q \in Requests \ {r} : request'[q] = request[q]
              /\ request'[r].pc = pc /\ request'[r].plan = plan /\ request'[r].mode = s.mode
              /\ request'[r].model = s.model /\ request'[r].need = s.need /\ request'[r].covers = s.covers
<1>6. ASSUME NEW pc \in {"hooked", "arming"}, NEW plan, Moves(pc, plan), UNCHANGED <<epoch, newest, held>>,
             plan.kind \in {"none", "send"},
             plan.kind = "none" => model \notin Decorated \/ s.need \subseteq s.covers,
             plan.kind = "send" =>
                /\ pc = "arming"
                /\ ~plan.replays => s.need \subseteq s.covers
                /\ plan.replays => s.need \subseteq plan.replay
      PROVE HistoryInv'
  <2>1. CaptureTypes'
    BY <1>1, <1>6 DEF HistoryInv, CaptureTypes
  <2>2. s.mode = "normal" => /\ N!Messages(N!Branch) \subseteq s.need
                             /\ \A q \in Requests : IsNormal(request[q]) => q = r
    BY <1>1 DEF HistoryInv, StreamInv, IsNormal
  <2>3. N!Messages(N!Branch)' = N!Messages(N!Branch)
    BY <1>1, SessionRests DEF HistoryInv
  <2>4. s.mode = "normal" => \A q \in Requests : IsNormal(request'[q]) => q = r
    BY <1>6, <2>2
  <2>5. StreamInv(r)'
    BY <1>2, <1>6, <2>2, <2>3, <2>4 DEF StreamInv, IsNormal
  <2>6. IsNormal(request'[r]) => IsNormal(request[r])
    BY <1>1, <1>6 DEF IsNormal
  <2> QED BY <1>1, <1>6, <2>1, <2>5, <2>6, OneStreamMoves
<1>7. request \in [Requests -> Streams] /\ s \in Streams
  BY DEF HistoryInv, StreamTypes
<1>8. CASE /\ model \notin Decorated \/ checkpoint \in {"none", "plain"}
           /\ request' = [request EXCEPT ![r].pc = "hooked"] /\ UNCHANGED N!controller
  <2>1. Moves("hooked", s.plan)
    BY <1>7, <1>8 DEF StreamTypes, Streams, StreamStages
  <2>2. UNCHANGED <<epoch, newest, held>>
    BY <1>8 DEF N!controller
  <2> HIDE DEF Moves, s
  <2> QED BY <1>2, <1>3, <1>6, <1>8, <2>1, <2>2
<1>9. CASE /\ checkpoint \in {"none", "plain", "native"}
           /\ request' = [request EXCEPT ![r].pc = "arming", ![r].plan = N!Draft("send")] /\ UNCHANGED N!controller
  <2>1. Moves("arming", N!Draft("send"))
    <3> HIDE DEF Plans
    <3> QED BY <1>4, <1>7, <1>9 DEF StreamTypes, Streams, StreamStages
  <2>2. UNCHANGED <<epoch, newest, held>>
    BY <1>9 DEF N!controller
  <2> HIDE DEF Moves, s
  <2> QED BY <1>2, <1>3, <1>4, <1>6, <1>9, <2>1, <2>2
<1>10. \/ N!Arms(r, N!Draft("block"))
       \/ /\ model \notin Decorated \/ checkpoint \in {"none", "plain"}
          /\ request' = [request EXCEPT ![r].pc = "hooked"] /\ UNCHANGED N!controller
       \/ /\ checkpoint \in {"none", "plain", "native"}
          /\ request' = [request EXCEPT ![r].pc = "arming", ![r].plan = N!Draft("send")] /\ UNCHANGED N!controller
  <2> HIDE DEF s, checkpoint
  <2> QED BY <1>3 DEF N!Hook, checkpoint
<1> QED BY <1>5, <1>8, <1>9, <1>10

LEMMA HookArmsKeeps ==
  ASSUME HistoryInv, NEW r \in Requests, N!HookArms(r)
  PROVE  HistoryInv'
<1> DEFINE old == request[r].plan
           plan == [old EXCEPT !.leaf = leaf]
<1>1. request[r].pc = "arming" /\ N!Arms(r, plan) /\ UNCHANGED <<trunk, leaf, model, compaction, invocations>>
  BY DEF N!HookArms, N!session
<1>2. leaf \in Nat
  BY DEF HistoryInv, TreeTypes
<1>3. old \in Plans
  <2>1. request[r] \in Streams
    BY DEF HistoryInv, StreamTypes
  <2> HIDE DEF Plans
  <2> QED BY <2>1 DEF Streams
<1>4. /\ plan \in Plans /\ plan.kind = old.kind /\ plan.leaf = leaf
      /\ plan.replays = old.replays /\ plan.replay = old.replay
  <2> HIDE DEF old
  <2> QED BY <1>2, <1>3 DEF Plans
<1>5. /\ old.kind = "none" /\ request[r].model \in Decorated => request[r].need \subseteq request[r].covers
      /\ old.kind = "send" =>
            /\ ~old.replays => request[r].need \subseteq request[r].covers
            /\ old.replays => request[r].need \subseteq old.replay
  BY <1>1 DEF HistoryInv, StreamInv
<1> HIDE DEF plan
<1> QED BY <1>1, <1>4, <1>5, ArmingKeeps

(* A stream ends, or its fields that matter stay.                          *)
LEMMA StreamEnds ==
  ASSUME HistoryInv, UNCHANGED <<trunk, leaf, model, compaction, epoch, newest, invocations>>, NEW r \in Requests,
         request' = [request EXCEPT ![r] = N!NoRequest],
         held' = held \/ (held' \in Captured \cup {Nobody} /\ CapturedInv(held)')
  PROVE  HistoryInv'
<1>1. request \in [Requests -> Streams] /\ N!NoRequest \in Streams /\ N!NoRequest.pc = "idle"
  BY NoStream DEF HistoryInv, StreamTypes
<1> HIDE DEF Streams
<1>2. StreamTypes' /\ request'[r].pc = "idle" /\ \A q \in Requests \ {r} : request'[q] = request[q]
  BY <1>1 DEF StreamTypes
<1>3. CaptureTypes'
  BY DEF HistoryInv, CaptureTypes
<1> QED BY <1>2, <1>3, IdleStream, OneStreamMoves

LEMMA AbortKeeps == ASSUME HistoryInv, NEW r \in Requests, N!Abort(r) PROVE HistoryInv'
<1> DEFINE s == request[r]
           t == request'[r]
<1>1. /\ request \in [Requests -> Streams] /\ request' = [request EXCEPT ![r].aborted = TRUE]
      /\ UNCHANGED <<trunk, leaf, model, compaction, epoch, newest, invocations, held>>
  BY DEF HistoryInv, StreamTypes, N!Abort, N!session, N!controller
<1>2. /\ StreamTypes' /\ \A q \in Requests \ {r} : request'[q] = request[q]
      /\ t.pc = s.pc /\ t.mode = s.mode /\ t.model = s.model /\ t.plan = s.plan /\ t.need = s.need /\ t.covers = s.covers
  <2> HIDE DEF Plans
  <2> QED BY <1>1 DEF StreamTypes, Streams
<1>3. CaptureTypes'
  BY <1>1 DEF HistoryInv, CaptureTypes
<1>4. StreamInv(r)'
  <2>1. /\ N!Messages(N!Branch)' = N!Messages(N!Branch) /\ N!PiContext(N!Branch)' = N!PiContext(N!Branch)
    BY <1>1, SessionRests DEF HistoryInv
  <2>2. IsNormal(s) => \A q \in Requests : IsNormal(request'[q]) => q = r
    BY <1>2 DEF HistoryInv, StreamInv, IsNormal
  <2>3. StreamInv(r)
    BY DEF HistoryInv
  <2>4. \A l : N!Messages(trunk[l].path)' = N!Messages(trunk[l].path)
    BY <1>1 DEF N!Messages
  <2>5. s = request[r] /\ t = request'[r] BY Zenon
  <2> HIDE DEF s, t
  <2> QED BY <1>1, <1>2, <2>1, <2>2, <2>3, <2>4, <2>5 DEF StreamInv, IsNormal
<1>5. IsNormal(t) => IsNormal(s)
  BY <1>2 DEF IsNormal
<1> QED BY <1>1, <1>2, <1>3, <1>4, <1>5, OneStreamMoves

LEMMA AnswersKeeps == ASSUME HistoryInv, NEW r \in Requests, \A q \in Requests : request[q].pc # "started", N!Answers(r) PROVE HistoryInv'
<1>1. /\ request[r].pc = "sent" /\ request' = [request EXCEPT ![r] = N!NoRequest]
      /\ UNCHANGED <<model, compaction, epoch, newest, invocations, held>>
  BY DEF N!Answers, N!controller
<1>2. CASE UNCHANGED <<trunk, leaf>>
  BY <1>1, <1>2, StreamEnds
<1>3. CASE request[r].mode = "normal" /\ N!Append1("message", {}, Nobody)
  <2>1. /\ TreeTypes' /\ TreeInv' /\ Extends /\ N!NothingForgotten'
    BY <1>3, MessageAppended DEF HistoryInv
  <2>2. request \in [Requests -> Streams] /\ N!NoRequest \in Streams /\ N!NoRequest.pc = "idle"
    BY NoStream DEF HistoryInv, StreamTypes
  <2>3. StreamTypes' /\ request'[r].pc = "idle" /\ \A q \in Requests \ {r} : request'[q] = request[q]
    <3> HIDE DEF Streams
    <3> QED BY <1>1, <2>2 DEF StreamTypes
  <2>4. CaptureTypes'
    BY <1>1 DEF HistoryInv, CaptureTypes
  <2>5. \A q \in Requests \ {r} : ~IsNormal(request[q])
    BY <1>1, <1>3 DEF HistoryInv, StreamInv, IsNormal
  <2>6. ASSUME NEW q \in Requests PROVE StreamInv(q)'
    <3>1. CASE q = r
      BY <2>3, <3>1, IdleStream
    <3>2. CASE q # r
      <4>1. StreamInv(q) /\ request'[q] = request[q] /\ request[q].pc # "started" /\ ~IsNormal(request[q])
        BY <2>3, <2>5, <3>2 DEF HistoryInv
      <4> QED BY <2>1, <4>1, StreamStays DEF HistoryInv
    <3> QED BY <3>1, <3>2
  <2>7. CapturedInv(held)'
    BY <1>1, <2>1, HeldStays DEF HistoryInv
  <2>8. CompactorTypes' /\ \A c \in Compactions : CompactorInv(c)'
    <3>1. \A c \in Compactions : CompactorInv(c) /\ compaction'[c] = compaction[c]
      BY <1>1 DEF HistoryInv
    <3> QED BY <1>1, <2>1, <3>1, CompactorStays DEF HistoryInv, CompactorTypes
  <2> QED BY <2>1, <2>3, <2>4, <2>6, <2>7, <2>8 DEF HistoryInv
<1> QED BY <1>2, <1>3 DEF N!Answers

LEMMA SendKeeps ==
  ASSUME HistoryInv, UNCHANGED <<trunk, leaf, model, compaction, epoch, newest, invocations>>,
         NEW r \in Requests, request[r].pc = "hooked", NEW covers \in SUBSET Nat, N!Sends(r, covers),
         request[r].model \in Decorated => request[r].need \subseteq covers,
         held' = held \/ (held' \in Captured \cup {Nobody} /\ CapturedInv(held)')
  PROVE  HistoryInv'
<1> DEFINE s == request[r]
           t == [s EXCEPT !.pc = "sent", !.covers = covers]
<1>1. CASE s.aborted
  <2>1. request' = [request EXCEPT ![r] = N!NoRequest]
    BY <1>1 DEF N!Sends
  <2> QED BY <2>1, StreamEnds
<1>2. CASE ~s.aborted
  <2>1. request' = [request EXCEPT ![r] = t]
    BY <1>2 DEF N!Sends
  <2>2. request \in [Requests -> Streams] /\ s \in Streams
    BY DEF HistoryInv, StreamTypes
  <2>3. t \in Streams /\ t.pc = "sent" /\ t.mode = s.mode /\ t.model = s.model /\ t.need = s.need /\ t.covers = covers
    <3> HIDE DEF s, Plans
    <3> QED BY <2>2 DEF Streams, StreamStages
  <2>4. StreamTypes' /\ request'[r] = t /\ \A q \in Requests \ {r} : request'[q] = request[q]
    <3> HIDE DEF t, Streams
    <3> QED BY <2>1, <2>2, <2>3 DEF StreamTypes
  <2>5. CaptureTypes'
    BY DEF HistoryInv, CaptureTypes
  <2>6. IsNormal(s) <=> IsNormal(t)
    BY <2>3 DEF IsNormal
  <2>7. IsNormal(s) => /\ N!Messages(N!Branch) \subseteq s.need
                       /\ \A q \in Requests : IsNormal(request[q]) => q = r
    BY DEF HistoryInv, StreamInv, IsNormal
  <2>8. N!Messages(N!Branch)' = N!Messages(N!Branch)
    BY SessionRests DEF HistoryInv
  <2>9. StreamInv(r)'
    <3>1. IsNormal(t) => \A q \in Requests : IsNormal(request'[q]) => q = r
      BY <2>4, <2>6, <2>7
    <3>2. t.model \in Decorated => t.need \subseteq t.covers
      BY <2>3
    <3> HIDE DEF t
    <3> QED BY <2>3, <2>4, <2>6, <2>7, <2>8, <3>1, <3>2 DEF StreamInv, IsNormal
  <2> HIDE DEF t
  <2> QED BY <2>4, <2>5, <2>6, <2>9, OneStreamMoves
<1> QED BY <1>1, <1>2

LEMMA TransportKeeps ==
  ASSUME HistoryInv, NEW r \in Requests, NEW intact \in BOOLEAN, N!Transport(r, intact)
  PROVE  HistoryInv'
<1> DEFINE s == request[r]
           plan == s.plan
           whole == IF plan.replays THEN plan.replay ELSE s.covers
<1>1. s.pc = "hooked" /\ UNCHANGED <<trunk, leaf, model, compaction, epoch, newest, invocations>>
  BY DEF N!Transport, N!session
<1>2. /\ s.need \in SUBSET Nat /\ s.covers \in SUBSET Nat
      /\ plan.kind \in {"none", "block", "send"} /\ plan.by \in Models \cup {Nobody}
      /\ plan.replays \in BOOLEAN /\ plan.replay \in SUBSET Nat /\ plan.leaf \in Nat
  <2>1. s \in Streams
    BY DEF HistoryInv, StreamTypes
  <2> HIDE DEF s
  <2> QED BY <2>1 DEF Streams, Plans
<1>3. /\ plan.kind = "none" /\ s.model \in Decorated => s.need \subseteq s.covers
      /\ plan.kind = "send" =>
            /\ ~plan.replays => s.need \subseteq s.covers
            /\ plan.replays => s.need \subseteq plan.replay
      /\ plan.kind = "send" /\ s.mode = "normal" =>
            /\ plan.leaf \in DOMAIN trunk \cup {0}
            /\ plan.leaf # 0 => N!Messages(trunk[plan.leaf].path) \subseteq s.need
  BY <1>1 DEF HistoryInv, StreamInv
<1>4. CASE plan.kind = "none" /\ N!Sends(r, s.covers) /\ held' = held
  BY <1>1, <1>2, <1>3, <1>4, SendKeeps
<1>5. ASSUME plan.kind = "send", NEW more \in {{}, s.covers}, whole \cup more \in SUBSET Nat,
             N!Sends(r, whole \cup more),
             held' = held \/ (s.mode = "normal" /\ held' = [leaf |-> plan.leaf, by |-> plan.by, covers |-> whole])
      PROVE HistoryInv'
  <2>1. s.need \subseteq whole /\ whole \in SUBSET Nat
    BY <1>2, <1>3, <1>5
  <2>2. held' = held \/ (held' \in Captured \cup {Nobody} /\ CapturedInv(held)')
    <3>1. CASE s.mode = "normal" /\ held' = [leaf |-> plan.leaf, by |-> plan.by, covers |-> whole]
      <4>1. held' \in Captured
        <5> HIDE DEF plan, whole
        <5> QED BY <1>2, <2>1, <3>1 DEF Captured
      <4>2. held'.leaf = plan.leaf /\ held'.covers = whole
        BY <3>1
      <4>3. plan.leaf # 0 => {m \in trunk'[plan.leaf].path : trunk'[m].kind = "message"} \subseteq s.need
        BY <1>1, <1>3, <1>5, <3>1 DEF N!Messages
      <4>4. plan.leaf \in DOMAIN trunk' \cup {0}
        BY <1>1, <1>3, <1>5, <3>1
      <4> HIDE DEF plan, whole, s
      <4>5. CapturedInv(held)'
        BY <2>1, <4>2, <4>3, <4>4 DEF CapturedInv, N!Messages
      <4> QED BY <4>1, <4>5
    <3> QED BY <1>5, <3>1
  <2>3. s.need \subseteq whole \cup more
    BY <2>1
  <2> HIDE DEF whole
  <2> QED BY <1>1, <1>5, <2>2, <2>3, SendKeeps
<1>6. CASE plan.kind = "send" /\ ~plan.replays /\ N!Sends(r, s.covers) /\ held' \in {held, Nobody}
  <2>1. held' = held \/ (held' \in Captured \cup {Nobody} /\ CapturedInv(held)')
    BY <1>6 DEF CapturedInv
  <2> QED BY <1>1, <1>2, <1>3, <1>6, <2>1, SendKeeps
<1>7. CASE request' = [request EXCEPT ![r] = N!NoRequest] /\ held' = held
  BY <1>1, <1>7, StreamEnds
<1>8. \/ plan.kind = "none" /\ N!Sends(r, s.covers) /\ held' = held
      \/ /\ plan.kind = "send"
         /\ \E more \in {{}, s.covers} : N!Sends(r, whole \cup more)
         /\ held' = held \/ (s.mode = "normal" /\ held' = [leaf |-> plan.leaf, by |-> plan.by, covers |-> whole])
      \/ plan.kind = "send" /\ ~plan.replays /\ N!Sends(r, s.covers) /\ held' \in {held, Nobody}
      \/ request' = [request EXCEPT ![r] = N!NoRequest] /\ held' = held
  <2>1. CASE plan.kind = "none"
    BY <2>1 DEF N!Transport
  <2>2. CASE plan.kind = "block"
    BY <2>2 DEF N!Transport, N!OwnsNativeHistory
  <2>3. CASE plan.kind = "send"
    <3> DEFINE current == s.generation = epoch
               fits == plan.by = s.model /\ intact
               ordered == current /\ s.sequence >= newest
    <3>1. CASE current /\ fits
      <4>1. /\ N!Sends(r, IF plan.replays
                            THEN plan.replay \cup (IF s.mode = "normal" THEN {} ELSE s.covers)
                            ELSE s.covers)
            /\ held' = IF s.mode = "normal" /\ ordered
                       THEN [leaf |-> plan.leaf, by |-> plan.by, covers |-> whole] ELSE held
        BY <2>3, <3>1 DEF N!Transport
      <4>2. \E more \in {{}, s.covers} :
               (IF plan.replays THEN plan.replay \cup (IF s.mode = "normal" THEN {} ELSE s.covers) ELSE s.covers) = whole \cup more
        <5>1. CASE ~plan.replays
          BY <5>1
        <5>2. CASE plan.replays /\ s.mode = "normal"
          BY <5>2
        <5>3. CASE plan.replays /\ s.mode # "normal"
          BY <5>3
        <5> QED BY <5>1, <5>2, <5>3
      <4> QED BY <2>3, <4>1, <4>2
    <3>2. CASE ~(current /\ fits)
      BY <2>3, <3>2 DEF N!Transport, N!OwnsNativeHistory
    <3> QED BY <3>1, <3>2
  <2> QED BY <1>2, <2>1, <2>2, <2>3
<1>9. \A more \in {{}, s.covers} : whole \cup more \in SUBSET Nat
  BY <1>2
<1> HIDE DEF whole
<1> QED BY <1>4, <1>5, <1>6, <1>7, <1>8, <1>9

(* A compaction moves, and the session rests.                              *)
LEMMA GoesKeeps ==
  ASSUME HistoryInv, UNCHANGED <<trunk, leaf, model, epoch, newest, held, request, invocations>>,
         NEW c \in Compactions, NEW pc \in {"idle", "auth", "remote", "held", "pi"}, NEW k \in CompactionRuns,
         N!Goes(c, pc, k),
         pc # "idle" => /\ k.on \subseteq DOMAIN trunk
                        /\ ~k.native => N!Messages(k.on) \subseteq k.covers,
         pc = "pi" => ~k.native,
         CapturedInv(k.snapshot)
  PROVE  HistoryInv'
<1> DEFINE t == [k EXCEPT !.pc = pc]
<1>1. /\ TreeTypes' /\ TreeInv' /\ N!NothingForgotten' /\ Extends
      /\ N!Messages(N!Branch)' = N!Messages(N!Branch) /\ N!PiContext(N!Branch)' = N!PiContext(N!Branch)
  BY SessionRests DEF HistoryInv
<1>2. CaptureTypes' /\ StreamTypes'
  BY DEF HistoryInv, CaptureTypes, StreamTypes
<1>3. compaction' = [compaction EXCEPT ![c] = t] /\ compaction \in [Compactions -> CompactionRuns]
  BY DEF N!Goes, HistoryInv, CompactorTypes
<1>4. /\ t \in CompactionRuns /\ t.pc = pc /\ t.on = k.on /\ t.covers = k.covers
      /\ t.native = k.native /\ t.snapshot = k.snapshot
  <2> HIDE DEF Captured
  <2> QED BY DEF CompactionRuns
<1> HIDE DEF t, CompactionRuns
<1>5. CompactorTypes' /\ compaction'[c] = t /\ \A d \in Compactions \ {c} : compaction'[d] = compaction[d]
  BY <1>3, <1>4 DEF CompactorTypes
<1>6. ASSUME NEW r \in Requests PROVE StreamInv(r)'
  BY <1>1, StreamStays DEF HistoryInv
<1>7. CapturedInv(held)'
  BY <1>1, HeldStays DEF HistoryInv
<1>8. ASSUME NEW d \in Compactions PROVE CompactorInv(d)'
  <2>1. CASE d # c
    BY <1>1, <1>5, <2>1, CompactorStays DEF HistoryInv
  <2>2. CASE d = c
    <3>1. \A b : N!Messages(b)' = N!Messages(b)
      BY DEF N!Messages
    <3>2. \A s : CapturedInv(s)' = CapturedInv(s)
      BY <3>1 DEF CapturedInv
    <3>3. CapturedInv(t.snapshot) BY <1>4
    <3>4. CapturedInv(compaction[c].snapshot)'
      BY <1>5, <3>1, <3>3 DEF CapturedInv
    <3> QED BY <1>4, <1>5, <2>2, <3>1, <3>4 DEF CompactorInv
  <2> QED BY <2>1, <2>2
<1> QED BY <1>1, <1>2, <1>5, <1>6, <1>7, <1>8 DEF HistoryInv

LEMMA NoCompactor == N!NoCompaction \in CompactionRuns /\ N!NoCompaction.pc = "idle" /\ N!NoCompaction.snapshot = Nobody
<1> HIDE DEF Captured
<1> QED BY DEF N!NoCompaction, CompactionRuns

LEMMA CancelKeeps ==
  ASSUME HistoryInv, UNCHANGED <<trunk, leaf, model, epoch, newest, held, request, invocations>>,
         NEW c \in Compactions, N!Cancels(c)
  PROVE  HistoryInv'
<1>1. N!Goes(c, "idle", N!NoCompaction)
  BY DEF N!Cancels
<1>2. CapturedInv(N!NoCompaction.snapshot)
  BY NoCompactor DEF CapturedInv
<1> QED BY <1>1, <1>2, NoCompactor, GoesKeeps

(* The provider or the key fails: Pi's compactor goes on, if it can.       *)
LEMMA FailKeeps ==
  ASSUME HistoryInv, UNCHANGED <<trunk, leaf, model, epoch, newest, held, request, invocations>>,
         NEW c \in Compactions, NEW k \in CompactionRuns, NEW owned, N!NativeFails(c, k, owned),
         k.on \subseteq DOMAIN trunk, ~k.native => N!Messages(k.on) \subseteq k.covers, CapturedInv(k.snapshot)
  PROVE  HistoryInv'
<1>1. CASE k.native
  BY <1>1, CancelKeeps DEF N!NativeFails
<1>2. CASE ~k.native
  <2>1. N!Goes(c, "pi", k)
    BY <1>2 DEF N!NativeFails
  <2> QED BY <1>2, <2>1, GoesKeeps
<1> QED BY <1>1, <1>2

LEMMA RunningCompaction ==
  ASSUME HistoryInv, NEW c \in Compactions, compaction[c].pc # "idle"
  PROVE  /\ compaction[c] \in CompactionRuns /\ compaction[c].on \subseteq DOMAIN trunk
         /\ ~compaction[c].native => N!Messages(compaction[c].on) \subseteq compaction[c].covers
         /\ CapturedInv(compaction[c].snapshot)
<1> HIDE DEF CompactionRuns
<1> QED BY DEF HistoryInv, CompactorTypes, CompactorInv

LEMMA BeginKeeps ==
  ASSUME HistoryInv, NEW c \in Compactions, N!Begin(c)
  PROVE  HistoryInv'
<1> DEFINE checkpoint == N!Checkpoint(N!Branch)
           k == [N!NoCompaction EXCEPT !.on = N!Branch, !.covers = N!PiContext(N!Branch),
                    !.native = (checkpoint = "native"), !.snapshot = held]
<1>1. UNCHANGED <<trunk, leaf, model, epoch, newest, held, request, invocations>>
  BY DEF N!Begin, N!session
<1>2. /\ N!Branch \subseteq DOMAIN trunk /\ N!Branch \subseteq Nat
      /\ N!PiContext(N!Branch) \in SUBSET Nat
      /\ checkpoint \in {"none", "plain"} => N!Messages(N!Branch) \subseteq N!PiContext(N!Branch)
      /\ checkpoint \in {"none", "native", "plain", "malformed"}
  <2>1. DOMAIN trunk \subseteq Nat
    BY DEF HistoryInv, TreeTypes
  <2> QED BY <2>1, BranchOfTree, ContextIsWhole DEF HistoryInv
<1>3. held \in Captured \cup {Nobody} /\ CapturedInv(held)
  BY DEF HistoryInv, CaptureTypes
<1>4. /\ k \in CompactionRuns /\ k.on = N!Branch /\ k.covers = N!PiContext(N!Branch)
      /\ (k.native <=> checkpoint = "native") /\ k.snapshot = held
  <2> DEFINE branch == N!Branch
             said == N!PiContext(N!Branch)
             native_ == (checkpoint = "native")
  <2>1. branch \in SUBSET Nat /\ said \in SUBSET Nat /\ native_ \in BOOLEAN
    BY <1>2
  <2>2. k = [N!NoCompaction EXCEPT !.on = branch, !.covers = said, !.native = native_, !.snapshot = held]
    OBVIOUS
  <2> HIDE DEF branch, said, native_, k, Captured
  <2>3. k \in CompactionRuns /\ k.on = branch /\ k.covers = said /\ k.native = native_ /\ k.snapshot = held
    BY <1>3, <2>1, <2>2, NoCompactor DEF CompactionRuns
  <2> QED BY <2>3 DEF branch, said, native_
<1>5. CASE N!Cancels(c)
  BY <1>1, <1>5, CancelKeeps
<1>6. CASE checkpoint # "malformed" /\ N!NativeFails(c, k, FALSE)
  <2>1. ~k.native => N!Messages(k.on) \subseteq k.covers
    BY <1>2, <1>4, <1>6
  <2> HIDE DEF k
  <2> QED BY <1>1, <1>2, <1>3, <1>4, <1>6, <2>1, FailKeeps
<1>7. ASSUME checkpoint # "malformed", NEW pc \in {"pi", "auth"}, N!Goes(c, pc, k), pc = "pi" => checkpoint # "native"
      PROVE HistoryInv'
  <2>1. ~k.native => N!Messages(k.on) \subseteq k.covers
    BY <1>2, <1>4, <1>7
  <2>2. pc = "pi" => ~k.native
    BY <1>4, <1>7
  <2> HIDE DEF k
  <2> QED BY <1>1, <1>2, <1>3, <1>4, <1>7, <2>1, <2>2, GoesKeeps
<1>8. \/ N!Cancels(c)
      \/ checkpoint # "malformed" /\ N!NativeFails(c, k, FALSE)
      \/ checkpoint # "malformed" /\ N!Goes(c, "auth", k)
      \/ checkpoint # "malformed" /\ N!Goes(c, "pi", k) /\ checkpoint # "native"
  BY DEF N!Begin
<1> HIDE DEF k, checkpoint
<1> QED BY <1>5, <1>6, <1>7, <1>8

LEMMA CompactionKeeps ==
  ASSUME HistoryInv, NEW c \in Compactions, NEW ok \in BOOLEAN,
         N!Authenticates(c, ok) \/ N!RemoteFails(c, ok) \/ N!RemoteAnswers(c) \/ N!GivesUp(c)
  PROVE  HistoryInv'
<1> DEFINE k == compaction[c]
<1>1. UNCHANGED <<trunk, leaf, model, epoch, newest, held, request, invocations>> /\ k.pc # "idle"
  BY DEF N!Authenticates, N!RemoteFails, N!RemoteAnswers, N!GivesUp, N!session
<1>2. /\ k \in CompactionRuns /\ k.on \subseteq DOMAIN trunk
      /\ ~k.native => N!Messages(k.on) \subseteq k.covers
      /\ CapturedInv(k.snapshot)
  BY <1>1, RunningCompaction
<1>3. CASE N!Cancels(c)
  BY <1>1, <1>3, CancelKeeps
<1>4. CASE N!NativeFails(c, k, TRUE)
  <2> HIDE DEF k
  <2> QED BY <1>1, <1>2, <1>4, FailKeeps
<1>5. ASSUME NEW pc \in {"remote", "held"}, N!Goes(c, pc, k) PROVE HistoryInv'
  <2> HIDE DEF k
  <2> QED BY <1>1, <1>2, <1>5, GoesKeeps
<1>6. CASE k.pc = "remote" /\ compaction' = [compaction EXCEPT ![c].attempt = @ + 1]
  <2> DEFINE t == [k EXCEPT !.attempt = @ + 1]
  <2>1. t \in CompactionRuns /\ t.pc = k.pc /\ t.on = k.on /\ t.covers = k.covers /\ t.native = k.native /\ t.snapshot = k.snapshot
    <3> HIDE DEF k, Captured
    <3> QED BY <1>2 DEF CompactionRuns
  <2>2. [t EXCEPT !.pc = "remote"] = t
    <3> HIDE DEF t
    <3> QED BY <1>6, <2>1 DEF CompactionRuns
  <2>3. compaction' = [compaction EXCEPT ![c] = t]
    BY <1>6
  <2> HIDE DEF t, k
  <2>4. N!Goes(c, "remote", t)
    BY <2>2, <2>3 DEF N!Goes
  <2> QED BY <1>1, <1>2, <2>1, <2>4, GoesKeeps
<1>7. \/ N!Cancels(c) \/ N!NativeFails(c, k, TRUE) \/ N!Goes(c, "remote", k) \/ N!Goes(c, "held", k)
      \/ k.pc = "remote" /\ compaction' = [compaction EXCEPT ![c].attempt = @ + 1]
  BY DEF N!Authenticates, N!RemoteFails, N!RemoteAnswers, N!GivesUp
<1> HIDE DEF k
<1> QED BY <1>3, <1>4, <1>5, <1>6, <1>7

(* The session moves, no hook is about to run, and the extension is reset. *)
LEMMA SessionMoves ==
  ASSUME HistoryInv, TreeTypes', TreeInv', N!NothingForgotten', Extends, model' \in Models,
         N!Reset, UNCHANGED <<request, invocations>>,
         \A r \in Requests : request[r].pc # "started",
         \A r \in Requests : IsNormal(request[r]) => N!Messages(N!Branch)' \subseteq N!Messages(N!Branch),
         CompactorTypes', \A c \in Compactions : compaction'[c] \in {compaction[c], N!NoCompaction}
  PROVE  HistoryInv'
<1>1. CaptureTypes' /\ held' = Nobody
  BY DEF N!Reset, HistoryInv, CaptureTypes
<1>2. StreamTypes'
  BY DEF HistoryInv, StreamTypes
<1>3. ASSUME NEW r \in Requests PROVE StreamInv(r)'
  BY StreamStays DEF HistoryInv
<1>4. CapturedInv(held)'
  BY <1>1 DEF CapturedInv
<1>5. ASSUME NEW c \in Compactions PROVE CompactorInv(c)'
  <2>1. CASE compaction'[c] = compaction[c]
    BY <2>1, CompactorStays DEF HistoryInv
  <2>2. CASE compaction'[c] = N!NoCompaction
    <3>1. compaction'[c].pc = "idle" /\ compaction'[c].snapshot = Nobody
      BY <2>2, NoCompactor
    <3> QED BY <3>1 DEF CompactorInv, CapturedInv
  <2> QED BY <2>1, <2>2
<1> QED BY <1>1, <1>2, <1>3, <1>4, <1>5 DEF HistoryInv

LEMMA SelectModelKeeps ==
  ASSUME HistoryInv, \A r \in Requests : request[r].pc # "started", NEW m \in Models, N!SelectModel(m)
  PROVE  HistoryInv'
<1>1. UNCHANGED <<trunk, leaf, request, invocations, compaction>> /\ N!Reset /\ model' = m
  BY DEF N!SelectModel
<1>2. /\ TreeTypes' /\ TreeInv' /\ N!NothingForgotten' /\ Extends
      /\ N!Messages(N!Branch)' = N!Messages(N!Branch)
  BY <1>1, SessionRests DEF HistoryInv
<1>3. CompactorTypes'
  BY <1>1 DEF HistoryInv, CompactorTypes
<1> QED BY <1>1, <1>2, <1>3, SessionMoves

LEMMA NavigateKeeps ==
  ASSUME HistoryInv, NEW i \in DOMAIN trunk \cup {0}, N!Navigate(i)
  PROVE  HistoryInv'
<1>1. UNCHANGED <<trunk, model, request, invocations>> /\ N!Reset /\ leaf' = i /\ N!PiIsIdle
  BY DEF N!Navigate
<1>2. TreeTypes' /\ TreeInv' /\ N!NothingForgotten' /\ Extends
  BY <1>1 DEF HistoryInv, TreeTypes, TreeInv, N!NothingForgotten, N!Messages, Extends
<1>3. \A r \in Requests : request[r].pc = "idle" /\ ~IsNormal(request[r])
  BY <1>1 DEF N!PiIsIdle, IsNormal
<1>4. CompactorTypes' /\ \A c \in Compactions : compaction'[c] \in {compaction[c], N!NoCompaction}
  <2>1. compaction' = [c \in Compactions |-> IF compaction[c].pc = "pi" THEN N!NoCompaction ELSE compaction[c]]
    BY DEF N!Navigate
  <2>2. compaction \in [Compactions -> CompactionRuns]
    BY DEF HistoryInv, CompactorTypes
  <2> HIDE DEF CompactionRuns
  <2> QED BY <2>1, <2>2, NoCompactor DEF CompactorTypes
<1>5. model' \in Models
  BY <1>1 DEF HistoryInv, CaptureTypes
<1> QED BY <1>1, <1>2, <1>3, <1>4, <1>5, SessionMoves

(* A checkpoint is saved that stands for all that its branch says.         *)
LEMMA CheckpointKeeps ==
  ASSUME HistoryInv, \A r \in Requests : request[r].pc # "started",
         NEW kind \in {"native", "plain"}, NEW covers \in SUBSET Nat, NEW by \in Models \cup {Nobody},
         N!Append1(kind, covers, by), N!Messages(N!Branch) \subseteq covers,
         N!Reset, UNCHANGED <<model, request, invocations>>, NEW c \in Compactions, N!Cancels(c)
  PROVE  HistoryInv'
<1>1. [kind |-> kind, path |-> N!Branch \cup {leaf'}, covers |-> covers, by |-> by] \in TreeEntries
  BY EntryAppended DEF HistoryInv
<1>2. /\ TreeTypes' /\ TreeInv' /\ Extends /\ DOMAIN trunk' = DOMAIN trunk \cup {leaf'} /\ leaf' \notin DOMAIN trunk
      /\ trunk'[leaf'] = [kind |-> kind, path |-> N!Branch \cup {leaf'}, covers |-> covers, by |-> by]
      /\ N!Branch' = N!Branch \cup {leaf'}
      /\ N!Messages(N!Branch)' = N!Messages(N!Branch) \cup (IF kind = "message" THEN {leaf'} ELSE {})
  BY <1>1, Appended DEF HistoryInv
<1>3. N!Messages(N!Branch)' = N!Messages(N!Branch)
  BY <1>2
<1>4. N!NothingForgotten'
  <2>1. trunk'[leaf'].covers = covers /\ trunk'[leaf'].path = N!Branch'
    BY <1>2
  <2>2. N!Messages(trunk[leaf].path)' = N!Messages(N!Branch)
    BY <1>3, <2>1 DEF N!Messages
  <2> QED BY <1>2, <2>1, <2>2, OldEntriesRemember DEF HistoryInv
<1>5. CompactorTypes' /\ \A d \in Compactions : compaction'[d] \in {compaction[d], N!NoCompaction}
  <2>1. N!NoCompaction \in CompactionRuns /\ [N!NoCompaction EXCEPT !.pc = "idle"] = N!NoCompaction
    <3>1. [N!NoCompaction EXCEPT !.pc = "idle"] = N!NoCompaction
      <4> HIDE DEF N!NoCompaction, Captured
      <4> QED BY NoCompactor DEF CompactionRuns
    <3> QED BY <3>1, NoCompactor
  <2>2. compaction' = [compaction EXCEPT ![c] = N!NoCompaction] /\ compaction \in [Compactions -> CompactionRuns]
    BY <2>1 DEF N!Cancels, N!Goes, HistoryInv, CompactorTypes
  <2> HIDE DEF CompactionRuns
  <2> QED BY <2>1, <2>2 DEF CompactorTypes
<1>6. model' \in Models
  BY DEF HistoryInv, CaptureTypes
<1> QED BY <1>2, <1>3, <1>4, <1>5, <1>6, SessionMoves

LEMMA SavingKeeps ==
  ASSUME HistoryInv, \A r \in Requests : request[r].pc # "started",
         NEW c \in Compactions, N!Commits(c) \/ N!Summarizes(c)
  PROVE  HistoryInv'
<1> DEFINE k == compaction[c]
           s == k.snapshot
<1>1. UNCHANGED <<model, request, invocations>> /\ N!Cancels(c) /\ k.pc # "idle"
  BY DEF N!Commits, N!Summarizes
<1>2. /\ k \in CompactionRuns /\ k.on \subseteq DOMAIN trunk
      /\ ~k.native => N!Messages(k.on) \subseteq k.covers
      /\ CapturedInv(s)
  BY <1>1, RunningCompaction
<1>3. k.on \in SUBSET Nat /\ k.covers \in SUBSET Nat /\ s \in Captured \cup {Nobody}
  <2> HIDE DEF k, Captured
  <2> QED BY <1>2 DEF CompactionRuns
<1>4. N!Branch \subseteq DOMAIN trunk /\ DOMAIN trunk \subseteq Nat
  BY BranchOfTree DEF HistoryInv, TreeTypes
<1>5. CASE N!Commits(c) /\ N!CanCommit(c)
  <2> DEFINE covers == s.covers \cup {i \in N!Messages(k.on) : i > s.leaf}
  <2>1. N!Append1("native", covers, model) /\ N!Reset
    BY <1>5 DEF N!Commits
  <2>2. k.on = N!Branch /\ s # Nobody /\ s.leaf \in N!Branch
    BY <1>5 DEF N!CanCommit, N!BranchIdsMatch, N!Valid
  <2>3. s.leaf \in DOMAIN trunk /\ s.leaf # 0 /\ s.leaf \in Nat
    BY <1>4, <2>2 DEF HistoryInv, TreeTypes
  <2>4. N!Messages(trunk[s.leaf].path) \subseteq s.covers
    BY <1>2, <2>2, <2>3 DEF CapturedInv
  <2>5. trunk[s.leaf].path = {i \in N!Branch : i <= s.leaf}
    BY <2>2, BranchOfTree DEF HistoryInv
  <2>6. s.covers \in SUBSET Nat
    <3> HIDE DEF s
    <3> QED BY <1>3, <2>2 DEF Captured
  <2>7. covers \in SUBSET Nat
    <3> HIDE DEF k, s
    <3> QED BY <1>3, <2>6 DEF N!Messages
  <2>8. N!Messages(N!Branch) \subseteq covers
    <3> SUFFICES ASSUME NEW i \in N!Branch, trunk[i].kind = "message" PROVE i \in covers
      BY DEF N!Messages
    <3>1. i \in Nat
      BY <1>4
    <3>2. CASE i <= s.leaf
      <4>1. i \in N!Messages(trunk[s.leaf].path)
        BY <2>5, <3>2 DEF N!Messages
      <4> QED BY <2>4, <4>1
    <3>3. CASE i > s.leaf
      BY <2>2, <3>3 DEF N!Messages
    <3> QED BY <2>3, <3>1, <3>2, <3>3
  <2>9. model \in Models \cup {Nobody}
    BY DEF HistoryInv, CaptureTypes
  <2> HIDE DEF covers
  <2> QED BY <1>1, <2>1, <2>7, <2>8, <2>9, CheckpointKeeps
<1>6. CASE N!Commits(c) /\ ~N!CanCommit(c)
  <2>1. UNCHANGED <<trunk, leaf, epoch, newest, held>>
    BY <1>6 DEF N!Commits, N!controller
  <2> QED BY <1>1, <2>1, CancelKeeps
<1>7. CASE N!Summarizes(c)
  <2> DEFINE covers == k.covers \cup (N!Messages(N!Branch) \ k.on)
  <2>1. N!Append1("plain", covers, Nobody) /\ N!Reset /\ k.pc = "pi"
    BY <1>7 DEF N!Summarizes
  <2>2. N!Messages(k.on) \subseteq k.covers
    BY <1>2, <2>1 DEF HistoryInv, CompactorInv
  <2>3. N!Messages(N!Branch) \subseteq covers
    BY <2>2 DEF N!Messages
  <2>4. covers \in SUBSET Nat
    <3> HIDE DEF k
    <3> QED BY <1>3, <1>4 DEF N!Messages
  <2> HIDE DEF covers
  <2> QED BY <1>1, <2>1, <2>3, <2>4, CheckpointKeeps
<1> QED BY <1>5, <1>6, <1>7

LEMMA HistoryStarts == ASSUME SessionPartsAssumption, N!Init PROVE HistoryInv
<1>1. CaptureTypes /\ held = Nobody
  BY DEF N!Init, CaptureTypes, SessionPartsAssumption
<1>2. StreamTypes /\ \A r \in Requests : StreamInv(r)
  <2>1. request = [r \in Requests |-> N!NoRequest]
    BY DEF N!Init
  <2> HIDE DEF Streams
  <2>2. StreamTypes /\ \A r \in Requests : request[r].pc = "idle"
    BY <2>1, NoStream DEF StreamTypes
  <2> QED BY <2>2 DEF StreamInv
<1>3. CompactorTypes /\ \A c \in Compactions : CompactorInv(c)
  <2>1. compaction = [c \in Compactions |-> N!NoCompaction]
    BY DEF N!Init
  <2> HIDE DEF CompactionRuns
  <2>2. CompactorTypes /\ \A c \in Compactions : compaction[c].pc = "idle" /\ compaction[c].snapshot = Nobody
    BY <2>1, NoCompactor DEF CompactorTypes
  <2> QED BY <2>2 DEF CompactorInv, CapturedInv
<1>4. TreeTypes /\ TreeInv /\ N!NothingForgotten
  <2>1. CASE trunk = <<>> /\ leaf = 0
    BY <2>1 DEF TreeTypes, TreeInv, N!NothingForgotten
  <2>2. ASSUME NEW kind \in {"native", "malformed"}, NEW by \in Supported, leaf = 2,
               trunk = <<[kind |-> "message", path |-> {1}, covers |-> {}, by |-> Nobody],
                         [kind |-> kind, path |-> {1, 2}, covers |-> {1}, by |-> by]>>
        PROVE  TreeTypes /\ TreeInv /\ N!NothingForgotten
    <3> DEFINE a == [kind |-> "message", path |-> {1}, covers |-> {}, by |-> Nobody]
               b == [kind |-> kind, path |-> {1, 2}, covers |-> {1}, by |-> by]
    <3>1. a \in TreeEntries /\ b \in TreeEntries
      BY DEF TreeEntries, SessionPartsAssumption
    <3>2. /\ a.kind = "message" /\ a.path = {1} /\ b.path = {1, 2} /\ b.covers = {1} /\ b.kind # "message"
      OBVIOUS
    <3>3. trunk = <<a, b>>
      BY <2>2
    <3> HIDE DEF a, b, TreeEntries
    <3>4. trunk \in Seq(TreeEntries) /\ Len(trunk) = 2 /\ trunk[1] = a /\ trunk[2] = b
      BY <3>1, <3>3
    <3>5. DOMAIN trunk = 1..2 /\ 1..2 = {1, 2}
      BY <3>4
    <3>6. TreeTypes
      BY <2>2, <3>4, <3>5 DEF TreeTypes
    <3>7. TreeInv
      BY <3>2, <3>4, <3>5 DEF TreeInv
    <3>8. N!NothingForgotten
      BY <3>2, <3>4, <3>5 DEF N!NothingForgotten, N!Messages
    <3> QED BY <3>6, <3>7, <3>8
  <2> QED BY <2>1, <2>2 DEF N!Init
<1>5. CapturedInv(held)
  BY <1>1 DEF CapturedInv
<1> QED BY <1>1, <1>2, <1>3, <1>4, <1>5 DEF HistoryInv

LEMMA HistoryStep ==
  ASSUME HistoryInv, SessionPartsAssumption, HooksAreFirst, [N!Next]_(N!vars)
  PROVE  HistoryInv'
<1>1. CASE UNCHANGED N!vars
  <2>1. UNCHANGED <<trunk, leaf, model, epoch, newest, held, request, invocations, compaction>>
    BY <1>1 DEF N!vars, N!session, N!controller
  <2>2. /\ TreeTypes' /\ TreeInv' /\ N!NothingForgotten' /\ Extends
        /\ N!Messages(N!Branch)' = N!Messages(N!Branch) /\ N!PiContext(N!Branch)' = N!PiContext(N!Branch)
    BY <2>1, SessionRests DEF HistoryInv
  <2>3. CaptureTypes' /\ StreamTypes' /\ CompactorTypes'
    BY <2>1 DEF HistoryInv, CaptureTypes, StreamTypes, CompactorTypes
  <2>4. ASSUME NEW r \in Requests PROVE StreamInv(r)'
    BY <2>1, <2>2, StreamStays DEF HistoryInv
  <2>5. CapturedInv(held)'
    BY <2>1, <2>2, HeldStays DEF HistoryInv
  <2>6. ASSUME NEW c \in Compactions PROVE CompactorInv(c)'
    BY <2>1, <2>2, CompactorStays DEF HistoryInv
  <2> QED BY <2>2, <2>3, <2>4, <2>5, <2>6 DEF HistoryInv
<1>2. ASSUME NEW r \in Requests, N!Hook(r) PROVE HistoryInv'
  BY <1>2, HookKeeps
<1>3. ASSUME N!HookIsFirst,
             \/ \E r \in Requests :
                   \/ \E mode \in {"normal", "summarization"}, scoped \in BOOLEAN : N!Starts(r, mode, scoped)
                   \/ N!HookArms(r) \/ N!Answers(r) \/ N!Abort(r)
                   \/ \E intact \in BOOLEAN : N!Transport(r, intact)
             \/ \E m \in Models : N!SelectModel(m)
             \/ \E i \in 0..MaxTree : i \in DOMAIN trunk \cup {0} /\ N!Navigate(i)
             \/ \E c \in Compactions :
                   \/ N!Begin(c) \/ N!RemoteAnswers(c) \/ N!Commits(c) \/ N!Summarizes(c) \/ N!GivesUp(c)
                   \/ \E ok \in BOOLEAN : N!Authenticates(c, ok) \/ N!RemoteFails(c, ok)
      PROVE HistoryInv'
  <2>1. \A r \in Requests : request[r].pc # "started"
    BY <1>3 DEF N!HookIsFirst, HooksAreFirst
  <2>2. ASSUME NEW r \in Requests, NEW mode \in {"normal", "summarization"}, NEW scoped \in BOOLEAN, N!Starts(r, mode, scoped)
        PROVE HistoryInv'
    BY <1>3, <2>2, StartsKeeps
  <2>3. ASSUME NEW r \in Requests, N!HookArms(r) \/ N!Answers(r) \/ N!Abort(r) PROVE HistoryInv'
    BY <2>1, <2>3, HookArmsKeeps, AnswersKeeps, AbortKeeps
  <2>4. ASSUME NEW r \in Requests, NEW intact \in BOOLEAN, N!Transport(r, intact) PROVE HistoryInv'
    BY <2>4, TransportKeeps
  <2>5. ASSUME NEW m \in Models, N!SelectModel(m) PROVE HistoryInv'
    BY <2>1, <2>5, SelectModelKeeps
  <2>6. ASSUME NEW i \in DOMAIN trunk \cup {0}, N!Navigate(i) PROVE HistoryInv'
    BY <2>6, NavigateKeeps
  <2>7. ASSUME NEW c \in Compactions, N!Begin(c) PROVE HistoryInv'
    BY <2>7, BeginKeeps
  <2>8. ASSUME NEW c \in Compactions, N!Commits(c) \/ N!Summarizes(c) PROVE HistoryInv'
    BY <2>1, <2>8, SavingKeeps
  <2>9. ASSUME NEW c \in Compactions, NEW ok \in BOOLEAN,
               N!Authenticates(c, ok) \/ N!RemoteFails(c, ok) \/ N!RemoteAnswers(c) \/ N!GivesUp(c)
        PROVE HistoryInv'
    BY <2>9, CompactionKeeps
  <2> QED BY <1>3, <2>2, <2>3, <2>4, <2>5, <2>6, <2>7, <2>8, <2>9
<1> QED BY <1>1, <1>2, <1>3 DEF N!Next

LEMMA InvOfHistoryMeans == HistoryInv => N!NothingForgotten /\ N!SentInFull
BY DEF HistoryInv, StreamInv, N!SentInFull

(* In every reachable state the paths of the tree agree, what was captured *)
(* is whole up to its leaf, a stream has what it started with, and Pi's    *)
(* own compactor has all of its branch (openai-server-compaction.ts).      *)
THEOREM HistoryInvariant == HooksAreFirst => (N!Spec => []HistoryInv)
<1> SUFFICES ASSUME HooksAreFirst PROVE N!Spec => []HistoryInv
  OBVIOUS
<1>1. SessionPartsAssumption
  BY SessionPartsAssumption
<1>2. N!Init => HistoryInv
  BY <1>1, HistoryStarts
<1>3. HistoryInv /\ [N!Next]_(N!vars) => HistoryInv'
  BY <1>1, HistoryStep
<1> QED BY <1>2, <1>3, PTL DEF N!Spec

(* Every checkpoint, the provider's or Pi's, stands for all that was said  *)
(* before it on its branch: an artifact made of an older request, another  *)
(* branch or another model is not saved (session_before_compact, canCommit *)
(* in openai-server-compaction.ts).                                        *)
THEOREM CheckpointsForgetNothing == HooksAreFirst => (N!Spec => []N!NothingForgotten)
<1>1. HistoryInv => N!NothingForgotten BY InvOfHistoryMeans
<1> QED BY HistoryInvariant, <1>1, PTL

(* A request of a wrapped stream says all that was said, or is not sent    *)
(* (before_provider_request, terminalizePayload).                          *)
THEOREM RequestsSayEverything == HooksAreFirst => (N!Spec => []N!SentInFull)
<1>1. HistoryInv => N!SentInFull BY InvOfHistoryMeans
<1> QED BY HistoryInvariant, <1>1, PTL
=============================================================================
