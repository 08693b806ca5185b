--------------------------- MODULE NativeCompaction ---------------------------
(***************************************************************************)
(* Native compaction (pi-openai-server-compaction): the provider compacts  *)
(* the conversation into an opaque artifact, which the extension keeps as  *)
(* a checkpoint of the session and replays in every later request.  The    *)
(* text that Pi holds for such a checkpoint says nothing, so a request or  *)
(* a summary made from it alone forgets the conversation.                  *)
(*                                                                         *)
(* Messages are numbers, and a context is the set of the messages it       *)
(* stands for; how a message is converted, truncated, bounded or kept free *)
(* of credentials is left out.  Pi and the provider are external.          *)
(***************************************************************************)
EXTENDS Integers, Sequences, FiniteSetsExt

CONSTANTS
    Requests, Compactions,      \* streams and hooks that may overlap, as numbers
    Models, Decorated,          \* those whose streams this extension wraps,
    Supported, Codex,           \* those on its allowlist, those of one endpoint
    REMOTE_COMPACTION_MAX_ATTEMPTS,
    HooksAwait,                 \* do other extensions' hooks run before this one's?
    MaxEntries, MaxRequests, MaxCompactions, MaxResets,    \* bounds
    None

VARIABLES
    entries, leaf, model,       \* the session: its tree, and what is selected
    generation, newest, snapshot, activeCompaction, pendingFallback,    \* the extension
    request, invocations,       \* the streams, and how many there were
    compaction, attempts        \* the runs of Pi's compactor, and how many there were

session == <<entries, leaf, model>>
controller == <<generation, newest, snapshot, activeCompaction>>
vars == <<session, controller, pendingFallback, request, invocations, compaction, attempts>>

-----------------------------------------------------------------------------
(* The tree of the session.  An entry knows the path that it ends.         *)

Branch == IF leaf = 0 THEN {} ELSE entries[leaf].path
Messages(b) == {i \in b : entries[i].kind = "message"}

Append1(kind, covers, by) ==
    /\ Len(entries) < MaxEntries
    /\ leaf' = Len(entries) + 1
    /\ entries' = Append(entries, [kind |-> kind, path |-> Branch \cup {leaf'}, covers |-> covers, by |-> by])

(* latestCompaction, and what Pi makes of it.                              *)
LatestCompaction(b) == Max({0} \cup {i \in b : entries[i].kind # "message"})

PiContext(b) ==
    LET k == LatestCompaction(b)
    IN  {i \in Messages(b) : i > k} \cup (IF k # 0 /\ entries[k].kind = "plain" THEN entries[k].covers ELSE {})

(* classifyLatestCheckpoint                                                *)
Checkpoint(b) == LET k == LatestCompaction(b) IN IF k = 0 THEN "none" ELSE entries[k].kind

ReplayIdentitiesMatch(m, n) == m = n \/ {m, n} \subseteq Codex

(* reconstructReplayHistory: the artifact, and everything after it.        *)
ReplayHistory(b) ==
    LET k == LatestCompaction(b)
    IN  IF Checkpoint(b) = "native" THEN entries[k].covers \cup {i \in Messages(b) : i > k} ELSE {}

-----------------------------------------------------------------------------
NoLease == [of |-> None, phase |-> "none"]
NoPlan == [kind |-> "none", by |-> None, replays |-> FALSE, replay |-> {}, leaf |-> 0]
NoRequest == [pc |-> "idle", mode |-> "normal", model |-> None, scoped |-> TRUE, generation |-> 0,
              sequence |-> 0, arming |-> FALSE, aborted |-> FALSE, plan |-> NoPlan,
              need |-> {}, covers |-> {}]
NoCompaction == [pc |-> "idle", on |-> {}, covers |-> {}, native |-> FALSE, snapshot |-> None, attempt |-> 1]

-----------------------------------------------------------------------------
(* Mutants.                                                                *)

OwnsNativeHistory_Block(plan) == plan.kind = "block"
BranchIdsMatch_Any(b) == TRUE

-----------------------------------------------------------------------------
(* A session is new, or is resumed after a checkpoint.                     *)
Init ==
    /\ \E kind \in {"none", "native", "malformed"}, by \in Supported :
          IF kind = "none" THEN entries = <<>> /\ leaf = 0
          ELSE /\ entries = <<[kind |-> "message", path |-> {1}, covers |-> {}, by |-> None],
                              [kind |-> kind, path |-> {1, 2}, covers |-> {1}, by |-> by]>>
               /\ leaf = 2
    /\ model \in Decorated
    /\ generation = 0 /\ newest = 0 /\ snapshot = None /\ activeCompaction = NoLease
    /\ pendingFallback = FALSE
    /\ request = [r \in Requests |-> NoRequest] /\ invocations = 0
    /\ compaction = [c \in Compactions |-> NoCompaction] /\ attempts = 0

-----------------------------------------------------------------------------
(* createPayloadStateController.                                           *)

Reset ==
    /\ generation < MaxResets
    /\ generation' = generation + 1
    /\ newest' = 0 /\ snapshot' = None /\ activeCompaction' = NoLease

(* prepareRequest: a newer normal request supersedes what was captured,    *)
(* and the compaction of it.  A request without a scope, or of an earlier  *)
(* generation, gets a payload that cannot be serialized.                   *)
Arms(r, plan) ==
    IF request[r].scoped /\ request[r].generation = generation
    THEN LET newer == request[r].mode = "normal" /\ request[r].sequence >= newest
         IN  /\ request' = [request EXCEPT ![r].pc = "hooked", ![r].arming = TRUE, ![r].plan = plan]
             /\ newest' = IF newer THEN request[r].sequence ELSE newest
             /\ snapshot' = IF newer THEN None ELSE snapshot
             /\ activeCompaction' = IF newer THEN NoLease ELSE activeCompaction
             /\ UNCHANGED generation
    ELSE /\ request' = [request EXCEPT ![r] = NoRequest]
         /\ UNCHANGED controller

IsCurrentCompaction(c) == activeCompaction.of = c

-----------------------------------------------------------------------------
(* A request of Pi's.                                                      *)

(* It is over when its stream is; Pi does not interrupt a hook.            *)
PiIsIdle == \A r \in Requests : request[r].pc = "idle"

(* Its hook runs in the turn of the loop in which the stream started,      *)
(* unless hooks that run before it await something.                        *)
HookIsFirst == HooksAwait \/ \A r \in Requests : request[r].pc # "started"

(* A message is appended and sent; or Pi summarizes a branch.              *)
Starts(r, mode, scoped) ==
    /\ request[r].pc = "idle" /\ \A q \in Requests : q < r => request[q].pc # "idle"
    /\ invocations < MaxRequests
    /\ IF mode = "normal"
       THEN PiIsIdle /\ Append1("message", {}, None)
       ELSE UNCHANGED <<entries, leaf>>
    /\ invocations' = invocations + 1
    /\ request' = [request EXCEPT ![r] =
            [NoRequest EXCEPT !.pc = "started", !.mode = mode, !.model = model,
                !.scoped = scoped, !.generation = generation,
                !.sequence = invocations', !.need = Messages(Branch)', !.covers = PiContext(Branch)']]
    /\ UNCHANGED <<model, controller, pendingFallback, compaction, attempts>>

Draft(kind) ==
    [kind |-> kind, by |-> model, leaf |-> leaf,
     replays |-> Checkpoint(Branch) = "native", replay |-> ReplayHistory(Branch)]

(* before_provider_request, up to the conversion of the messages.          *)
Hook(r) ==
    /\ request[r].pc = "started"
    /\ pendingFallback' = (pendingFallback /\ (model \notin Decorated \/ request[r].mode # "normal"))
    /\ LET checkpoint == Checkpoint(Branch)
           blocks ==
              \/ checkpoint = "malformed"
              \/ checkpoint = "native" /\ (model \notin Supported
                    \/ ~ReplayIdentitiesMatch(entries[LatestCompaction(Branch)].by, model))
       IN  \/ /\ model \in Decorated /\ blocks
              /\ Arms(r, Draft("block"))
           \/ /\ model \notin Decorated \/ (model \notin Supported /\ ~blocks)
              /\ request' = [request EXCEPT ![r].pc = "hooked"]
              /\ UNCHANGED controller
           \/ /\ model \in Supported /\ ~blocks
              /\ request' = [request EXCEPT ![r].pc = "arming", ![r].plan = Draft("send")]
              /\ UNCHANGED controller
    /\ UNCHANGED <<session, invocations, compaction, attempts>>

(* After the conversion, with the leaf of that moment.                     *)
HookArms(r) ==
    /\ request[r].pc = "arming"
    /\ Arms(r, [request[r].plan EXCEPT !.leaf = leaf])
    /\ UNCHANGED <<session, pendingFallback, invocations, compaction, attempts>>

(* terminalizePayload, the last word before the transport.  A payload is   *)
(* not intact when another hook changed its model or its shape.            *)
OwnsNativeHistory(plan) == plan.kind = "block" \/ plan.replays

Sends(r, covers) ==
    request' = [request EXCEPT ![r] = IF request[r].aborted THEN NoRequest
                                      ELSE [request[r] EXCEPT !.pc = "sent", !.covers = covers]]

Transport(r, intact) ==
    /\ request[r].pc = "hooked"
    /\ LET plan == request[r].plan
           current == request[r].generation = generation
           fits == plan.kind = "send" /\ plan.by = request[r].model /\ intact
           ordered == current /\ request[r].sequence >= newest
       IN  IF plan.kind = "none"
           THEN Sends(r, request[r].covers) /\ UNCHANGED snapshot
           ELSE IF current /\ fits
           THEN /\ Sends(r, IF plan.replays
                            THEN plan.replay \cup (IF request[r].mode = "normal" THEN {} ELSE request[r].covers)
                            ELSE request[r].covers)
                /\ snapshot' = IF request[r].mode = "normal" /\ ordered
                               THEN [leaf |-> plan.leaf, by |-> plan.by,
                                     covers |-> IF plan.replays THEN plan.replay ELSE request[r].covers]
                               ELSE snapshot
           ELSE IF OwnsNativeHistory(plan)
           THEN request' = [request EXCEPT ![r] = NoRequest] /\ UNCHANGED snapshot
           ELSE /\ Sends(r, request[r].covers)
                /\ snapshot' = IF ordered THEN None ELSE snapshot
    /\ UNCHANGED <<session, generation, newest, activeCompaction, pendingFallback, invocations, compaction, attempts>>

(* The provider answers, or the stream fails or is aborted.                *)
Answers(r) ==
    /\ request[r].pc = "sent"
    /\ \/ request[r].mode = "normal" /\ ~request[r].aborted /\ Append1("message", {}, None)
       \/ UNCHANGED <<entries, leaf>>
    /\ request' = [request EXCEPT ![r] = NoRequest]
    /\ UNCHANGED <<model, controller, pendingFallback, invocations, compaction, attempts>>

(* The user presses Escape; hooks that run already are not interrupted.    *)
Abort(r) ==
    /\ request[r].pc \notin {"idle", "sent"} /\ ~request[r].aborted
    /\ request' = [request EXCEPT ![r].aborted = TRUE]
    /\ UNCHANGED <<session, controller, pendingFallback, invocations, compaction, attempts>>

-----------------------------------------------------------------------------
(* Lifecycle events, which reset the extension.                            *)

SelectModel(m) ==
    /\ m # model /\ model' = m
    /\ Reset /\ pendingFallback' = FALSE
    /\ UNCHANGED <<entries, leaf, request, invocations, compaction, attempts>>

(* /tree, or another session of the same file.  Pi gives up what it does.  *)
Navigate(i) ==
    /\ PiIsIdle /\ i # leaf
    /\ leaf' = i
    /\ Reset /\ pendingFallback' = FALSE
    /\ compaction' = [c \in Compactions |-> IF compaction[c].pc = "pi" THEN NoCompaction ELSE compaction[c]]
    /\ UNCHANGED <<entries, model, request, invocations, attempts>>

-----------------------------------------------------------------------------
(* A compaction of Pi's, and session_before_compact.                       *)

Goes(c, pc, fields) == compaction' = [compaction EXCEPT ![c] = [fields EXCEPT !.pc = pc]]
Cancels(c) == Goes(c, "idle", NoCompaction)

(* The catch clause.                                                       *)
NativeFails(c, k, owned) ==
    IF k.native
    THEN Cancels(c) /\ activeCompaction' = NoLease /\ UNCHANGED pendingFallback
    ELSE /\ Goes(c, "pi", k)
         /\ activeCompaction' = IF owned THEN [of |-> c, phase |-> "awaiting-fallback"] ELSE NoLease
         /\ pendingFallback' = (pendingFallback \/ owned)

(* validateSnapshotForCompaction                                           *)
Valid(s) == s # None /\ s.by = model /\ s.leaf \in Branch

Begin(c) ==
    /\ compaction[c].pc = "idle" /\ \A d \in Compactions : d < c => compaction[d].pc # "idle"
    /\ attempts < MaxCompactions /\ Branch # {}
    /\ attempts' = attempts + 1
    /\ LET checkpoint == Checkpoint(Branch)
           k == [NoCompaction EXCEPT !.on = Branch, !.covers = PiContext(Branch),
                    !.native = (checkpoint = "native"), !.snapshot = snapshot]
           refused ==
              \/ checkpoint = "malformed"
              \/ checkpoint = "native" /\ model \notin Supported
              \/ model \in Supported /\ activeCompaction.phase \in {"awaiting-commit", "awaiting-fallback"}
       IN  \/ refused /\ Cancels(c) /\ UNCHANGED <<activeCompaction, pendingFallback>>
           \/ /\ ~refused /\ model \notin Supported
              /\ Goes(c, "pi", k)
              /\ UNCHANGED <<activeCompaction, pendingFallback>>
           \/ /\ ~refused /\ model \in Supported
              /\ IF Valid(snapshot)
                 THEN /\ Goes(c, "auth", k)
                      /\ activeCompaction' = [of |-> c, phase |-> "inflight"]
                      /\ UNCHANGED pendingFallback
                 ELSE NativeFails(c, k, FALSE)
    /\ UNCHANGED <<session, generation, newest, snapshot, request, invocations>>

(* The key of the provider is resolved.                                    *)
Authenticates(c, ok) ==
    /\ compaction[c].pc = "auth"
    /\ IF ~IsCurrentCompaction(c)
       THEN Cancels(c) /\ UNCHANGED <<activeCompaction, pendingFallback>>
       ELSE IF ok
       THEN Goes(c, "remote", compaction[c]) /\ UNCHANGED <<activeCompaction, pendingFallback>>
       ELSE NativeFails(c, compaction[c], TRUE)
    /\ UNCHANGED <<session, generation, newest, snapshot, request, invocations, attempts>>

(* requestServerCompaction: an attempt fails, for a moment or for good.    *)
RemoteFails(c, retryable) ==
    /\ compaction[c].pc = "remote"
    /\ IF ~IsCurrentCompaction(c)
       THEN Cancels(c) /\ UNCHANGED <<activeCompaction, pendingFallback>>
       ELSE IF retryable /\ compaction[c].attempt < REMOTE_COMPACTION_MAX_ATTEMPTS
       THEN /\ compaction' = [compaction EXCEPT ![c].attempt = @ + 1]
            /\ UNCHANGED <<activeCompaction, pendingFallback>>
       ELSE NativeFails(c, compaction[c], TRUE)
    /\ UNCHANGED <<session, generation, newest, snapshot, request, invocations, attempts>>

BranchIdsMatch(b) == Branch = b
CanCommit(c) ==
    IsCurrentCompaction(c) /\ BranchIdsMatch(compaction[c].on) /\ Valid(compaction[c].snapshot)

RemoteAnswers(c) ==
    /\ compaction[c].pc = "remote"
    /\ IF ~IsCurrentCompaction(c)
       THEN Cancels(c) /\ UNCHANGED <<activeCompaction, pendingFallback>>
       ELSE IF ~BranchIdsMatch(compaction[c].on)
       THEN Cancels(c) /\ activeCompaction' = NoLease /\ UNCHANGED pendingFallback
       ELSE IF ~Valid(compaction[c].snapshot)
       THEN NativeFails(c, compaction[c], TRUE)
       ELSE /\ Goes(c, "held", compaction[c])
            /\ activeCompaction' = [of |-> c, phase |-> "awaiting-commit"]
            /\ UNCHANGED pendingFallback
    /\ UNCHANGED <<session, generation, newest, snapshot, request, invocations, attempts>>

(* Pi saves the result that it holds, if its getters still let it.  The    *)
(* artifact stands for what the captured request said, and for the branch  *)
(* after it.  session_compact resets the extension.                        *)
Commits(c) ==
    /\ compaction[c].pc = "held"
    /\ LET s == compaction[c].snapshot
       IN  IF CanCommit(c)
           THEN /\ Append1("native", s.covers \cup {i \in Messages(compaction[c].on) : i > s.leaf}, model)
                /\ Reset /\ pendingFallback' = FALSE
           ELSE UNCHANGED <<entries, leaf, controller, pendingFallback>>
    /\ Cancels(c)
    /\ UNCHANGED <<model, request, invocations, attempts>>

(* Pi's own compactor; it keeps the messages that came meanwhile.          *)
Summarizes(c) ==
    /\ compaction[c].pc = "pi"
    /\ Append1("plain", compaction[c].covers \cup (Messages(Branch) \ compaction[c].on), None)
    /\ Reset /\ pendingFallback' = FALSE
    /\ Cancels(c)
    /\ UNCHANGED <<model, request, invocations, attempts>>

(* The user cancels it, its summary fails, or another hook cancels it.     *)
GivesUp(c) ==
    /\ compaction[c].pc # "idle"
    /\ Cancels(c)
    /\ activeCompaction' = IF IsCurrentCompaction(c) /\ activeCompaction.phase = "inflight"
                           THEN NoLease ELSE activeCompaction
    /\ UNCHANGED <<session, generation, newest, snapshot, pendingFallback, request, invocations, attempts>>

-----------------------------------------------------------------------------
Next ==
    \/ \E r \in Requests : Hook(r)
    \/ /\ HookIsFirst
       /\ \/ \E r \in Requests :
                \/ \E mode \in {"normal", "summarization"}, scoped \in BOOLEAN : Starts(r, mode, scoped)
                \/ HookArms(r) \/ Answers(r) \/ Abort(r)
                \/ \E intact \in BOOLEAN : Transport(r, intact)
          \/ \E m \in Models : SelectModel(m)
          \/ \E i \in 0..MaxEntries : i \in DOMAIN entries \cup {0} /\ Navigate(i)
          \/ \E c \in Compactions :
                \/ Begin(c) \/ RemoteAnswers(c) \/ Commits(c) \/ Summarizes(c) \/ GivesUp(c)
                \/ \E ok \in BOOLEAN : Authenticates(c, ok) \/ RemoteFails(c, ok)

Spec == Init /\ [][Next]_vars

-----------------------------------------------------------------------------
(* Properties.                                                             *)

(* Nothing is forgotten.  Every checkpoint stands for all that was said    *)
(* before it on its branch: an artifact made of an older request, another  *)
(* branch or another model is not saved, however slow the provider was,    *)
(* and Pi never summarizes the placeholder of an artifact.                 *)
NothingForgotten ==
    \A i \in DOMAIN entries :
        entries[i].kind \in {"native", "plain"} => Messages(entries[i].path) \subseteq entries[i].covers

(* "After opaque ownership it fails closed": a request that a wrapped      *)
(* stream sends says all that was said, or it is not sent.                 *)
SentInFull ==
    \A r \in Requests :
        request[r].pc = "sent" /\ request[r].model \in Decorated => request[r].need \subseteq request[r].covers
=============================================================================
