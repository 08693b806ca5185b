---------------------------- MODULE ContextDocument ----------------------------
(***************************************************************************)
(* What pi-clm makes of an edited context document (context-document.ts):  *)
(* the blocks that the model left, changed, moved or added become a        *)
(* message sequence again, whose tool calls and results must fit, and a    *)
(* trace that says where each message went.                                *)
(*                                                                         *)
(* A message is its role and the tool calls that it makes (an assistant)   *)
(* or answers (a toolResult); `of` is the index of the message that it was *)
(* rendered from, 0 for a text that the model wrote.  A text is as it was  *)
(* rendered, shorter, or empty.  Clm.tla has the life of the document.     *)
(***************************************************************************)
EXTENDS Integers, Sequences, FiniteSets, SequencesExt

CONSTANTS
    MaxExchanges, MaxEdits      \* bounds

VARIABLES
    editingMode,
    snapshot,       \* the rendered messages
    doc,            \* the blocks of the document
    preamble,       \* text above the first block
    envelope,       \* what became of the metadata, the headers and the ids
    edits
documentVars == <<editingMode, snapshot, doc, preamble, envelope, edits>>

-----------------------------------------------------------------------------
(* Pi's messages: tools may be called in parallel, and all results follow. *)

Message(role, calls, quotes) == [role |-> role, calls |-> calls, quotes |-> quotes]
User == <<Message("user", {}, FALSE)>>
Says == <<Message("assistant", {}, FALSE)>>
Reads == <<Message("assistant", {1}, FALSE), Message("toolResult", {1}, TRUE)>>
Both == <<Message("assistant", {1, 2}, FALSE), Message("toolResult", {1}, FALSE),
          Message("toolResult", {2}, FALSE)>>

Transcripts ==
    {<<User>> \o turns : turns \in [1 .. MaxExchanges -> {User, Says, Reads, Both}]}

(* Calls of different turns have different ids.                            *)
Rendered(turns) ==
    LET with(t) == [i \in DOMAIN turns[t] |->
                      [turns[t][i] EXCEPT !.calls = {<<t, c>> : c \in @}]]
        messages == FlattenSeq([t \in DOMAIN turns |-> with(t)])
    IN  [i \in DOMAIN messages |-> [role |-> messages[i].role, calls |-> messages[i].calls,
                                    quotes |-> messages[i].quotes, of |-> i, text |-> "whole"]]

(* contextNote                                                             *)
ContextNote(of, text) ==
    [role |-> "custom", calls |-> {}, quotes |-> FALSE, of |-> of, text |-> text]

-----------------------------------------------------------------------------
(* Tool groups.                                                            *)

IsResult(messages, i) == messages[i].role = "toolResult"

(* The results that follow message i with nothing in between.              *)
Following(messages, i) ==
    {j \in i + 1 .. Len(messages) : \A k \in i + 1 .. j : IsResult(messages, k)}

(* The message that the results before i follow, 0 if there is none.       *)
Before(messages, i) ==
    LET others == {j \in 1 .. i - 1 : ~IsResult(messages, j)}
    IN  IF others = {} THEN 0 ELSE CHOOSE j \in others : \A k \in others : k <= j

Complete(messages, i) ==
    messages[i].calls \subseteq UNION {messages[j].calls : j \in Following(messages, i)}
Called(messages, i, by) ==
    by # 0 /\ messages[by].role = "assistant" /\ messages[i].calls \subseteq messages[by].calls

HasOrphanToolMessages(messages) ==
    \E i \in DOMAIN messages :
        \/ messages[i].role = "assistant" /\ ~Complete(messages, i)
        \/ IsResult(messages, i) /\ ~Called(messages, i, Before(messages, i))

Flattened(message) == ContextNote(message.of, message.text)

(* repairToolGroups: first the calls without all their results, then the   *)
(* results without their call.  The second loop works in place: a result   *)
(* that becomes a note parts those after it from their call.               *)
Calls(messages) ==
    [i \in DOMAIN messages |->
        IF messages[i].role = "assistant" /\ ~Complete(messages, i)
        THEN Flattened(messages[i]) ELSE messages[i]]
Results(messages) ==
    [i \in DOMAIN messages |->
        LET by == Before(messages, i) IN
        IF IsResult(messages, i) /\ \E k \in by + 1 .. i : ~Called(messages, k, by)
        THEN Flattened(messages[i]) ELSE messages[i]]
RepairToolGroups_OtherOrder(messages) == Calls(Results(messages))
RepairToolGroups_CallsOnly(messages) == Calls(messages)
RepairToolGroups(messages) == Results(Calls(messages))

-----------------------------------------------------------------------------
(* The document.                                                           *)

(* The structural lines that a body quotes are escaped in CLM mode; the    *)
(* nonce of the other mode is new with every rendering.                    *)
QuotesAreLive_Unescaped(mode) == mode = "clm"
QuotesAreLive(mode) == FALSE

ProtectedIndexes(mode) ==
    LET users == {i \in DOMAIN snapshot : snapshot[i].role = "user"}
    IN  IF mode = "clm" THEN {}
        ELSE {i \in users : (\A j \in users : i <= j) \/ (\A j \in users : j <= i)}

Block(id, role, text) == [id |-> id, role |-> role, text |-> text]
New == 0        \* ids of blocks that the model adds begin with new-
Unknown == -1

(* parseDocument: a header that a body quotes begins a block of its own.   *)
Parsed ==
    LET split(b) == IF b.id > 0 /\ b.text = "whole" /\ snapshot[b.id].quotes /\ QuotesAreLive(editingMode)
                    THEN <<b, Block(1, snapshot[1].role, "short")>> ELSE <<b>>
    IN  FlattenSeq([i \in DOMAIN doc |-> split(doc[i])])
Ids(blocks) == {blocks[i].id : i \in DOMAIN blocks}
DuplicateIds(blocks) ==
    \E i, j \in DOMAIN blocks : i # j /\ blocks[i].id = blocks[j].id /\ blocks[i].id # New

(* changedMessage                                                          *)
ChangedMessage(source, block) ==
    IF source.role = block.role /\ source.role \in {"assistant", "user"}
    THEN [source EXCEPT !.calls = {}, !.text = block.text, !.quotes = FALSE]
    ELSE ContextNote(source.of, block.text)

(* What a block becomes: a message and what the trace says of it.          *)
Out(message, kind) == <<[message |-> message, kind |-> kind]>>
Lowered(block) ==
    LET source == snapshot[block.id]
        same == block.role = source.role /\ block.text = "whole"
    IN  CASE block.id = New /\ block.text # "empty" -> Out(ContextNote(0, block.text), "added")
          [] block.id = New /\ block.text = "empty" -> <<>>
          [] block.id # New /\ block.id \in ProtectedIndexes(editingMode) ->
                Out(source, IF same THEN "kept" ELSE "restored")
          [] block.id # New /\ block.id \notin ProtectedIndexes(editingMode) /\ block.text = "empty" -> <<>>
          [] block.id # New /\ block.id \notin ProtectedIndexes(editingMode) /\ block.text # "empty" ->
                IF same THEN Out(source, "kept") ELSE Out(ChangedMessage(source, block), "edited")

(* Conservative mode retains the source order, CLM follows the document;   *)
(* a protected message whose block is gone comes back.                     *)
Missing(blocks) ==
    LET gone(i) == i \notin Ids(blocks)
        ids == SelectSeq([i \in DOMAIN snapshot |-> i], gone)
    IN  [k \in DOMAIN ids |-> Block(ids[k], snapshot[ids[k]].role, "empty")]
InSourceOrder(blocks) ==
    [i \in DOMAIN snapshot |->
        IF i \in Ids(blocks) THEN blocks[CHOOSE k \in DOMAIN blocks : blocks[k].id = i]
        ELSE Block(i, snapshot[i].role, "empty")]
Ordered(blocks) ==
    IF editingMode = "clm" THEN blocks \o Missing(blocks) ELSE InSourceOrder(blocks)
Candidate(blocks) ==
    (IF preamble THEN Out(ContextNote(0, "short"), "added") ELSE <<>>)
    \o FlattenSeq([i \in DOMAIN Ordered(blocks) |-> Lowered(Ordered(blocks)[i])])

(* A file without a header replaces everything but the first user turn.    *)
Headerless(blocks) == editingMode = "clm" /\ (envelope = "headerless" \/ blocks = <<>>)
HeaderlessCandidate ==
    LET users == {i \in DOMAIN snapshot : snapshot[i].role = "user"}
        first == CHOOSE i \in users : \A j \in users : i <= j
    IN  (IF users = {} THEN <<>> ELSE Out(snapshot[first], "kept"))
        \o Out(ContextNote(0, "short"), "added")

Size(messages) ==
    LET whole == {i \in DOMAIN messages : messages[i].text = "whole"}
    IN  Len(messages) + Cardinality(whole)

Rejected(reason) == [accepted |-> FALSE, reason |-> reason]

(* finalize, with the trace: sources that went to an output, or nowhere.   *)
Finalize(candidate) ==
    LET before == [i \in DOMAIN candidate |-> candidate[i].message]
        messages == RepairToolGroups(before)
        kept == {i \in DOMAIN candidate : candidate[i].kind # "added"}
        kind(i) == IF before[i] # messages[i] THEN "normalized" ELSE candidate[i].kind
        removed == DOMAIN snapshot \ {before[i].of : i \in kept}
    IN  CASE HasOrphanToolMessages(messages) -> Rejected("tools")
          [] ~HasOrphanToolMessages(messages) /\ editingMode # "clm" /\ Size(messages) >= Size(snapshot) ->
                Rejected("size")
          [] OTHER ->
                [accepted |-> TRUE, messages |-> messages,
                 sources |-> {[source |-> before[i].of, output |-> i, kind |-> kind(i)] : i \in kept}
                             \cup {[source |-> i, output |-> 0, kind |-> "removed"] : i \in removed},
                 additions |-> DOMAIN candidate \ kept]

Untouched ==
    /\ doc = [i \in DOMAIN snapshot |-> Block(i, snapshot[i].role, "whole")]
    /\ envelope = "intact" /\ ~preamble

ApplyContextDocument ==
    LET blocks == Parsed
        known == Ids(blocks) \subseteq DOMAIN snapshot \cup (IF editingMode = "clm" THEN {New} ELSE {})
    IN  IF Untouched THEN [accepted |-> TRUE]
        ELSE IF Headerless(blocks)
        THEN IF envelope = "headerless" \/ preamble THEN Finalize(HeaderlessCandidate) ELSE Rejected("empty")
        ELSE IF envelope \in {"headerless", "stale"} THEN Rejected("metadata")
        ELSE IF DuplicateIds(blocks) THEN Rejected("duplicate")
        ELSE IF envelope = "malformed" THEN Rejected("headers")
        ELSE IF ~known THEN Rejected("unknown")
        ELSE Finalize(Candidate(blocks))

-----------------------------------------------------------------------------
(* The edits of the model, one by one.                                     *)

DocumentInit ==
    /\ editingMode \in {"conservative", "clm"}
    /\ \E turns \in Transcripts : snapshot = Rendered(turns)
    /\ doc = [i \in DOMAIN snapshot |-> Block(i, snapshot[i].role, "whole")]
    /\ preamble = FALSE /\ envelope = "intact" /\ edits = 0

Edits == edits < MaxEdits /\ edits' = edits + 1 /\ UNCHANGED <<editingMode, snapshot>>

Cut(s, i) == SubSeq(s, 1, i - 1) \o SubSeq(s, i + 1, Len(s))
Put(s, i, x) == SubSeq(s, 1, i - 1) \o <<x>> \o SubSeq(s, i, Len(s))

DeleteBlock ==
    /\ Edits
    /\ \E i \in DOMAIN doc : doc' = Cut(doc, i)
    /\ UNCHANGED <<preamble, envelope>>
EditBody ==
    /\ Edits
    /\ \E i \in DOMAIN doc, text \in {"short", "empty"} : doc' = [doc EXCEPT ![i].text = text]
    /\ UNCHANGED <<preamble, envelope>>
ChangeRole ==
    /\ Edits
    /\ \E i \in DOMAIN doc : doc' = [doc EXCEPT ![i].role = "notes"]
    /\ UNCHANGED <<preamble, envelope>>
MoveBlock ==
    /\ Edits
    /\ \E i, j \in DOMAIN doc : i # j /\ doc' = Put(Cut(doc, i), j, doc[i])
    /\ UNCHANGED <<preamble, envelope>>
AddBlock ==
    /\ Edits
    /\ \E i \in 1 .. Len(doc) + 1, id \in {New, Unknown} : doc' = Put(doc, i, Block(id, "notes", "short"))
    /\ UNCHANGED <<preamble, envelope>>
CopyBlock ==
    /\ Edits
    /\ \E i \in DOMAIN doc : doc' = Append(doc, doc[i])
    /\ UNCHANGED <<preamble, envelope>>
WriteAbove ==
    /\ Edits /\ ~preamble
    /\ preamble' = TRUE
    /\ UNCHANGED <<doc, envelope>>
DamageEnvelope ==
    /\ Edits
    /\ envelope = "intact" /\ envelope' \in {"headerless", "stale", "malformed"}
    /\ UNCHANGED <<doc, preamble>>

DocumentNext ==
    \/ DeleteBlock \/ EditBody \/ ChangeRole \/ MoveBlock \/ AddBlock \/ CopyBlock \/ WriteAbove
    \/ DamageEnvelope

DocumentSpec == DocumentInit /\ [][DocumentNext]_documentVars

-----------------------------------------------------------------------------
InOrder ==
    LET ids == SelectSeq([i \in DOMAIN doc |-> doc[i].id], LAMBDA id : id > 0)
    IN  \A i, j \in DOMAIN ids : i < j => ids[i] < ids[j]

(* "Every header ... refers to a rendered id or a new- id, with no         *)
(* duplicates" is the only reason to refuse a document with its metadata   *)
(* and its header lines, unless blocks moved, nothing is left or it did    *)
(* not shrink: what a message quotes is no header, and in the order of the *)
(* source the broken tool groups can always be flattened.                  *)
RefusedForAReason(result) ==
    ~result.accepted /\ envelope = "intact" =>
        CASE result.reason = "duplicate" -> DuplicateIds(doc)
          [] result.reason = "unknown" -> ~(Ids(doc) \subseteq DOMAIN snapshot)
          [] result.reason = "tools" -> ~InOrder /\ editingMode = "clm"
          [] result.reason = "empty" -> doc = <<>>
          [] OTHER -> editingMode = "conservative"

(* The trace tells the truth: every message of the source went to one      *)
(* output or was removed, every output is traced or added, a kept message  *)
(* is the original one, and a protected one is never changed.              *)
TraceIsTrue(result) ==
    result.accepted /\ ~Untouched =>
        LET out == result.messages
            at(s) == {t \in result.sources : t.source = s}
        IN  /\ \A s \in DOMAIN snapshot : Cardinality(at(s)) = 1
            /\ \A o \in DOMAIN out :
                  Cardinality({t \in result.sources : t.output = o})
                      + (IF o \in result.additions THEN 1 ELSE 0) = 1
            /\ \A t \in result.sources :
                  t.kind \in {"kept", "restored"} => out[t.output] = snapshot[t.source]
            /\ \A s \in ProtectedIndexes(editingMode) : \A t \in at(s) : t.kind \in {"kept", "restored"}

DocumentEditIsTrue ==
    LET result == ApplyContextDocument IN RefusedForAReason(result) /\ TraceIsTrue(result)

(* docs/architecture.md of pi-clm says "Broken groups are flattened to     *)
(* text rather than rejecting the edit".                                   *)
BrokenGroupsAreFlattened ==
    LET result == ApplyContextDocument IN result.accepted \/ result.reason # "tools"
=============================================================================
