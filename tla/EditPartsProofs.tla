---------------------------- MODULE EditPartsProofs ----------------------------
(***************************************************************************)
(* Proofs about the parts of a session that rewrite what others read.      *)
(*                                                                         *)
(* The edit tool (UnifiedEdit), for every finite set of files, every set   *)
(* of texts, lines and calls and every length of the history of snapshots: *)
(* an edit touches lines that were shown, no ring of calls, of whatever    *)
(* length, waits for itself, and a step of a call commits all of its edit  *)
(* or none, unless the files change under it.  EditInv says that the       *)
(* snapshots take for read what was shown of their text, that queues are   *)
(* taken in the order of the files, and what is in the files of a call     *)
(* that is half done.                                                      *)
(*                                                                         *)
(* Live context management (Clm), for every length of a session: resuming  *)
(* restores what was persisted, nothing foreign is sent, nothing unseen is *)
(* dropped, and an edit of the document is made into the context of the    *)
(* branch that it was made from only.  ContextInv says what the branch     *)
(* remembers of the live state and what a turn and a document remember of  *)
(* the branch.                                                             *)
(***************************************************************************)
EXTENDS EditParts, TLAPS, FiniteSetTheorems, SequenceTheorems, NaturalsInduction,
        WellFoundedInduction

-----------------------------------------------------------------------------
(* Sets of numbers.                                                        *)

LEMMA LeastOf ==
  ASSUME NEW S \in SUBSET Nat, S # {}
  PROVE  \E m \in S : \A n \in S : m <= n
<1> DEFINE R == OpToRel(<, Nat)
<1>1. IsWellFoundedOn(R, Nat)
  BY NatLessThanWellFounded, Zenon
<1> HIDE DEF R
<1>2. PICK m \in S : \A n \in S : ~(<<n, m>> \in R)
  BY <1>1, WFMin, Zenon
<1>3. \A n \in S : n < m => <<n, m>> \in R
  BY DEF R, OpToRel
<1>4. ASSUME NEW n \in S PROVE m <= n
  <2>1. ~(n < m)
    BY <1>2, <1>3
  <2>2. n \in Nat /\ m \in Nat
    OBVIOUS
  <2> QED BY <2>1, <2>2
<1> QED BY <1>4

LEMMA GreatestOf ==
  ASSUME NEW S \in SUBSET Nat, S # {}, IsFiniteSet(S)
  PROVE  \E m \in S : \A n \in S : n <= m
<1>1. PICK n \in Nat : ExistsSurjection(1..n, S)
  BY FS_NatSurjection
<1>2. PICK f \in [1..n -> S] : \A s \in S : \E i \in 1..n : f[i] = s
  BY <1>1 DEF ExistsSurjection, Surjection
<1> DEFINE bounded(k) == \E m \in S : \A i \in 1..n : k <= i => f[i] <= m
           T == {k \in Nat : bounded(k)}
<1>3. n + 1 \in T
  <2>1. PICK s \in S : TRUE
    OBVIOUS
  <2>2. \A i \in 1..n : ~(n + 1 <= i)
    BY <1>1
  <2>3. bounded(n + 1)
    BY <2>1, <2>2
  <2> QED BY <1>1, <2>3
<1>4. PICK k \in T : \A j \in T : k <= j
  <2> HIDE DEF T
  <2>1. T \in SUBSET Nat /\ T # {}
    BY <1>3 DEF T
  <2> QED BY <2>1, LeastOf
<1>5. PICK m \in S : \A i \in 1..n : k <= i => f[i] <= m
  BY <1>4
<1>6. CASE k <= 1
  <2>1. \A s \in S : s <= m
    BY <1>2, <1>5, <1>6
  <2> QED BY <2>1
<1>7. CASE ~(k <= 1)
  <2>1. k - 1 \in Nat /\ ~(k <= k - 1)
    BY <1>4, <1>7
  <2>2. ~bounded(k - 1)
    BY <1>4, <2>1
  <2>3. CASE k - 1 \in 1..n
    <3> DEFINE g == f[k - 1]
               t == IF g <= m THEN m ELSE g
    <3>1. t \in S /\ g <= t /\ m <= t
      <4>1. g \in S /\ g \in Nat /\ m \in S /\ m \in Nat
        BY <1>2, <2>3
      <4> HIDE DEF g
      <4> QED BY <4>1
    <3>2. ASSUME NEW i \in 1..n, k - 1 <= i PROVE f[i] <= t
      <4>1. CASE i = k - 1
        BY <3>1, <4>1
      <4>2. CASE i # k - 1
        <5>1. k <= i
          BY <1>4, <3>2, <4>2
        <5>2. f[i] <= m /\ f[i] \in Nat
          BY <1>5, <5>1
        <5> HIDE DEF t
        <5> QED BY <5>2, <3>1
      <4> QED BY <4>1, <4>2
    <3> HIDE DEF t
    <3> QED BY <2>2, <3>1, <3>2
  <2>4. CASE k - 1 \notin 1..n
    BY <1>1, <1>4, <1>5, <1>7, <2>2, <2>4
  <2> QED BY <2>3, <2>4
<1> QED BY <1>6, <1>7

-----------------------------------------------------------------------------
(* The edit tool.                                                          *)

Contents == Texts \cup {Absent, 0, 1}
Changes == [file : Files, old : Contents, new : Contents]
OpenStages == {"committing", "rolling back", "restoring"}
EditStages == {"idle", "queueing", "applied", "ended"} \cup OpenStages
FileLines == Files \X Contents \X Lines
EditCallsSet == [at : EditStages, changes : Seq(Changes), done : Nat, lines : SUBSET FileLines]

(* A snapshot of f: the lines of it that count as read were shown.         *)
Snapshots(f, read) ==
    {s \in [text : Contents, seen : SUBSET Lines] : \A l \in s.seen : <<f, s.text, l>> \in read}

EditTypes ==
    /\ edited \in [Files -> Contents]
    /\ reading \in [file : Files, text : Contents, lines : SUBSET Lines] \cup {Absent}
    /\ editCall \in [EditCalls -> EditCallsSet]
    /\ queueOf \in [Files -> EditCalls \cup {Absent}]
    /\ disturbed \in BOOLEAN /\ unshown \in BOOLEAN

(* What the snapshots take for read was shown, and so was what an edit     *)
(* that is under way touches.                                              *)
StoreIsTrue ==
    /\ \A f \in Files : tagStore[f] \in Seq(Snapshots(f, shown))
    /\ tagStore = [f \in Files |-> tagStore[f]]
    /\ \A c \in EditCalls : editCall[c].lines \subseteq shown
    /\ ~unshown

(* Where a call is, and how many of its changes are done; each is of a     *)
(* file of its own.                                                        *)
InOrder(r) ==
    /\ r.at = "queueing" => r.done = 0 /\ r.changes # <<>>
    /\ r.at = "committing" => r.done < Len(r.changes)
    /\ r.at = "restoring" => r.done > 0
    /\ r.done <= Len(r.changes)
    /\ \A i, j \in DOMAIN r.changes : r.changes[i].file = r.changes[j].file => i = j
CallsAreInOrder == \A c \in EditCalls : InOrder(editCall[c])

(* A queue runs a call that asked for it and is not through with it; calls *)
(* take them in the order of the files, and commit with all of them.       *)
QueuesAreTaken ==
    /\ \A f \in Files : queueOf[f] # Absent =>
          /\ f \in U!FilesOf(editCall[queueOf[f]].changes)
          /\ editCall[queueOf[f]].at \in {"queueing"} \cup OpenStages
    /\ \A c \in EditCalls :
          /\ U!At(c, "queueing") => \A f \in Files : queueOf[f] = c => \A g \in U!Missing(c) : f < g
          /\ U!Between(c) => \A f \in U!FilesOf(editCall[c].changes) : queueOf[f] = c

(* Between its commits a call finds the files as it left them, and when it *)
(* rolls back those that it is not through with.                           *)
AsLeft(files, r, i) ==
    /\ i <= r.done => files[r.changes[i].file] = r.changes[i].new
    /\ r.at = "committing" /\ ~(i <= r.done) => files[r.changes[i].file] = r.changes[i].old
HalfDone ==
    ~disturbed =>
        \A c \in EditCalls : U!Between(c) =>
            \A i \in DOMAIN editCall[c].changes : AsLeft(edited, editCall[c], i)

EditInv == EditTypes /\ StoreIsTrue /\ CallsAreInOrder /\ QueuesAreTaken /\ HalfDone

LEMMA AbsentIsNoCall ==
  ASSUME EditPartsAssumption
  PROVE  Absent \notin EditCalls /\ Absent \notin Nat
BY DEF EditPartsAssumption

LEMMA FoundIn ==
  ASSUME NEW history, NEW text
  PROVE  \A i \in U!Found(history, text) : i \in DOMAIN history /\ history[i].text = text
BY DEF U!Found

(* A snapshot that is recorded takes for read what it is told was read, and*)
(* what the snapshot of this text did.                                     *)
LEMMA RecordedIsTrue ==
  ASSUME EditPartsAssumption, NEW f, NEW read, NEW history \in Seq(Snapshots(f, read)),
         NEW text \in Contents, NEW lines \in SUBSET Lines,
         \A l \in lines : <<f, text, l>> \in read
  PROVE  U!Recorded(history, text, lines) \in Seq(Snapshots(f, read))
<1> DEFINE P == Snapshots(f, read)
           existing == U!Found(history, text)
           i == CHOOSE j \in existing : TRUE
<1>1. [text |-> text, seen |-> lines] \in P
  BY DEF Snapshots
<1>2. CASE existing = {}
  <2> DEFINE all == <<[text |-> text, seen |-> lines]>> \o history
             n == IF Len(all) < HASH_HISTORY_DEPTH THEN Len(all) ELSE HASH_HISTORY_DEPTH
  <2>1. U!Recorded(history, text, lines) = SubSeq(all, 1, n)
    BY <1>2 DEF U!Recorded
  <2>2. all \in Seq(P)
    BY <1>1, ConcatProperties
  <2>3. n \in Int /\ n <= Len(all)
    BY <2>2 DEF EditPartsAssumption
  <2> HIDE DEF all, n, P
  <2>4. \A k \in 1..n : all[k] \in P
    BY <2>2, <2>3
  <2>5. SubSeq(all, 1, n) \in Seq(P)
    BY <2>3, <2>4, SubSeqProperties
  <2> QED BY <2>1, <2>5 DEF P
<1>3. CASE existing # {}
  <2> DEFINE s == [text |-> text, seen |-> history[i].seen \cup lines]
             rest == U!RemoveAt(history, i)
  <2>1. U!Recorded(history, text, lines) = <<s>> \o rest
    BY <1>3 DEF U!Recorded
  <2>2. i \in DOMAIN history /\ history[i].text = text
    <3>1. i \in existing
      BY <1>3
    <3> HIDE DEF i
    <3> QED BY <3>1, FoundIn
  <2> HIDE DEF i
  <2>3. i \in 1..Len(history) /\ history[i] \in P
    BY <2>2
  <2>4. s \in P
    BY <2>2, <2>3 DEF Snapshots
  <2>5. rest \in Seq(P)
    <3>1. \A k \in 1..(i - 1) : history[k] \in P
      BY <2>3
    <3>2. \A k \in (i + 1)..Len(history) : history[k] \in P
      BY <2>3
    <3> HIDE DEF P
    <3>3. SubSeq(history, 1, i - 1) \in Seq(P)
      BY <2>3, <3>1, SubSeqProperties
    <3>4. SubSeq(history, i + 1, Len(history)) \in Seq(P)
      <4>1. Len(history) \in Int /\ i + 1 \in Int
        BY <2>3, LenProperties
      <4> QED BY <3>2, <4>1, SubSeqProperties
    <3> QED BY <3>3, <3>4, ConcatProperties DEF U!RemoveAt
  <2> HIDE DEF s, rest, P
  <2> QED BY <2>1, <2>4, <2>5, ConcatProperties DEF P
<1> QED BY <1>2, <1>3

LEMMA MoreIsShown ==
  ASSUME NEW f, NEW read, NEW more, read \subseteq more, NEW history \in Seq(Snapshots(f, read))
  PROVE  history \in Seq(Snapshots(f, more))
<1>1. Snapshots(f, read) \subseteq Snapshots(f, more)
  BY DEF Snapshots
<1> HIDE DEF Snapshots
<1> QED BY <1>1, SeqMonotonic

(* A section changes one or two files, and touches lines that were shown.  *)
LEMMA SectionsAreTrue ==
  ASSUME EditPartsAssumption, EditTypes, StoreIsTrue, NEW s \in U!Sections
  PROVE  /\ s.changes \in Seq(Changes) /\ Len(s.changes) \in 1..2
         /\ s.lines \subseteq shown /\ s.lines \subseteq FileLines
         /\ \A i, j \in DOMAIN s.changes : s.changes[i].file = s.changes[j].file => i = j
<1> DEFINE true(t) == /\ t.changes \in Seq(Changes) /\ Len(t.changes) \in 1..2
                      /\ t.lines \subseteq shown \cap FileLines
                      /\ \A i, j \in DOMAIN t.changes : t.changes[i].file = t.changes[j].file => i = j
<1>1. ASSUME NEW f \in Files, NEW ls \in U!Touchable(f)
      PROVE  {<<f, edited[f], l>> : l \in ls} \subseteq shown \cap FileLines
  <2> SUFFICES ASSUME NEW l \in ls PROVE <<f, edited[f], l>> \in shown \cap FileLines
    OBVIOUS
  <2>1. PICK t \in U!Known(f) : l \in t.seen
    BY <1>1 DEF U!Touchable
  <2>2. PICK i \in U!Found(tagStore[f], edited[f]) : t = tagStore[f][i]
    BY <2>1 DEF U!Find, U!Known
  <2>3. i \in DOMAIN tagStore[f] /\ t.text = edited[f]
    BY <2>2, FoundIn
  <2>4. t \in Snapshots(f, shown)
    BY <2>2, <2>3 DEF StoreIsTrue
  <2>5. edited[f] \in Contents
    BY DEF EditTypes
  <2> QED BY <2>1, <2>3, <2>4, <2>5 DEF Snapshots, FileLines
<1>2. \A f \in Files : edited[f] \in Contents
  BY DEF EditTypes
<1>3. \A text \in Texts \cup {Absent} : text \in Contents
  BY DEF Contents
<1>4. \A f \in Files, old, new \in Contents : U!Change(f, old, new) \in Changes
  BY DEF U!Change, Changes
<1>5. ASSUME NEW f \in Files,
             s = U!Section(f, <<U!Change(f, edited[f], Absent)>>, {})
      PROVE  true(s)
  <2>1. U!Change(f, edited[f], Absent) \in Changes
    BY <1>2, <1>3, <1>4
  <2> HIDE DEF Changes
  <2> QED BY <1>5, <2>1 DEF U!Section
<1>6. ASSUME NEW f \in Files, NEW text \in Texts, NEW ls \in U!Touchable(f),
             s = U!Section(f, <<U!Change(f, edited[f], text)>>, ls)
      PROVE  true(s)
  <2>1. U!Change(f, edited[f], text) \in Changes
    BY <1>2, <1>3, <1>4
  <2>2. s.lines = {<<f, edited[f], l>> : l \in ls}
    BY <1>6 DEF U!Section
  <2>3. s.changes \in Seq(Changes) /\ Len(s.changes) = 1 /\ DOMAIN s.changes = {1}
    <3> HIDE DEF Changes
    <3> QED BY <1>6, <2>1 DEF U!Section
  <2>4. s.lines \subseteq shown \cap FileLines
    BY <1>1, <2>2
  <2>5. \A i, j \in DOMAIN s.changes : s.changes[i].file = s.changes[j].file => i = j
    BY <2>3
  <2> HIDE DEF Changes, FileLines
  <2> QED BY <2>3, <2>4, <2>5
<1>7. ASSUME NEW f \in Files, NEW g \in Files, f # g, NEW text \in Texts, NEW ls \in U!Touchable(f),
             s = U!Section(f, <<U!Change(f, edited[f], Absent), U!Change(g, Absent, text)>>, ls)
      PROVE  true(s)
  <2>1. U!Change(f, edited[f], Absent) \in Changes /\ U!Change(g, Absent, text) \in Changes
    BY <1>2, <1>3, <1>4
  <2>2. s.changes[1].file = f /\ s.changes[2].file = g
    BY <1>7 DEF U!Change, U!Section
  <2>3. s.changes \in Seq(Changes) /\ Len(s.changes) = 2 /\ DOMAIN s.changes = 1..2
    <3> HIDE DEF Changes
    <3> QED BY <1>7, <2>1 DEF U!Section
  <2>4. \A i, j \in DOMAIN s.changes : s.changes[i].file = s.changes[j].file => i = j
    BY <1>7, <2>2, <2>3
  <2>5. s.lines = {<<f, edited[f], l>> : l \in ls}
    BY <1>7 DEF U!Section
  <2> QED BY <1>1, <2>3, <2>4, <2>5
<1>8. \E f \in Files :
        \/ s = U!Section(f, <<U!Change(f, edited[f], Absent)>>, {})
        \/ \E text \in Texts, ls \in U!Touchable(f) :
             s = U!Section(f, <<U!Change(f, edited[f], text)>>, ls)
        \/ \E text \in Texts, g \in Files, ls \in U!Touchable(f) :
             /\ f # g
             /\ s = U!Section(f, <<U!Change(f, edited[f], Absent), U!Change(g, Absent, text)>>, ls)
  <2>1. PICK f \in Files : U!Exists(f) /\ s \in U!SectionsOf(f)
    BY DEF U!Sections
  <2>5. \/ s = U!Section(f, <<U!Change(f, edited[f], Absent)>>, {})
        \/ \E text \in Texts, ls \in U!Touchable(f) :
               s = U!Section(f, <<U!Change(f, edited[f], text)>>, ls)
        \/ \E text \in Texts, g \in {h \in Files : ~U!Exists(h)}, ls \in U!Touchable(f) :
               s = U!Section(f, <<U!Change(f, edited[f], Absent), U!Change(g, Absent, text)>>, ls)
    BY <2>1 DEF U!SectionsOf
  <2>2. CASE s = U!Section(f, <<U!Change(f, edited[f], Absent)>>, {})
    BY <2>2
  <2>3. CASE \E text \in Texts, ls \in U!Touchable(f) :
               s = U!Section(f, <<U!Change(f, edited[f], text)>>, ls)
    BY <2>3
  <2>4. CASE \E text \in Texts, g \in {h \in Files : ~U!Exists(h)}, ls \in U!Touchable(f) :
               s = U!Section(f, <<U!Change(f, edited[f], Absent), U!Change(g, Absent, text)>>, ls)
    BY <2>1, <2>4 DEF U!Exists
  <2> QED BY <2>2, <2>3, <2>4, <2>5
<1> QED BY <1>5, <1>6, <1>7, <1>8

LEMMA NextKeyIsLeast ==
  ASSUME EditPartsAssumption, EditTypes, NEW c \in EditCalls, U!Missing(c) # {}
  PROVE  U!NextKey(c) \in U!Missing(c) /\ \A g \in U!Missing(c) : U!NextKey(c) <= g
<1>1. U!Missing(c) \in SUBSET Nat
  <2>1. \A i \in DOMAIN editCall[c].changes : editCall[c].changes[i].file \in Files
    <3>1. editCall[c].changes \in Seq(Changes)
      BY DEF EditTypes, EditCallsSet
    <3>2. \A i \in DOMAIN editCall[c].changes : editCall[c].changes[i] \in Changes
      <4> HIDE DEF Changes
      <4> QED BY <3>1
    <3> QED BY <3>2 DEF Changes
  <2> QED BY <2>1 DEF U!Missing, U!FilesOf, EditPartsAssumption
<1>2. \E m \in U!Missing(c) : \A g \in U!Missing(c) : m <= g
  BY <1>1, LeastOf
<1> QED BY <1>2 DEF U!NextKey

LEMMA CallTyped ==
  ASSUME EditTypes, NEW c \in EditCalls
  PROVE  /\ editCall[c] \in EditCallsSet /\ editCall[c].done \in Nat
         /\ editCall[c].changes \in Seq(Changes) /\ Len(editCall[c].changes) \in Nat
         /\ DOMAIN editCall[c].changes = 1..Len(editCall[c].changes)
         /\ \A i \in DOMAIN editCall[c].changes :
               /\ editCall[c].changes[i].file \in Files
               /\ editCall[c].changes[i].old \in Contents /\ editCall[c].changes[i].new \in Contents
         /\ U!FilesOf(editCall[c].changes) \subseteq Files
<1>1. editCall[c] \in EditCallsSet
  BY DEF EditTypes
<1>2. editCall[c].changes \in Seq(Changes) /\ editCall[c].done \in Nat
  BY <1>1 DEF EditCallsSet
<1>3. /\ Len(editCall[c].changes) \in Nat /\ DOMAIN editCall[c].changes = 1..Len(editCall[c].changes)
      /\ \A i \in DOMAIN editCall[c].changes : editCall[c].changes[i] \in Changes
  <2> HIDE DEF Changes
  <2> QED BY <1>2
<1>4. \A i \in DOMAIN editCall[c].changes :
         /\ editCall[c].changes[i].file \in Files
         /\ editCall[c].changes[i].old \in Contents /\ editCall[c].changes[i].new \in Contents
  BY <1>3 DEF Changes
<1> QED BY <1>1, <1>2, <1>3, <1>4 DEF U!FilesOf

LEMMA IdleTyped ==
  /\ U!Idle \in EditCallsSet /\ [U!Idle EXCEPT !.at = "ended"] \in EditCallsSet
  /\ U!Idle.changes = <<>> /\ U!Idle.done = 0 /\ U!Idle.lines = {} /\ U!Idle.at = "idle"
<1>1. <<>> \in Seq(Changes)
  OBVIOUS
<1> QED BY <1>1 DEF U!Idle, EditCallsSet, EditStages

LEMMA SameQueues ==
  ASSUME QueuesAreTaken, UNCHANGED <<editCall, queueOf>>
  PROVE  QueuesAreTaken'
<1>1. \A c \in EditCalls : U!Missing(c)' = U!Missing(c)
  BY DEF U!Missing
<1>2. \A c \in EditCalls : (U!At(c, "queueing")' <=> U!At(c, "queueing")) /\ (U!Between(c)' <=> U!Between(c))
  BY DEF U!At, U!Between
<1>3. editCall' = editCall /\ queueOf' = queueOf
  OBVIOUS
<1>4. \A f \in Files : queueOf'[f] # Absent =>
        /\ f \in U!FilesOf(editCall'[queueOf'[f]].changes)
        /\ editCall'[queueOf'[f]].at \in {"queueing"} \cup OpenStages
  BY <1>3 DEF QueuesAreTaken
<1>5. ASSUME NEW c \in EditCalls, U!At(c, "queueing")', NEW f \in Files, queueOf'[f] = c,
             NEW g \in U!Missing(c)'
      PROVE  f < g
  <2>1. U!At(c, "queueing") /\ queueOf[f] = c /\ g \in U!Missing(c)
    BY <1>1, <1>2, <1>3, <1>5
  <2> QED BY <2>1 DEF QueuesAreTaken
<1>6. \A c \in EditCalls : U!Between(c)' => \A f \in U!FilesOf(editCall'[c].changes) : queueOf'[f] = c
  BY <1>2, <1>3 DEF QueuesAreTaken
<1> QED BY <1>4, <1>5, <1>6 DEF QueuesAreTaken

(* Whatever else happens, while the calls, the queues and the files rest.  *)
LEMMA RestKeeps ==
  ASSUME EditInv, UNCHANGED <<edited, editCall, queueOf, disturbed>>
  PROVE  CallsAreInOrder' /\ QueuesAreTaken' /\ HalfDone'
<1>1. CallsAreInOrder'
  BY DEF EditInv, CallsAreInOrder
<1>2. QueuesAreTaken'
  BY SameQueues DEF EditInv
<1>3. HalfDone'
  BY DEF EditInv, HalfDone, U!Between
<1> QED BY <1>1, <1>2, <1>3

LEMMA ReadKeeps == ASSUME EditInv, U!ReadFile PROVE EditInv'
<1> USE DEF U!ReadFile
<1>1. EditTypes'
  <2>1. \A f \in Files : edited[f] \in Contents
    BY DEF EditInv, EditTypes
  <2> QED BY <2>1 DEF EditInv, EditTypes
<1>2. StoreIsTrue'
  BY DEF EditInv, StoreIsTrue
<1>3. CallsAreInOrder' /\ QueuesAreTaken' /\ HalfDone'
  BY RestKeeps DEF U!counters
<1> QED BY <1>1, <1>2, <1>3 DEF EditInv

LEMMA FormatKeeps == ASSUME EditPartsAssumption, EditInv, U!FormatHashReadResult PROVE EditInv'
<1> DEFINE f == reading.file
<1>1. /\ shown' = shown \cup {<<f, text, l>> : text \in {reading.text, edited[f]}, l \in reading.lines}
      /\ tagStore' = IF U!Exists(f) THEN [tagStore EXCEPT ![f] = U!Recorded(@, edited[f], reading.lines)]
                     ELSE tagStore
      /\ UNCHANGED <<edited, editCall, queueOf, unshown, disturbed>> /\ reading' = Absent
  BY DEF U!FormatHashReadResult
<1>2. f \in Files /\ reading.lines \in SUBSET Lines /\ edited[f] \in Contents
  BY DEF U!FormatHashReadResult, EditInv, EditTypes
<1>3. shown \subseteq shown' /\ \A l \in reading.lines : <<f, edited[f], l>> \in shown'
  BY <1>1
<1> HIDE DEF f
<1>4. EditTypes'
  BY <1>1 DEF EditInv, EditTypes
<1>5. StoreIsTrue'
  <2>1. \A g \in Files : tagStore[g] \in Seq(Snapshots(g, shown'))
    BY <1>3, MoreIsShown DEF EditInv, StoreIsTrue
  <2>2. U!Recorded(tagStore[f], edited[f], reading.lines) \in Seq(Snapshots(f, shown'))
    BY <1>2, <1>3, <2>1, RecordedIsTrue
  <2>3. DOMAIN tagStore = Files
    BY DEF EditInv, StoreIsTrue
  <2>4. \A g \in Files : tagStore'[g] \in Seq(Snapshots(g, shown'))
    BY <1>1, <1>2, <2>1, <2>2, <2>3
  <2>5. tagStore' = [g \in Files |-> tagStore'[g]]
    BY <1>1, <2>3 DEF EditInv, StoreIsTrue
  <2>6. (\A c \in EditCalls : editCall[c].lines \subseteq shown)' /\ ~unshown'
    BY <1>1, <1>3 DEF EditInv, StoreIsTrue
  <2>7. (\A g \in Files : tagStore[g] \in Seq(Snapshots(g, shown)))'
    BY <2>4 DEF Snapshots
  <2> QED BY <2>5, <2>6, <2>7 DEF StoreIsTrue
<1>6. CallsAreInOrder' /\ QueuesAreTaken' /\ HalfDone'
  BY <1>1, RestKeeps
<1> QED BY <1>4, <1>5, <1>6 DEF EditInv

LEMMA BuildKeeps ==
  ASSUME EditPartsAssumption, EditInv, NEW c \in EditCalls, U!BuildHashChanges(c)
  PROVE  EditInv'
<1>1. PICK r \in EditCallsSet :
        /\ editCall' = [editCall EXCEPT ![c] = r]
        /\ r.at = "queueing" /\ r.done = 0 /\ r.changes # <<>> /\ r.lines \subseteq shown
        /\ \A i, j \in DOMAIN r.changes : r.changes[i].file = r.changes[j].file => i = j
  <2> DEFINE Goes(changes, lines) == [U!Idle EXCEPT !.at = "queueing", !.changes = changes, !.lines = lines]
  <2>1. ASSUME NEW changes \in Seq(Changes), NEW lines \in SUBSET FileLines
        PROVE  /\ Goes(changes, lines) \in EditCallsSet /\ Goes(changes, lines).at = "queueing"
               /\ Goes(changes, lines).done = 0 /\ Goes(changes, lines).changes = changes
               /\ Goes(changes, lines).lines = lines
    BY DEF U!Idle, EditCallsSet, EditStages
  <2> HIDE DEF Goes
  <2>2. PICK first \in U!Sections :
          \/ editCall' = [editCall EXCEPT ![c] = Goes(first.changes, first.lines)]
          \/ \E second \in U!Sections :
                /\ U!FilesOf(first.changes) \cap U!FilesOf(second.changes) = {}
                /\ editCall' = [editCall EXCEPT ![c] = Goes(first.changes \o second.changes,
                                                            first.lines \cup second.lines)]
    BY DEF U!BuildHashChanges, Goes
  <2>3. ASSUME NEW s \in U!Sections
        PROVE  /\ s.changes \in Seq(Changes) /\ Len(s.changes) \in 1..2
               /\ s.lines \subseteq shown /\ s.lines \subseteq FileLines
               /\ \A i, j \in DOMAIN s.changes : s.changes[i].file = s.changes[j].file => i = j
    BY SectionsAreTrue DEF EditInv
  <2>4. CASE editCall' = [editCall EXCEPT ![c] = Goes(first.changes, first.lines)]
    <3> DEFINE r == Goes(first.changes, first.lines)
    <3>1. first.changes \in Seq(Changes) /\ first.lines \in SUBSET FileLines /\ first.changes # <<>>
      <4>1. first.changes \in Seq(Changes) /\ Len(first.changes) # 0 /\ first.lines \in SUBSET FileLines
        BY <2>3
      <4> HIDE DEF Changes
      <4> QED BY <4>1, EmptySeq
    <3>2. /\ r \in EditCallsSet /\ r.at = "queueing" /\ r.done = 0 /\ r.changes = first.changes
          /\ r.lines = first.lines
      BY <2>1, <3>1
    <3> HIDE DEF r
    <3>3. editCall' = [editCall EXCEPT ![c] = r]
      BY <2>4 DEF r
    <3> QED BY <2>3, <3>1, <3>2, <3>3
  <2>5. ASSUME NEW second \in U!Sections,
               U!FilesOf(first.changes) \cap U!FilesOf(second.changes) = {},
               editCall' = [editCall EXCEPT ![c] = Goes(first.changes \o second.changes,
                                                        first.lines \cup second.lines)]
        PROVE  \E r \in EditCallsSet :
                 /\ editCall' = [editCall EXCEPT ![c] = r]
                 /\ r.at = "queueing" /\ r.done = 0 /\ r.changes # <<>> /\ r.lines \subseteq shown
                 /\ \A i, j \in DOMAIN r.changes : r.changes[i].file = r.changes[j].file => i = j
    <3> DEFINE a == first.changes
               b == second.changes
               both == a \o b
    <3>1. a \in Seq(Changes) /\ b \in Seq(Changes) /\ Len(a) \in 1..2 /\ Len(b) \in 1..2
      BY <2>3
    <3>2. /\ both \in Seq(Changes) /\ Len(both) = Len(a) + Len(b)
          /\ \A i \in 1..(Len(a) + Len(b)) : both[i] = IF i <= Len(a) THEN a[i] ELSE b[i - Len(a)]
      <4> HIDE DEF Changes, a, b
      <4> QED BY <3>1, ConcatProperties DEF both
    <3>3. /\ DOMAIN a = 1..Len(a) /\ DOMAIN b = 1..Len(b) /\ DOMAIN both = 1..(Len(a) + Len(b))
      <4> HIDE DEF Changes, a, b, both
      <4> QED BY <3>1, <3>2, LenProperties
    <3>4. \A i \in DOMAIN a, j \in DOMAIN b : a[i].file # b[j].file
      BY <2>5 DEF U!FilesOf
    <3>5. \A i, j \in DOMAIN both : both[i].file = both[j].file => i = j
      <4> SUFFICES ASSUME NEW i \in DOMAIN both, NEW j \in DOMAIN both, both[i].file = both[j].file
                   PROVE  i = j
        OBVIOUS
      <4>0. (\A k, l \in DOMAIN a : a[k].file = a[l].file => k = l)
            /\ (\A k, l \in DOMAIN b : b[k].file = b[l].file => k = l)
        BY <2>3
      <4> HIDE DEF a, b, both
      <4>1. CASE i <= Len(a) /\ j <= Len(a)
        BY <3>1, <3>2, <3>3, <4>0, <4>1
      <4>2. CASE i <= Len(a) /\ ~(j <= Len(a))
        <5>1. both[i] = a[i] /\ both[j] = b[j - Len(a)] /\ i \in DOMAIN a /\ j - Len(a) \in DOMAIN b
          BY <3>1, <3>2, <3>3, <4>2
        <5> QED BY <3>4, <5>1
      <4>3. CASE ~(i <= Len(a)) /\ j <= Len(a)
        <5>1. both[j] = a[j] /\ both[i] = b[i - Len(a)] /\ j \in DOMAIN a /\ i - Len(a) \in DOMAIN b
          BY <3>1, <3>2, <3>3, <4>3
        <5> QED BY <3>4, <5>1
      <4>4. CASE ~(i <= Len(a)) /\ ~(j <= Len(a))
        <5>1. /\ both[j] = b[j - Len(a)] /\ both[i] = b[i - Len(a)]
              /\ j - Len(a) \in DOMAIN b /\ i - Len(a) \in DOMAIN b
          BY <3>1, <3>2, <3>3, <4>4
        <5>2. i - Len(a) = j - Len(a)
          BY <4>0, <5>1
        <5>3. i \in Nat /\ j \in Nat /\ Len(a) \in Nat
          BY <3>1, <3>3
        <5> QED BY <5>2, <5>3
      <4> QED BY <4>1, <4>2, <4>3, <4>4
    <3>6. both # <<>>
      <4>1. Len(both) # 0
        <5>1. Len(a) \in 1..2 /\ Len(b) \in 1..2 /\ Len(both) = Len(a) + Len(b)
          BY <3>1, <3>2
        <5> HIDE DEF a, b, both
        <5> QED BY <5>1
      <4> HIDE DEF both, Changes
      <4> QED BY <3>2, <4>1, EmptySeq
    <3>7. first.lines \cup second.lines \in SUBSET FileLines /\ first.lines \cup second.lines \subseteq shown
      BY <2>3
    <3>8. editCall' = [editCall EXCEPT ![c] = Goes(both, first.lines \cup second.lines)]
      BY <2>5
    <3> HIDE DEF both
    <3> DEFINE r == Goes(both, first.lines \cup second.lines)
    <3>9. /\ r \in EditCallsSet /\ r.at = "queueing" /\ r.done = 0 /\ r.changes = both
          /\ r.lines = first.lines \cup second.lines
      BY <2>1, <3>2, <3>7
    <3> HIDE DEF r
    <3>10. editCall' = [editCall EXCEPT ![c] = r]
      BY <3>8 DEF r
    <3> QED BY <3>5, <3>6, <3>7, <3>9, <3>10
  <2> QED BY <2>2, <2>4, <2>5
<1>2. U!At(c, "idle") /\ UNCHANGED <<edited, tagStore, reading, queueOf, shown, unshown, disturbed>>
  BY DEF U!BuildHashChanges
<1>3. /\ editCall' \in [EditCalls -> EditCallsSet] /\ editCall'[c] = r
      /\ \A d \in EditCalls \ {c} : editCall'[d] = editCall[d]
  BY <1>1 DEF EditInv, EditTypes
<1>4. EditTypes'
  BY <1>2, <1>3 DEF EditInv, EditTypes
<1>5. StoreIsTrue'
  BY <1>1, <1>2, <1>3 DEF EditInv, StoreIsTrue
<1>6. CallsAreInOrder'
  <2>1. r.done <= Len(r.changes)
    BY <1>1 DEF EditCallsSet
  <2>2. InOrder(r)
    BY <1>1, <2>1 DEF InOrder
  <2> QED BY <1>2, <1>3, <2>2 DEF EditInv, CallsAreInOrder
<1>7. ASSUME NEW f \in Files PROVE queueOf[f] # c
  <2>1. queueOf[f] # Absent => editCall[queueOf[f]].at \in {"queueing"} \cup OpenStages
    BY DEF EditInv, QueuesAreTaken
  <2>2. c # Absent /\ editCall[c].at = "idle"
    BY <1>2, AbsentIsNoCall DEF U!At
  <2> QED BY <2>1, <2>2 DEF OpenStages
<1>8. QueuesAreTaken'
  <2>1. \A d \in EditCalls \ {c} : U!Missing(d)' = U!Missing(d)
    BY <1>2, <1>3 DEF U!Missing
  <2>2. \A d \in EditCalls \ {c} : (U!At(d, "queueing")' <=> U!At(d, "queueing"))
                                  /\ (U!Between(d)' <=> U!Between(d)) /\ editCall'[d] = editCall[d]
    BY <1>3 DEF U!At, U!Between
  <2>3. ~U!Between(c)'
    BY <1>1, <1>3 DEF U!Between
  <2>4. queueOf' = queueOf /\ QueuesAreTaken /\ queueOf \in [Files -> EditCalls \cup {Absent}]
    BY <1>2 DEF EditInv, EditTypes
  <2>5. ASSUME NEW f \in Files, queueOf[f] # Absent
        PROVE  /\ f \in U!FilesOf(editCall'[queueOf[f]].changes)
               /\ editCall'[queueOf[f]].at \in {"queueing"} \cup OpenStages
    <3>1. queueOf[f] \in EditCalls \ {c}
      BY <1>7, <2>4, <2>5
    <3>2. editCall'[queueOf[f]] = editCall[queueOf[f]]
      BY <2>2, <3>1
    <3> QED BY <2>4, <2>5, <3>2 DEF QueuesAreTaken
  <2>6. ASSUME NEW d \in EditCalls
        PROVE  /\ U!At(d, "queueing")' =>
                     \A f \in Files : queueOf'[f] = d => \A g \in U!Missing(d)' : f < g
               /\ U!Between(d)' => \A f \in U!FilesOf(editCall'[d].changes) : queueOf'[f] = d
    <3>1. CASE d = c
      BY <1>7, <2>3, <2>4, <3>1
    <3>2. CASE d # c
      <4>1. ASSUME U!At(d, "queueing")', NEW f \in Files, queueOf'[f] = d, NEW g \in U!Missing(d)'
            PROVE  f < g
        <5>1. U!At(d, "queueing") /\ queueOf[f] = d /\ g \in U!Missing(d)
          BY <2>1, <2>2, <2>4, <3>2, <4>1
        <5> QED BY <2>4, <5>1 DEF QueuesAreTaken
      <4>2. U!Between(d)' => \A f \in U!FilesOf(editCall'[d].changes) : queueOf'[f] = d
        BY <2>2, <2>4, <3>2 DEF QueuesAreTaken
      <4> QED BY <4>1, <4>2
    <3> QED BY <3>1, <3>2
  <2> QED BY <2>4, <2>5, <2>6 DEF QueuesAreTaken
<1>9. HalfDone'
  <2>1. ~U!Between(c)' /\ \A d \in EditCalls \ {c} : U!Between(d)' <=> U!Between(d)
    BY <1>1, <1>3 DEF U!Between
  <2> QED BY <1>2, <1>3, <2>1 DEF EditInv, HalfDone
<1> QED BY <1>4, <1>5, <1>6, <1>8, <1>9 DEF EditInv

LEMMA AcquireKeeps ==
  ASSUME EditPartsAssumption, EditInv, NEW c \in EditCalls, U!Acquire(c)
  PROVE  EditInv'
<1> DEFINE key == U!NextKey(c)
<1>1. key \in U!Missing(c) /\ \A g \in U!Missing(c) : key <= g
  BY NextKeyIsLeast DEF U!Acquire, EditInv
<1>2. /\ U!At(c, "queueing") /\ queueOf[key] = Absent /\ queueOf' = [queueOf EXCEPT ![key] = c]
      /\ UNCHANGED <<edited, tagStore, reading, editCall, shown, unshown, disturbed>>
  BY DEF U!Acquire
<1> HIDE DEF key
<1>3. key \in U!FilesOf(editCall[c].changes) /\ key \in Files /\ U!FilesOf(editCall[c].changes) \subseteq Files
  BY <1>1, CallTyped DEF U!Missing, EditInv
<1>4. queueOf'[key] = c /\ \A f \in Files \ {key} : queueOf'[f] = queueOf[f]
  BY <1>2, <1>3 DEF EditInv, EditTypes
<1>5. EditTypes'
  BY <1>2 DEF EditInv, EditTypes
<1>6. StoreIsTrue' /\ CallsAreInOrder' /\ HalfDone'
  BY <1>2 DEF EditInv, StoreIsTrue, CallsAreInOrder, HalfDone, U!Between
<1>7. ASSUME NEW f \in Files, queueOf'[f] # Absent
      PROVE  /\ f \in U!FilesOf(editCall[queueOf'[f]].changes)
             /\ editCall[queueOf'[f]].at \in {"queueing"} \cup OpenStages
  <2>1. CASE f = key
    BY <1>2, <1>3, <1>4, <2>1 DEF U!At
  <2>2. CASE f # key
    BY <1>4, <1>7, <2>2 DEF EditInv, QueuesAreTaken
  <2> QED BY <2>1, <2>2
<1>8. \A d \in EditCalls : U!Missing(d)' = U!Missing(d) \ (IF d = c THEN {key} ELSE {})
  <2> SUFFICES ASSUME NEW d \in EditCalls
               PROVE  U!Missing(d)' = U!Missing(d) \ (IF d = c THEN {key} ELSE {})
    OBVIOUS
  <2>1. U!FilesOf(editCall[d].changes) \subseteq Files
    BY CallTyped DEF EditInv
  <2>2. d # Absent
    BY AbsentIsNoCall
  <2>3. U!Missing(d)' = {f \in U!FilesOf(editCall[d].changes) : queueOf'[f] # d}
    BY <1>2 DEF U!Missing
  <2>4. \A f \in Files : queueOf'[f] # d <=> queueOf[f] # d /\ ~(d = c /\ f = key)
    BY <1>2, <1>4, <2>2
  <2> QED BY <2>1, <2>3, <2>4 DEF U!Missing
<1>9. ASSUME NEW d \in EditCalls, U!At(d, "queueing"), NEW f \in Files, queueOf'[f] = d, NEW g \in U!Missing(d)'
      PROVE  f < g
  <2>1. g \in U!Missing(d)
    BY <1>8, <1>9
  <2>2. CASE f = key
    <3>1. d = c /\ g # key
      BY <1>4, <1>8, <1>9, <2>2
    <3>2. key <= g /\ g \in Files /\ key \in Nat /\ g \in Nat
      BY <1>1, <1>3, <2>1, <3>1 DEF U!Missing, EditPartsAssumption
    <3> QED BY <2>2, <3>1, <3>2
  <2>3. CASE f # key
    BY <1>4, <1>9, <2>1, <2>3 DEF EditInv, QueuesAreTaken
  <2> QED BY <2>2, <2>3
<1>10. ASSUME NEW d \in EditCalls, U!Between(d), NEW f \in U!FilesOf(editCall[d].changes)
       PROVE  queueOf'[f] = d
  <2>1. f \in Files /\ queueOf[f] = d /\ d # Absent
    BY <1>10, CallTyped, AbsentIsNoCall DEF EditInv, QueuesAreTaken
  <2> QED BY <1>2, <1>4, <2>1
<1>11. QueuesAreTaken'
  <2>1. \A d \in EditCalls : (U!At(d, "queueing")' <=> U!At(d, "queueing")) /\ (U!Between(d)' <=> U!Between(d))
    BY <1>2 DEF U!At, U!Between
  <2>2. editCall' = editCall
    BY <1>2
  <2> QED BY <1>7, <1>9, <1>10, <2>1, <2>2 DEF QueuesAreTaken
<1> QED BY <1>5, <1>6, <1>11 DEF EditInv

LEMMA CommitsHold ==
  ASSUME QueuesAreTaken, NEW c \in EditCalls, U!Between(c), NEW f \in U!FilesOf(editCall[c].changes)
  PROVE  queueOf[f] = c
<1>1. \A g \in U!FilesOf(editCall[c].changes) : queueOf[g] = c
  BY Zenon DEF QueuesAreTaken
<1> QED BY <1>1

(* A call that goes on has all of its queues; one that ends releases them. *)
LEMMA GoingOn ==
  ASSUME EditPartsAssumption, EditInv, NEW c \in EditCalls, UNCHANGED queueOf,
         U!FilesOf(editCall'[c].changes) = U!FilesOf(editCall[c].changes), U!Between(c)',
         \A f \in U!FilesOf(editCall[c].changes) : queueOf[f] = c,
         \A d \in EditCalls \ {c} : editCall'[d] = editCall[d]
  PROVE  QueuesAreTaken'
<1> USE DEF EditInv
<1>1. queueOf' = queueOf /\ queueOf \in [Files -> EditCalls \cup {Absent}]
  BY DEF EditTypes
<1>2. ASSUME NEW f \in Files, queueOf[f] # Absent
      PROVE  /\ f \in U!FilesOf(editCall'[queueOf[f]].changes)
             /\ editCall'[queueOf[f]].at \in {"queueing"} \cup OpenStages
  <2>1. /\ f \in U!FilesOf(editCall[queueOf[f]].changes)
        /\ editCall[queueOf[f]].at \in {"queueing"} \cup OpenStages
    BY <1>2 DEF QueuesAreTaken
  <2>2. CASE queueOf[f] = c
    BY <2>1, <2>2 DEF U!Between, OpenStages
  <2>3. CASE queueOf[f] # c
    BY <1>1, <1>2, <2>1, <2>3
  <2> QED BY <2>2, <2>3
<1>3. ~U!At(c, "queueing")'
  BY DEF U!At, U!Between
<1>4. ASSUME NEW d \in EditCalls, U!At(d, "queueing")', NEW f \in Files, queueOf'[f] = d, NEW g \in U!Missing(d)'
      PROVE  f < g
  <2>1. d # c /\ editCall'[d] = editCall[d]
    BY <1>3, <1>4
  <2>2. U!At(d, "queueing") /\ queueOf[f] = d /\ g \in U!Missing(d)
    BY <1>1, <1>4, <2>1 DEF U!At, U!Missing
  <2> QED BY <2>2 DEF QueuesAreTaken
<1>5. ASSUME NEW d \in EditCalls, U!Between(d)', NEW f \in U!FilesOf(editCall'[d].changes)
      PROVE  queueOf'[f] = d
  <2>1. CASE d = c
    BY <1>1, <1>5, <2>1
  <2>2. CASE d # c
    <3>1. editCall'[d] = editCall[d]
      BY <2>2
    <3>2. U!Between(d) /\ f \in U!FilesOf(editCall[d].changes)
      BY <1>5, <3>1 DEF U!Between
    <3> QED BY <1>1, <3>2, CommitsHold
  <2> QED BY <2>1, <2>2
<1> QED BY <1>1, <1>2, <1>4, <1>5 DEF QueuesAreTaken

LEMMA EndsReleased ==
  ASSUME EditPartsAssumption, EditInv, NEW c \in EditCalls,
         queueOf' = U!Released(c), editCall'[c].at \in {"applied", "ended"},
         \A d \in EditCalls \ {c} : editCall'[d] = editCall[d]
  PROVE  QueuesAreTaken' /\ queueOf' \in [Files -> EditCalls \cup {Absent}]
<1> USE DEF EditInv
<1>1. queueOf \in [Files -> EditCalls \cup {Absent}] /\ c # Absent
  BY AbsentIsNoCall DEF EditTypes
<1>2. \A f \in Files : queueOf'[f] = IF queueOf[f] = c THEN Absent ELSE queueOf[f]
  BY DEF U!Released
<1>3. queueOf' \in [Files -> EditCalls \cup {Absent}]
  BY <1>1 DEF U!Released
<1>4. \A d \in EditCalls \ {c}, f \in Files : queueOf'[f] = d <=> queueOf[f] = d
  BY <1>1, <1>2, AbsentIsNoCall
<1>5. ASSUME NEW f \in Files, queueOf'[f] # Absent
      PROVE  /\ f \in U!FilesOf(editCall'[queueOf'[f]].changes)
             /\ editCall'[queueOf'[f]].at \in {"queueing"} \cup OpenStages
  <2>1. queueOf'[f] = queueOf[f] /\ queueOf[f] \in EditCalls \ {c}
    BY <1>1, <1>2, <1>5
  <2>2. editCall'[queueOf[f]] = editCall[queueOf[f]] /\ queueOf[f] # Absent
    BY <1>5, <2>1
  <2> QED BY <2>1, <2>2 DEF QueuesAreTaken
<1>6. ~U!At(c, "queueing")' /\ ~U!Between(c)'
  BY DEF U!At, U!Between
<1>7. ASSUME NEW d \in EditCalls, U!At(d, "queueing")', NEW f \in Files, queueOf'[f] = d, NEW g \in U!Missing(d)'
      PROVE  f < g
  <2>1. d # c /\ editCall'[d] = editCall[d]
    BY <1>6, <1>7
  <2>2. g \in U!FilesOf(editCall[d].changes) /\ queueOf'[g] # d
    BY <1>7, <2>1 DEF U!Missing
  <2>3. g \in Files
    BY <2>2, CallTyped
  <2>4. U!At(d, "queueing") /\ queueOf[f] = d /\ g \in U!Missing(d)
    BY <1>4, <1>7, <2>1, <2>2, <2>3 DEF U!At, U!Missing
  <2> QED BY <2>4 DEF QueuesAreTaken
<1>8. ASSUME NEW d \in EditCalls, U!Between(d)', NEW f \in U!FilesOf(editCall'[d].changes)
      PROVE  queueOf'[f] = d
  <2>1. d # c /\ editCall'[d] = editCall[d]
    BY <1>6, <1>8
  <2>2. U!Between(d) /\ f \in U!FilesOf(editCall[d].changes)
    BY <1>8, <2>1 DEF U!Between
  <2>3. f \in Files /\ queueOf[f] = d
    BY <2>2, CallTyped DEF QueuesAreTaken
  <2> QED BY <1>4, <2>1, <2>3
<1>9. QueuesAreTaken'
  BY <1>5, <1>7, <1>8 DEF QueuesAreTaken
<1> QED BY <1>3, <1>9

(* Calls that commit at a time have no file in common.                     *)
LEMMA CommitsApart ==
  ASSUME EditInv, NEW c \in EditCalls, NEW d \in EditCalls, c # d, U!Between(d),
         \A f \in U!FilesOf(editCall[c].changes) : queueOf[f] = c
  PROVE  U!FilesOf(editCall[c].changes) \cap U!FilesOf(editCall[d].changes) = {}
BY CommitsHold DEF EditInv

LEMMA EndKeeps ==
  ASSUME EditPartsAssumption, EditInv, NEW c \in EditCalls, U!Ends(c), queueOf' = U!Released(c),
         UNCHANGED <<edited, tagStore, reading, shown, unshown, disturbed>>
  PROVE  EditInv'
<1> DEFINE r == [U!Idle EXCEPT !.at = "ended"]
<1>1. /\ r \in EditCallsSet /\ r.changes = <<>> /\ r.done = 0 /\ r.lines = {} /\ r.at = "ended"
  BY IdleTyped DEF U!Idle
<1>2. editCall' = [editCall EXCEPT ![c] = r]
  BY DEF U!Ends
<1> HIDE DEF r
<1>3. /\ editCall' \in [EditCalls -> EditCallsSet] /\ editCall'[c] = r
      /\ \A d \in EditCalls \ {c} : editCall'[d] = editCall[d]
  BY <1>1, <1>2 DEF EditInv, EditTypes
<1>4. QueuesAreTaken' /\ queueOf' \in [Files -> EditCalls \cup {Absent}]
  BY <1>1, <1>3, EndsReleased
<1>5. EditTypes'
  BY <1>3, <1>4 DEF EditInv, EditTypes
<1>6. StoreIsTrue'
  BY <1>1, <1>3 DEF EditInv, StoreIsTrue
<1>7. CallsAreInOrder'
  <2>1. Len(r.changes) = 0 /\ DOMAIN r.changes = {}
    BY <1>1
  <2>2. InOrder(r)
    BY <1>1, <2>1 DEF InOrder
  <2> QED BY <1>3, <2>2 DEF EditInv, CallsAreInOrder
<1>8. HalfDone'
  <2>1. ~U!Between(c)' /\ \A d \in EditCalls \ {c} : U!Between(d)' <=> U!Between(d)
    BY <1>1, <1>3 DEF U!Between
  <2> QED BY <1>3, <2>1 DEF EditInv, HalfDone
<1> QED BY <1>4, <1>5, <1>6, <1>7, <1>8 DEF EditInv

LEMMA PrepareKeeps ==
  ASSUME EditPartsAssumption, EditInv, NEW c \in EditCalls, U!Prepare(c)
  PROVE  EditInv'
<1>1. /\ U!At(c, "queueing") /\ U!Missing(c) = {}
      /\ UNCHANGED <<edited, tagStore, reading, shown, unshown, disturbed>>
  BY DEF U!Prepare
<1>2. CASE U!Ends(c) /\ queueOf' = U!Released(c)
  BY <1>1, <1>2, EndKeeps
<1>3. CASE /\ \A i \in DOMAIN editCall[c].changes : U!StillFits(editCall[c].changes[i])
           /\ U!Goes(c, "committing") /\ UNCHANGED queueOf
  <2> DEFINE r == [editCall[c] EXCEPT !.at = "committing"]
  <2>1. /\ r \in EditCallsSet /\ r.changes = editCall[c].changes /\ r.done = 0 /\ editCall[c].done = 0
        /\ r.lines = editCall[c].lines /\ r.at = "committing" /\ r.changes # <<>>
    <3>1. editCall[c] \in EditCallsSet
      BY CallTyped DEF EditInv
    <3>2. editCall[c].done = 0 /\ editCall[c].changes # <<>>
      BY <1>1 DEF EditInv, CallsAreInOrder, InOrder, U!At
    <3> QED BY <3>1, <3>2 DEF EditCallsSet, EditStages, OpenStages
  <2>2. editCall' = [editCall EXCEPT ![c] = r]
    BY <1>3 DEF U!Goes
  <2> HIDE DEF r
  <2>3. /\ editCall' \in [EditCalls -> EditCallsSet] /\ editCall'[c] = r
        /\ \A d \in EditCalls \ {c} : editCall'[d] = editCall[d]
    BY <2>1, <2>2 DEF EditInv, EditTypes
  <2>4. U!Between(c)' /\ \A d \in EditCalls \ {c} : U!Between(d)' <=> U!Between(d)
    BY <2>1, <2>3 DEF U!Between
  <2>5. EditTypes' /\ StoreIsTrue'
    BY <1>1, <1>3, <2>1, <2>3 DEF EditInv, EditTypes, StoreIsTrue
  <2>6. CallsAreInOrder'
    <3>1. Len(r.changes) \in Nat /\ Len(r.changes) > 0
      <4>1. r.changes \in Seq(Changes)
        BY <2>1 DEF EditCallsSet
      <4> HIDE DEF Changes
      <4> QED BY <2>1, <4>1, EmptySeq
    <3>2. \A i, j \in DOMAIN r.changes : r.changes[i].file = r.changes[j].file => i = j
      BY <2>1 DEF EditInv, CallsAreInOrder, InOrder
    <3>3. InOrder(r)
      BY <2>1, <3>1, <3>2 DEF InOrder
    <3> QED BY <2>3, <3>3 DEF EditInv, CallsAreInOrder
  <2>7. QueuesAreTaken'
    BY <1>1, <1>3, <2>1, <2>3, <2>4, GoingOn DEF U!Missing
  <2>8. HalfDone'
    <3>1. \A i \in DOMAIN r.changes : edited[r.changes[i].file] = r.changes[i].old
      BY <1>3, <2>1 DEF U!StillFits
    <3>2. \A i \in DOMAIN r.changes : ~(i <= r.done)
      BY <2>1, CallTyped DEF EditInv
    <3>3. \A i \in DOMAIN editCall'[c].changes : AsLeft(edited, editCall'[c], i)
      BY <2>3, <3>1, <3>2 DEF AsLeft
    <3> QED BY <1>1, <2>3, <2>4, <3>3 DEF EditInv, HalfDone
  <2> QED BY <2>5, <2>6, <2>7, <2>8 DEF EditInv
<1> QED BY <1>2, <1>3 DEF U!Prepare

(* A step that goes on and writes at most one file of the call.            *)
LEMMA CommittingKeeps ==
  ASSUME EditPartsAssumption, EditInv, NEW c \in EditCalls, U!Between(c),
         NEW r \in EditCallsSet, editCall' = [editCall EXCEPT ![c] = r],
         r.changes = editCall[c].changes, r.lines = editCall[c].lines, r.done <= Len(r.changes),
         NEW k \in DOMAIN r.changes, NEW text \in Contents,
         edited' = [edited EXCEPT ![r.changes[k].file] = text],
         UNCHANGED <<tagStore, reading, shown>>,
         unshown' = FALSE, disturbed' \in BOOLEAN, disturbed => disturbed',
         \/ /\ r.at \in OpenStages /\ UNCHANGED queueOf
            /\ r.at = "committing" => r.done < Len(r.changes) /\ editCall[c].at = "committing"
            /\ r.at = "restoring" => r.done > 0
            /\ \A i \in DOMAIN r.changes : i # k =>
                  /\ i <= r.done => i <= editCall[c].done
                  /\ r.at = "committing" /\ ~(i <= r.done) => ~(i <= editCall[c].done)
            /\ ~disturbed' => /\ k <= r.done => text = r.changes[k].new
                              /\ r.at = "committing" /\ ~(k <= r.done) => text = r.changes[k].old
         \/ r.at = "applied" /\ queueOf' = U!Released(c)
  PROVE  EditInv'
<1> DEFINE f == r.changes[k].file
<1>1. f \in Files /\ f \in U!FilesOf(editCall[c].changes)
  BY CallTyped DEF EditInv, U!FilesOf
<1>2. edited' = [edited EXCEPT ![f] = text]
  OBVIOUS
<1> HIDE DEF f
<1>3. /\ edited' \in [Files -> Contents] /\ edited'[f] = text
      /\ \A g \in Files \ {f} : edited'[g] = edited[g]
  <2>1. edited \in [Files -> Contents]
    BY DEF EditInv, EditTypes
  <2> HIDE DEF EditInv
  <2> QED BY <1>1, <1>2, <2>1
<1>4. /\ editCall' \in [EditCalls -> EditCallsSet] /\ editCall'[c] = r
      /\ \A d \in EditCalls \ {c} : editCall'[d] = editCall[d]
  BY DEF EditInv, EditTypes
<1>5. \A g \in U!FilesOf(editCall[c].changes) : queueOf[g] = c
  BY DEF EditInv, QueuesAreTaken
<1>6. QueuesAreTaken' /\ queueOf' \in [Files -> EditCalls \cup {Absent}]
  <2>1. CASE r.at \in OpenStages /\ UNCHANGED queueOf
    <3>1. U!Between(c)'
      BY <1>4, <2>1 DEF U!Between, OpenStages
    <3>2. QueuesAreTaken'
      BY <1>4, <1>5, <2>1, <3>1, GoingOn
    <3> QED BY <2>1, <3>2 DEF EditInv, EditTypes
  <2>2. CASE r.at = "applied" /\ queueOf' = U!Released(c)
    BY <1>4, <2>2, EndsReleased
  <2> QED BY <2>1, <2>2
<1>7. EditTypes'
  BY <1>3, <1>4, <1>6 DEF EditInv, EditTypes
<1>8. StoreIsTrue'
  BY <1>4 DEF EditInv, StoreIsTrue
<1>9. CallsAreInOrder'
  <2>1. /\ r.at # "queueing" /\ (r.at = "committing" => r.done < Len(r.changes))
        /\ r.at = "restoring" => r.done > 0
    BY DEF OpenStages
  <2>2. \A i, j \in DOMAIN r.changes : r.changes[i].file = r.changes[j].file => i = j
    BY DEF EditInv, CallsAreInOrder, InOrder
  <2>3. \A d \in EditCalls \ {c} : editCall'[d] = editCall[d]
    BY <1>4
  <2>4. InOrder(r)
    BY <2>1, <2>2 DEF InOrder
  <2> QED BY <1>4, <2>3, <2>4 DEF EditInv, CallsAreInOrder
<1>10. HalfDone'
  <2> SUFFICES ASSUME ~disturbed', NEW d \in EditCalls, U!Between(d)', NEW i \in DOMAIN editCall'[d].changes
               PROVE  AsLeft(edited', editCall'[d], i)
    BY DEF HalfDone
  <2>1. ~disturbed
    OBVIOUS
  <2>2. CASE d = c
    <3>1. r.at \in OpenStages /\ i \in DOMAIN r.changes
      BY <1>4, <2>2 DEF U!Between, OpenStages
    <3> SUFFICES AsLeft(edited', r, i)
      BY <1>4, <2>2
    <3>2. CASE i = k
      <4>1. edited'[r.changes[k].file] = text
        BY <1>3 DEF f
      <4>2. /\ k <= r.done => text = r.changes[k].new
            /\ r.at = "committing" /\ ~(k <= r.done) => text = r.changes[k].old
        BY <3>1 DEF OpenStages
      <4> QED BY <3>2, <4>1, <4>2 DEF AsLeft
    <3>3. CASE i # k
      <4>1. r.changes[i].file # f
        BY <3>1, <3>3 DEF f, EditInv, CallsAreInOrder, InOrder
      <4>2. r.changes[i].file \in Files
        BY <3>1, CallTyped DEF EditInv
      <4>3. AsLeft(edited, editCall[c], i)
        BY <2>1, <3>1 DEF EditInv, HalfDone
      <4>4. /\ i <= r.done => i <= editCall[c].done
            /\ r.at = "committing" => editCall[c].at = "committing"
            /\ r.at = "committing" /\ ~(i <= r.done) => ~(i <= editCall[c].done)
        BY <3>1, <3>3 DEF OpenStages
      <4>5. edited'[r.changes[i].file] = edited[r.changes[i].file]
        BY <1>3, <4>1, <4>2
      <4> QED BY <4>3, <4>4, <4>5 DEF AsLeft
    <3> QED BY <3>2, <3>3
  <2>3. CASE d # c
    <3>1. editCall'[d] = editCall[d] /\ U!Between(d) /\ i \in DOMAIN editCall[d].changes
      BY <1>4, <2>3 DEF U!Between
    <3>2. editCall[d].changes[i].file \in U!FilesOf(editCall[d].changes) /\ editCall[d].changes[i].file \in Files
      BY <3>1, CallTyped DEF EditInv, U!FilesOf
    <3>3. editCall[d].changes[i].file # f
      BY <1>1, <1>5, <2>3, <3>1, <3>2, CommitsApart
    <3>4. edited'[editCall[d].changes[i].file] = edited[editCall[d].changes[i].file]
      BY <1>3, <3>2, <3>3
    <3>5. AsLeft(edited, editCall[d], i)
      BY <2>1, <3>1 DEF EditInv, HalfDone
    <3> QED BY <3>1, <3>4, <3>5 DEF AsLeft
  <2> QED BY <2>2, <2>3
<1> QED BY <1>6, <1>7, <1>8, <1>9, <1>10 DEF EditInv

LEMMA LeqTransitive ==
  \A i, j, m \in Nat : i <= i /\ (i <= j /\ j <= m => i <= m)
OBVIOUS

(* What a call is through with up to n, and more, is among its changes.    *)
LEMMA UpTo ==
  ASSUME EditInv, NEW c \in EditCalls, NEW n \in Nat, n <= editCall[c].done
  PROVE  /\ n <= Len(editCall[c].changes)
         /\ \A i \in DOMAIN editCall[c].changes : i <= n => i <= editCall[c].done
<1>1. editCall[c].done <= Len(editCall[c].changes)
  BY DEF EditInv, CallsAreInOrder, InOrder
<1>2. /\ editCall[c].done \in Nat /\ Len(editCall[c].changes) \in Nat
      /\ DOMAIN editCall[c].changes = 1..Len(editCall[c].changes)
  BY CallTyped DEF EditInv
<1> QED BY <1>1, <1>2

(* A step of a rollback, or the one that begins it: the call gets on with  *)
(* the files behind it and writes at most one that it is through with.     *)
LEMMA RollingKeeps ==
  ASSUME EditPartsAssumption, EditInv, NEW c \in EditCalls, U!Between(c),
         NEW stage \in {"rolling back", "restoring"}, NEW n \in Nat, n <= editCall[c].done,
         stage = "restoring" => n > 0,
         editCall' = [editCall EXCEPT ![c] = [editCall[c] EXCEPT !.done = n, !.at = stage]],
         NEW k \in DOMAIN editCall[c].changes, NEW text \in Contents,
         \/ edited' = edited
         \/ /\ edited' = [edited EXCEPT ![editCall[c].changes[k].file] = text]
            /\ ~(k <= n) \/ disturbed',
         UNCHANGED <<tagStore, reading, shown, unshown, queueOf>>,
         disturbed' \in BOOLEAN, disturbed => disturbed'
  PROVE  EditInv'
<1> DEFINE r == [editCall[c] EXCEPT !.done = n, !.at = stage]
           f == editCall[c].changes[k].file
           now == IF edited' = edited THEN edited[f] ELSE text
<1>1. /\ r \in EditCallsSet /\ r.changes = editCall[c].changes /\ r.done = n /\ r.at = stage
      /\ r.lines = editCall[c].lines
  BY CallTyped DEF EditInv, EditCallsSet, EditStages, OpenStages
<1>2. editCall' = [editCall EXCEPT ![c] = r]
  OBVIOUS
<1> HIDE DEF r
<1>3. r.done <= Len(r.changes)
  BY <1>1, UpTo
<1>4. edited \in [Files -> Contents] /\ f \in Files /\ unshown' = FALSE
  BY CallTyped DEF EditInv, EditTypes, StoreIsTrue
<1>5. now \in Contents /\ edited' = [edited EXCEPT ![f] = now]
  BY <1>4
<1>6. AsLeft(edited, editCall[c], k) \/ disturbed
  BY DEF EditInv, HalfDone
<1>7. ~disturbed' /\ k <= n => now = editCall[c].changes[k].new
  <2> SUFFICES ASSUME ~disturbed', k <= n PROVE now = editCall[c].changes[k].new
    OBVIOUS
  <2>1. edited' = edited
    OBVIOUS
  <2>2. k <= editCall[c].done
    BY UpTo
  <2> QED BY <1>6, <2>1, <2>2 DEF AsLeft
<1>8. \A i \in DOMAIN r.changes : i <= r.done => i <= editCall[c].done
  BY <1>1, UpTo
<1>9. r.at \in OpenStages /\ r.at # "committing" /\ (r.at = "restoring" => r.done > 0)
  BY <1>1 DEF OpenStages
<1> HIDE DEF now, f
<1>10. edited' = [edited EXCEPT ![r.changes[k].file] = now]
  BY <1>1, <1>5 DEF f
<1>11. ~disturbed' => (k <= r.done => now = r.changes[k].new)
  BY <1>1, <1>7
<1>12. /\ k \in DOMAIN r.changes /\ now \in Contents
       /\ \/ /\ r.at \in OpenStages /\ UNCHANGED queueOf
             /\ r.at = "committing" => r.done < Len(r.changes) /\ editCall[c].at = "committing"
             /\ r.at = "restoring" => r.done > 0
             /\ \A i \in DOMAIN r.changes : i # k =>
                   /\ i <= r.done => i <= editCall[c].done
                   /\ r.at = "committing" /\ ~(i <= r.done) => ~(i <= editCall[c].done)
             /\ ~disturbed' => /\ k <= r.done => now = r.changes[k].new
                               /\ r.at = "committing" /\ ~(k <= r.done) => now = r.changes[k].old
          \/ r.at = "applied" /\ queueOf' = U!Released(c)
  BY <1>1, <1>5, <1>8, <1>9, <1>11
<1>13. UNCHANGED <<tagStore, reading, shown>> /\ (disturbed => disturbed') /\ disturbed' \in BOOLEAN
  OBVIOUS
<1> QED BY <1>1, <1>2, <1>3, <1>4, <1>10, <1>12, <1>13, CommittingKeeps, Zenon

LEMMA RollBackBegins ==
  ASSUME EditPartsAssumption, EditInv, NEW c \in EditCalls, U!Between(c), U!Goes(c, "rolling back"),
         editCall[c].done + 1 \in DOMAIN editCall[c].changes,
         \/ UNCHANGED <<edited, disturbed>>
         \/ edited' = [edited EXCEPT ![U!NextChange(c).file] = U!Torn] /\ disturbed' = TRUE,
         UNCHANGED <<tagStore, reading, shown, unshown, queueOf>>
  PROVE  EditInv'
<1> DEFINE n == editCall[c].done
<1>1. n \in Nat /\ n <= editCall[c].done
  BY CallTyped, LeqTransitive DEF EditInv
<1>2. editCall' = [editCall EXCEPT ![c] = [editCall[c] EXCEPT !.done = n, !.at = "rolling back"]]
  BY DEF U!Goes, EditInv, EditTypes, EditCallsSet
<1>3. disturbed' \in BOOLEAN /\ (disturbed => disturbed') /\ 0 \in Contents
  BY DEF EditInv, EditTypes, Contents
<1>4. U!NextChange(c) = editCall[c].changes[n + 1] /\ U!Torn = 0
  BY DEF U!NextChange, U!Torn
<1> HIDE DEF n
<1> QED BY <1>1, <1>2, <1>3, <1>4, RollingKeeps DEF n

LEMMA CommitKeeps ==
  ASSUME EditPartsAssumption, EditInv, NEW c \in EditCalls, U!Commit(c)
  PROVE  EditInv'
<1> DEFINE k == editCall[c].done + 1
           change == U!NextChange(c)
           last == k = Len(editCall[c].changes)
<1>1. /\ U!At(c, "committing") /\ U!Between(c)
      /\ UNCHANGED <<tagStore, reading, shown, disturbed>>
  BY DEF U!Commit, U!At, U!Between
<1>2. /\ editCall[c] \in EditCallsSet /\ editCall[c].done \in Nat /\ Len(editCall[c].changes) \in Nat
      /\ editCall[c].done < Len(editCall[c].changes) /\ k \in DOMAIN editCall[c].changes
      /\ DOMAIN editCall[c].changes = 1..Len(editCall[c].changes)
  <2>1. editCall[c].done < Len(editCall[c].changes)
    BY <1>1 DEF EditInv, CallsAreInOrder, InOrder, U!At
  <2> QED BY <2>1, CallTyped DEF EditInv
<1>3. change = editCall[c].changes[k] /\ change.file \in Files /\ change.old \in Contents /\ change.new \in Contents
  BY <1>2, CallTyped DEF EditInv, U!NextChange
<1>4. CASE ~U!Committable(change)
  <2>1. U!Goes(c, "rolling back") /\ UNCHANGED <<edited, queueOf, unshown>>
    BY <1>4 DEF U!Commit
  <2> HIDE DEF k, change, last
  <2>2. U!Between(c) /\ editCall[c].done + 1 \in DOMAIN editCall[c].changes /\ UNCHANGED <<edited, disturbed>>
    BY <1>1, <1>2, <2>1 DEF k
  <2> QED BY <1>1, <2>1, <2>2, RollBackBegins
<1>5. CASE U!Committable(change)
  <2> DEFINE r == [editCall[c] EXCEPT !.done = @ + 1, !.at = IF last THEN "applied" ELSE @]
  <2>1. /\ editCall' = [editCall EXCEPT ![c] = r]
        /\ edited' = [edited EXCEPT ![change.file] = change.new]
        /\ queueOf' = IF last THEN U!Released(c) ELSE queueOf
        /\ unshown' = (unshown \/ (last /\ ~(editCall[c].lines \subseteq shown)))
    BY <1>5 DEF U!Commit
  <2>2. /\ r \in EditCallsSet /\ r.changes = editCall[c].changes /\ r.done = k
        /\ r.lines = editCall[c].lines /\ r.at = IF last THEN "applied" ELSE "committing"
    <3>1. k \in Nat /\ editCall[c].at = "committing" /\ (IF last THEN "applied" ELSE "committing") \in EditStages
      BY <1>1, <1>2 DEF U!At, EditStages, OpenStages
    <3>2. r = [editCall[c] EXCEPT !.done = k, !.at = IF last THEN "applied" ELSE "committing"]
      BY <1>2, <3>1 DEF EditCallsSet
    <3> HIDE DEF r, k, last
    <3> QED BY <1>2, <3>1, <3>2 DEF EditCallsSet
  <2> HIDE DEF r
  <2>3. unshown' = FALSE /\ disturbed' \in BOOLEAN
    BY <1>1, <2>1 DEF EditInv, EditTypes, StoreIsTrue
  <2>4. r.done <= Len(r.changes) /\ (~last => r.done < Len(r.changes)) /\ k <= r.done
    BY <1>2, <2>2
  <2>5. \A i \in DOMAIN r.changes : i # k => (i <= r.done <=> i <= editCall[c].done)
    BY <1>2, <2>2
  <2>6. \/ /\ r.at \in OpenStages /\ UNCHANGED queueOf
           /\ r.at = "committing" => r.done < Len(r.changes) /\ editCall[c].at = "committing"
           /\ r.at = "restoring" => r.done > 0
           /\ \A i \in DOMAIN r.changes : i # k =>
                 /\ i <= r.done => i <= editCall[c].done
                 /\ r.at = "committing" /\ ~(i <= r.done) => ~(i <= editCall[c].done)
           /\ ~disturbed' => /\ k <= r.done => change.new = r.changes[k].new
                             /\ r.at = "committing" /\ ~(k <= r.done) => change.new = r.changes[k].old
        \/ r.at = "applied" /\ queueOf' = U!Released(c)
    <3>1. CASE last
      BY <2>1, <2>2, <3>1
    <3>2. CASE ~last
      <4> HIDE DEF last
      <4>1. r.at = "committing" /\ UNCHANGED queueOf /\ editCall[c].at = "committing"
        BY <1>1, <2>1, <2>2, <3>2 DEF U!At
      <4> HIDE DEF k
      <4> QED BY <1>3, <2>2, <2>4, <2>5, <3>2, <4>1 DEF OpenStages
    <3> QED BY <3>1, <3>2
  <2> HIDE DEF k, change, last
  <2> QED BY <1>1, <1>2, <1>3, <2>1, <2>2, <2>3, <2>4, <2>6, CommittingKeeps
<1> QED BY <1>4, <1>5

LEMMA FailureKeeps ==
  ASSUME EditPartsAssumption, EditInv, NEW c \in EditCalls, U!CommitFails(c)
  PROVE  EditInv'
<1>1. /\ U!At(c, "committing") /\ U!Between(c) /\ U!Goes(c, "rolling back")
      /\ UNCHANGED <<tagStore, reading, shown, queueOf, unshown>>
  BY DEF U!CommitFails, U!At, U!Between
<1>2. editCall[c].done + 1 \in DOMAIN editCall[c].changes
  <2>1. editCall[c].done < Len(editCall[c].changes)
    BY <1>1 DEF EditInv, CallsAreInOrder, InOrder, U!At
  <2> QED BY <2>1, CallTyped DEF EditInv
<1>3. \/ UNCHANGED <<edited, disturbed>>
      \/ edited' = [edited EXCEPT ![U!NextChange(c).file] = U!Torn] /\ disturbed' = TRUE
  BY DEF U!CommitFails
<1> QED BY <1>1, <1>2, <1>3, RollBackBegins

(* The change that a rollback is at is one that the call has done.         *)
LEMMA LastDoneTyped ==
  ASSUME EditPartsAssumption, EditInv, NEW c \in EditCalls, editCall[c].done # 0
  PROVE  /\ editCall[c].done \in DOMAIN editCall[c].changes
         /\ editCall[c].done \in Nat /\ editCall[c].done - 1 \in Nat
         /\ ~(editCall[c].done <= editCall[c].done - 1)
         /\ U!LastDone(c) = editCall[c].changes[editCall[c].done]
         /\ U!LastDone(c).old \in Contents /\ U!LastDone(c).file \in Files
<1>1. editCall[c].done <= Len(editCall[c].changes)
  BY DEF EditInv, CallsAreInOrder, InOrder
<1>2. /\ editCall[c].done \in Nat /\ Len(editCall[c].changes) \in Nat
      /\ DOMAIN editCall[c].changes = 1..Len(editCall[c].changes)
  BY CallTyped DEF EditInv
<1>3. editCall[c].done \in DOMAIN editCall[c].changes
  BY <1>1, <1>2
<1>4. U!LastDone(c) = editCall[c].changes[editCall[c].done]
  BY DEF U!LastDone
<1>5. U!LastDone(c).old \in Contents /\ U!LastDone(c).file \in Files
  BY <1>3, <1>4, CallTyped DEF EditInv
<1> QED BY <1>2, <1>3, <1>4, <1>5

LEMMA PassedByIs ==
  ASSUME EditInv, NEW c \in EditCalls, U!PassedBy(c)
  PROVE  editCall' = [editCall EXCEPT ![c] = [editCall[c] EXCEPT !.done = editCall[c].done - 1, !.at = "rolling back"]]
BY DEF U!PassedBy, EditInv, EditTypes, EditCallsSet

LEMMA RollBackKeeps ==
  ASSUME EditPartsAssumption, EditInv, NEW c \in EditCalls, U!RollBack(c)
  PROVE  EditInv'
<1>1. /\ U!At(c, "rolling back") /\ U!Between(c)
      /\ UNCHANGED <<edited, tagStore, reading, shown, unshown, disturbed>>
  BY DEF U!RollBack, U!At, U!Between
<1>2. CASE editCall[c].done = 0
  BY <1>1, <1>2, EndKeeps DEF U!RollBack
<1>3. CASE editCall[c].done # 0
  <2> DEFINE k == editCall[c].done
  <2>1. k \in DOMAIN editCall[c].changes /\ k \in Nat /\ k - 1 \in Nat /\ k <= k /\ k - 1 <= k /\ k > 0
    BY <1>3, LastDoneTyped
  <2>2. UNCHANGED queueOf /\ (U!Goes(c, "restoring") \/ U!PassedBy(c))
    BY <1>3 DEF U!RollBack
  <2>3. disturbed' \in BOOLEAN /\ 0 \in Contents
    BY <1>1 DEF EditInv, EditTypes, Contents
  <2>4. CASE U!Goes(c, "restoring")
    <3>1. editCall' = [editCall EXCEPT ![c] = [editCall[c] EXCEPT !.done = k, !.at = "restoring"]]
      BY <2>4 DEF U!Goes, EditInv, EditTypes, EditCallsSet
    <3> HIDE DEF k
    <3> QED BY <1>1, <2>1, <2>2, <2>3, <3>1, RollingKeeps DEF k
  <2>5. CASE U!PassedBy(c)
    <3>1. editCall' = [editCall EXCEPT ![c] = [editCall[c] EXCEPT !.done = k - 1, !.at = "rolling back"]]
      BY <2>5, PassedByIs
    <3>2. k - 1 <= editCall[c].done
      BY <2>1
    <3> QED BY <1>1, <2>1, <2>2, <2>3, <3>1, <3>2, RollingKeeps
  <2> QED BY <2>2, <2>4, <2>5
<1> QED BY <1>2, <1>3

(* What is restored was done.                                              *)
LEMMA RestoreIsDone ==
  ASSUME EditInv, NEW c \in EditCalls, U!Restore(c) \/ U!RestoreFails(c)
  PROVE  editCall[c].done # 0
<1>1. CASE U!Restore(c)
  <2>1. editCall[c].at = "restoring"
    BY <1>1 DEF U!Restore, U!At
  <2> QED BY <2>1 DEF EditInv, CallsAreInOrder, InOrder
<1>2. CASE U!RestoreFails(c)
  <2>1. editCall[c].done > 0
    BY <1>2 DEF U!RestoreFails
  <2> QED BY <2>1
<1> QED BY <1>1, <1>2

LEMMA RestoreKeeps ==
  ASSUME EditPartsAssumption, EditInv, NEW c \in EditCalls, editCall[c].done # 0,
         U!Restore(c) \/ U!RestoreFails(c)
  PROVE  EditInv'
<1> DEFINE k == editCall[c].done
<1>1. /\ U!Between(c) /\ U!PassedBy(c)
      /\ UNCHANGED <<tagStore, reading, shown, unshown, queueOf, disturbed>>
  BY DEF U!Restore, U!RestoreFails, U!At, U!Between
<1>2. /\ k \in DOMAIN editCall[c].changes /\ k \in Nat /\ k - 1 \in Nat /\ ~(k <= k - 1) /\ k - 1 <= k
      /\ U!LastDone(c) = editCall[c].changes[k] /\ U!LastDone(c).old \in Contents
  BY LastDoneTyped
<1>3. editCall' = [editCall EXCEPT ![c] = [editCall[c] EXCEPT !.done = k - 1, !.at = "rolling back"]]
  BY <1>1, PassedByIs
<1>4. disturbed' \in BOOLEAN /\ 0 \in Contents
  BY <1>1 DEF EditInv, EditTypes, Contents
<1>5. \/ edited' = edited
      \/ edited' = [edited EXCEPT ![editCall[c].changes[k].file] = U!LastDone(c).old]
      \/ edited' = [edited EXCEPT ![editCall[c].changes[k].file] = 0]
  BY <1>2 DEF U!Restore, U!RestoreFails, U!Torn
<1> QED BY <1>1, <1>2, <1>3, <1>4, <1>5, RollingKeeps

LEMMA AppliedKeeps ==
  ASSUME EditPartsAssumption, EditInv, NEW c \in EditCalls, U!RecordApplied(c)
  PROVE  EditInv'
<1> DEFINE r == [U!Idle EXCEPT !.at = "ended"]
           changeOf(f) == editCall[c].changes[CHOOSE i \in DOMAIN editCall[c].changes :
                                                editCall[c].changes[i].file = f]
<1>1. /\ U!At(c, "applied") /\ editCall' = [editCall EXCEPT ![c] = r]
      /\ UNCHANGED <<edited, reading, queueOf, shown, unshown, disturbed>>
      /\ tagStore' = [f \in Files |->
            IF f \notin U!FilesOf(editCall[c].changes) THEN tagStore[f]
            ELSE IF changeOf(f).new = Absent THEN <<>> ELSE U!Recorded(tagStore[f], changeOf(f).new, {})]
  BY DEF U!RecordApplied, U!Ends
<1>2. /\ r \in EditCallsSet /\ r.changes = <<>> /\ r.done = 0 /\ r.lines = {} /\ r.at = "ended"
  BY IdleTyped DEF U!Idle
<1> HIDE DEF r
<1>3. /\ editCall' \in [EditCalls -> EditCallsSet] /\ editCall'[c] = r
      /\ \A d \in EditCalls \ {c} : editCall'[d] = editCall[d]
  BY <1>1, <1>2 DEF EditInv, EditTypes
<1>4. \A f \in Files : tagStore'[f] \in Seq(Snapshots(f, shown))
  <2> SUFFICES ASSUME NEW f \in Files PROVE tagStore'[f] \in Seq(Snapshots(f, shown))
    OBVIOUS
  <2>1. tagStore[f] \in Seq(Snapshots(f, shown))
    BY DEF EditInv, StoreIsTrue
  <2>2. CASE f \notin U!FilesOf(editCall[c].changes)
    BY <1>1, <2>1, <2>2
  <2>3. CASE f \in U!FilesOf(editCall[c].changes)
    <3>1. changeOf(f).new \in Contents
      <4>1. \E i \in DOMAIN editCall[c].changes : editCall[c].changes[i].file = f
        BY <2>3 DEF U!FilesOf
      <4> QED BY <4>1, CallTyped DEF EditInv
    <3> HIDE DEF changeOf
    <3>2. U!Recorded(tagStore[f], changeOf(f).new, {}) \in Seq(Snapshots(f, shown))
      BY <2>1, <3>1, RecordedIsTrue
    <3>3. <<>> \in Seq(Snapshots(f, shown))
      <4> HIDE DEF Snapshots
      <4> QED BY EmptySeq
    <3> QED BY <1>1, <2>3, <3>2, <3>3
  <2> QED BY <2>2, <2>3
<1>5. tagStore' = [f \in Files |-> tagStore'[f]]
  BY <1>1
<1>6. StoreIsTrue'
  <2>1. (\A f \in Files : tagStore[f] \in Seq(Snapshots(f, shown)))'
    BY <1>1, <1>4 DEF Snapshots
  <2> QED BY <1>1, <1>2, <1>3, <1>5, <2>1, Zenon DEF EditInv, StoreIsTrue
<1>7. EditTypes'
  BY <1>1, <1>3 DEF EditInv, EditTypes
<1>8. CallsAreInOrder'
  <2>1. Len(r.changes) = 0 /\ DOMAIN r.changes = {}
    BY <1>2
  <2>2. InOrder(r)
    BY <1>2, <2>1 DEF InOrder
  <2> QED BY <1>3, <2>2 DEF EditInv, CallsAreInOrder
<1>9. QueuesAreTaken'
  <2>1. queueOf = U!Released(c)
    <3>1. \A f \in Files : queueOf[f] # c
      <4> SUFFICES ASSUME NEW f \in Files, queueOf[f] = c PROVE FALSE
        OBVIOUS
      <4>1. queueOf[f] # Absent
        BY AbsentIsNoCall
      <4>2. editCall[queueOf[f]].at \in {"queueing"} \cup OpenStages
        BY <4>1 DEF EditInv, QueuesAreTaken
      <4> QED BY <1>1, <4>2 DEF U!At, OpenStages
    <3> QED BY <3>1 DEF U!Released, EditInv, EditTypes
  <2>2. queueOf' = U!Released(c)
    BY <1>1, <2>1
  <2> QED BY <1>2, <1>3, <2>2, EndsReleased
<1>10. HalfDone'
  <2>1. ~U!Between(c)' /\ \A d \in EditCalls \ {c} : U!Between(d)' <=> U!Between(d)
    BY <1>2, <1>3 DEF U!Between
  <2> QED BY <1>1, <1>3, <2>1 DEF EditInv, HalfDone
<1> QED BY <1>6, <1>7, <1>8, <1>9, <1>10 DEF EditInv

LEMMA OutsiderKeeps ==
  ASSUME EditPartsAssumption, EditInv, U!Outsider
  PROVE  EditInv'
<1>1. PICK f \in Files, text \in Texts \cup {Absent} :
        /\ edited' = [edited EXCEPT ![f] = text]
        /\ disturbed' = (disturbed \/ \E c \in EditCalls : U!Between(c) /\ f \in U!FilesOf(editCall[c].changes))
  BY DEF U!Outsider
<1>2. UNCHANGED <<tagStore, reading, editCall, queueOf, shown, unshown>>
  BY DEF U!Outsider
<1>3. text \in Contents
  BY DEF Contents
<1>4. EditTypes'
  BY <1>1, <1>2, <1>3 DEF EditInv, EditTypes
<1>5. StoreIsTrue'
  BY <1>2 DEF EditInv, StoreIsTrue
<1>6. CallsAreInOrder'
  BY <1>2 DEF EditInv, CallsAreInOrder
<1>7. QueuesAreTaken'
  BY <1>2, SameQueues DEF EditInv
<1>8. HalfDone'
  <2> SUFFICES ASSUME ~disturbed', NEW c \in EditCalls, U!Between(c)', NEW i \in DOMAIN editCall'[c].changes
               PROVE  AsLeft(edited', editCall'[c], i)
    BY DEF HalfDone
  <2>1. U!Between(c) /\ editCall'[c] = editCall[c] /\ i \in DOMAIN editCall[c].changes
    BY <1>2 DEF U!Between
  <2>2. editCall[c].changes[i].file \in U!FilesOf(editCall[c].changes) /\ editCall[c].changes[i].file \in Files
    BY <2>1, CallTyped DEF EditInv, U!FilesOf
  <2>3. editCall[c].changes[i].file # f /\ ~disturbed
    BY <1>1, <2>1, <2>2
  <2>4. edited'[editCall[c].changes[i].file] = edited[editCall[c].changes[i].file]
    BY <1>1, <2>2, <2>3 DEF EditInv, EditTypes
  <2>5. AsLeft(edited, editCall[c], i)
    BY <2>1, <2>3 DEF EditInv, HalfDone
  <2> QED BY <2>1, <2>4, <2>5 DEF AsLeft
<1> QED BY <1>4, <1>5, <1>6, <1>7, <1>8 DEF EditInv

LEMMA EditStep ==
  ASSUME EditPartsAssumption, EditInv, [U!Next]_(U!vars)
  PROVE  EditInv'
<1>1. CASE UNCHANGED U!vars
  <2>1. UNCHANGED <<edited, tagStore, reading, editCall, queueOf, shown, unshown, disturbed>>
    BY <1>1 DEF U!vars
  <2>2. EditTypes' /\ StoreIsTrue'
    BY <2>1 DEF EditInv, EditTypes, StoreIsTrue
  <2> QED BY <2>1, <2>2, RestKeeps DEF EditInv
<1>2. CASE U!Next
  BY <1>2, ReadKeeps, FormatKeeps, OutsiderKeeps, BuildKeeps, AcquireKeeps, PrepareKeeps, CommitKeeps,
     FailureKeeps, RollBackKeeps, RestoreKeeps, AppliedKeeps, RestoreIsDone DEF U!Next
<1> QED BY <1>1, <1>2

LEMMA EditStarts == ASSUME EditPartsAssumption, U!Init PROVE EditInv
<1> USE DEF U!Init
<1>1. EditTypes
  <2>1. [c \in EditCalls |-> U!Idle] \in [EditCalls -> EditCallsSet]
    BY IdleTyped
  <2> QED BY <2>1 DEF EditTypes, Contents
<1>2. StoreIsTrue
  <2>1. \A f \in Files : <<>> \in Seq(Snapshots(f, shown))
    <3> HIDE DEF Snapshots
    <3> QED BY EmptySeq
  <2> QED BY <2>1, IdleTyped DEF StoreIsTrue
<1>3. CallsAreInOrder
  BY IdleTyped DEF CallsAreInOrder, InOrder
<1>4. QueuesAreTaken
  BY IdleTyped, AbsentIsNoCall DEF QueuesAreTaken, U!At, U!Between
<1>5. HalfDone
  BY IdleTyped DEF HalfDone, U!Between
<1> QED BY <1>1, <1>2, <1>3, <1>4, <1>5 DEF EditInv

LEMMA EditsStay == U!Spec => []EditInv
<1>1. EditPartsAssumption
  BY EditPartsAssumption
<1> QED BY <1>1, EditStarts, EditStep, PTL DEF U!Spec

(* A line that an edit touched was shown by a read, of this very text, for *)
(* any overlap of reads, edits and other writers                           *)
(* (unified-edit.ts, buildHashChanges, HashSnapshotStore).                 *)
THEOREM OnlyShownLinesAreEdited == U!Spec => []U!OnlyShownLines
<1>1. EditInv => U!OnlyShownLines
  BY DEF EditInv, StoreIsTrue, U!OnlyShownLines
<1> QED BY <1>1, EditsStay, PTL

(* However many calls overlap, none waits for one that waits for it: each  *)
(* holds files that come before the one it waits for, so that the call     *)
(* that waits for the last of the files waits for one that does not wait   *)
(* (unified-edit.ts, withMutationQueues).                                  *)
THEOREM QueuesAreNoCycle == U!Spec => []U!NoQueueCycle
<1>1. ASSUME EditPartsAssumption, EditInv PROVE U!NoQueueCycle
  <2> SUFFICES ASSUME NEW ring \in SUBSET EditCalls, ring # {},
                      \A c \in ring : U!Waits(c) /\ queueOf[U!NextKey(c)] \in ring
               PROVE  FALSE
    BY DEF U!NoQueueCycle
  <2> DEFINE keys == {U!NextKey(c) : c \in ring}
  <2>1. ASSUME NEW c \in ring
        PROVE  /\ U!NextKey(c) \in U!Missing(c) /\ U!NextKey(c) \in Files
               /\ \A g \in U!Missing(c) : U!NextKey(c) <= g
    <3>0. c \in EditCalls /\ U!Waits(c)
      BY <2>1
    <3>1. U!NextKey(c) \in U!Missing(c) /\ \A g \in U!Missing(c) : U!NextKey(c) <= g
      BY <1>1, <3>0, NextKeyIsLeast DEF U!Waits, EditInv
    <3>2. U!FilesOf(editCall[c].changes) \subseteq Files
      BY <1>1, <3>0, CallTyped DEF EditInv
    <3> QED BY <3>1, <3>2 DEF U!Missing
  <2>2. keys \subseteq Files /\ keys # {}
    BY <2>1
  <2>3. PICK last \in keys : \A k \in keys : k <= last
    <3>1. IsFiniteSet(keys) /\ keys \in SUBSET Nat
      BY <1>1, <2>2, FS_Subset DEF EditPartsAssumption
    <3> HIDE DEF keys
    <3> QED BY <2>2, <3>1, GreatestOf
  <2>4. PICK c \in ring : last = U!NextKey(c)
    BY <2>3
  <2> DEFINE d == queueOf[last]
  <2>5. d \in ring /\ U!At(d, "queueing") /\ last \in Files
    BY <2>1, <2>4 DEF U!Waits
  <2>6. last < U!NextKey(d)
    BY <1>1, <2>1, <2>5 DEF EditInv, QueuesAreTaken
  <2>7. U!NextKey(d) \in keys /\ U!NextKey(d) \in Nat /\ last \in Nat
    BY <1>1, <2>1, <2>5 DEF EditPartsAssumption
  <2> QED BY <2>3, <2>6, <2>7
<1>2. EditPartsAssumption
  BY EditPartsAssumption
<1> QED BY <1>1, <1>2, EditsStay, PTL

(* What the files are without the calls that are not through: those that   *)
(* such a call is through with have the text that it was built from.       *)
Base(c, i) ==
    IF i <= editCall[c].done THEN editCall[c].changes[i].old ELSE edited[editCall[c].changes[i].file]

LEMMA CommittedOfCall ==
  ASSUME EditPartsAssumption, EditInv, NEW c \in EditCalls, U!Between(c),
         NEW i \in DOMAIN editCall[c].changes
  PROVE  U!Committed[editCall[c].changes[i].file] = Base(c, i)
<1> DEFINE f == editCall[c].changes[i].file
           open == {d \in EditCalls : U!Between(d) /\ \E j \in 1..editCall[d].done : editCall[d].changes[j].file = f}
           d == CHOOSE e \in open : TRUE
           changes == editCall[d].changes
           k == CHOOSE j \in DOMAIN changes : changes[j].file = f
<1>1. f \in Files /\ f \in U!FilesOf(editCall[c].changes)
  BY CallTyped DEF EditInv, U!FilesOf
<1>2. U!Committed[f] = IF open = {} THEN edited[f] ELSE changes[k].old
  BY <1>1, Zenon DEF U!Committed
<1>3. Base(c, i) = IF i <= editCall[c].done THEN editCall[c].changes[i].old ELSE edited[f]
  BY DEF Base
<1>4. CASE open = {}
  <2>1. ~(i \in 1..editCall[c].done)
    BY <1>4
  <2>2. ~(i <= editCall[c].done)
    <3>1. i \in Nat /\ i >= 1 /\ editCall[c].done \in Nat
      BY CallTyped DEF EditInv
    <3> QED BY <2>1, <3>1
  <2> QED BY <1>2, <1>3, <1>4, <2>2, Zenon
<1>5. CASE open # {}
  <2>1. d \in open
    BY <1>5
  <2> HIDE DEF d
  <2>2. PICK j \in 1..editCall[d].done : editCall[d].changes[j].file = f
    BY <2>1
  <2>3. d \in EditCalls /\ U!Between(d) /\ j \in DOMAIN editCall[d].changes
    <3>1. d \in EditCalls /\ U!Between(d) /\ editCall[d].done <= Len(editCall[d].changes)
      BY <2>1 DEF EditInv, CallsAreInOrder, InOrder
    <3>2. editCall[d].done \in Nat /\ Len(editCall[d].changes) \in Nat /\ DOMAIN editCall[d].changes = 1..Len(editCall[d].changes)
      BY <3>1, CallTyped DEF EditInv
    <3> QED BY <3>1, <3>2
  <2>4. d = c
    <3>1. f \in U!FilesOf(editCall[d].changes)
      BY <2>2, <2>3 DEF U!FilesOf
    <3>2. queueOf[f] = d /\ queueOf[f] = c
      BY <1>1, <2>3, <3>1, CommitsHold DEF EditInv
    <3> QED BY <3>2
  <2>5. k = i
    <3>1. k \in DOMAIN changes /\ changes[k].file = f
      BY <2>4
    <3> HIDE DEF k
    <3> QED BY <2>4, <3>1 DEF EditInv, CallsAreInOrder, InOrder
  <2>6. i <= editCall[c].done
    <3>1. j = i
      BY <2>2, <2>3, <2>4 DEF EditInv, CallsAreInOrder, InOrder
    <3> QED BY <2>4, <3>1, CallTyped DEF EditInv
  <2> QED BY <1>2, <1>3, <1>5, <2>4, <2>5, <2>6, Zenon
<1> QED BY <1>4, <1>5

LEMMA CommittedElsewhere ==
  ASSUME EditPartsAssumption, EditInv, NEW f \in Files,
         \A c \in EditCalls : U!Between(c) => f \notin U!FilesOf(editCall[c].changes)
  PROVE  U!Committed[f] = edited[f]
<1> DEFINE open == {c \in EditCalls : U!Between(c) /\ \E i \in 1..editCall[c].done : editCall[c].changes[i].file = f}
<1>1. open = {}
  <2> SUFFICES ASSUME NEW c \in EditCalls, U!Between(c), NEW i \in 1..editCall[c].done,
                      editCall[c].changes[i].file = f
               PROVE  FALSE
    OBVIOUS
  <2>1. editCall[c].done <= Len(editCall[c].changes)
    BY DEF EditInv, CallsAreInOrder, InOrder
  <2>2. i \in DOMAIN editCall[c].changes
    <3>1. editCall[c].done \in Nat /\ Len(editCall[c].changes) \in Nat /\ DOMAIN editCall[c].changes = 1..Len(editCall[c].changes)
      BY CallTyped DEF EditInv
    <3> QED BY <2>1, <3>1
  <2> QED BY <2>2 DEF U!FilesOf
<1> QED BY <1>1, Zenon DEF U!Committed

CommittedIsTrue ==
    /\ \A c \in EditCalls : U!Between(c) =>
          \A i \in DOMAIN editCall[c].changes : U!Committed[editCall[c].changes[i].file] = Base(c, i)
    /\ \A f \in Files : (\A c \in EditCalls : U!Between(c) => f \notin U!FilesOf(editCall[c].changes))
          => U!Committed[f] = edited[f]

LEMMA CommittedIs == EditInv => CommittedIsTrue
BY EditPartsAssumption, CommittedOfCall, CommittedElsewhere DEF CommittedIsTrue

(* Before and after a step that no outsider gets into: the call that has   *)
(* the file goes on, or nobody has it and it stays.                        *)
Undisturbed == EditInv /\ EditInv' /\ CommittedIsTrue /\ CommittedIsTrue' /\ ~disturbed /\ ~disturbed'
Free(f) == \A c \in EditCalls : U!Between(c) => f \notin U!FilesOf(editCall[c].changes)

(* A call of which the changes stay in the queues and which goes on.       *)
GoesOn(c) == U!Between(c) /\ U!Between(c)' /\ editCall'[c].changes = editCall[c].changes

LEMMA CommittedStays ==
  ASSUME Undisturbed, NEW f \in Files,
         \/ \E c \in EditCalls : /\ GoesOn(c)
                                 /\ \E i \in DOMAIN editCall[c].changes :
                                       editCall[c].changes[i].file = f /\ Base(c, i)' = Base(c, i)
         \/ Free(f) /\ Free(f)' /\ edited'[f] = edited[f]
  PROVE  U!Committed'[f] = U!Committed[f]
<1>1. ASSUME NEW c \in EditCalls, GoesOn(c), NEW i \in DOMAIN editCall[c].changes,
             editCall[c].changes[i].file = f, Base(c, i)' = Base(c, i)
      PROVE  U!Committed'[f] = U!Committed[f]
  <2>1. U!Committed[f] = Base(c, i)
    BY <1>1 DEF GoesOn, Undisturbed, CommittedIsTrue
  <2>2. i \in DOMAIN editCall'[c].changes /\ editCall'[c].changes[i].file = f
    BY <1>1 DEF GoesOn
  <2>3. U!Committed'[editCall'[c].changes[i].file] = Base(c, i)'
    BY <1>1, <2>2 DEF GoesOn, Undisturbed, CommittedIsTrue
  <2> QED BY <1>1, <2>1, <2>2, <2>3
<1>2. ASSUME Free(f), Free(f)', edited'[f] = edited[f]
      PROVE  U!Committed'[f] = U!Committed[f]
  <2>1. U!Committed[f] = edited[f]
    BY <1>2 DEF Free, Undisturbed, CommittedIsTrue
  <2>2. U!Committed'[f] = edited'[f]
    BY <1>2 DEF Free, Undisturbed, CommittedIsTrue
  <2> QED BY <1>2, <2>1, <2>2
<1> QED BY <1>1, <1>2

(* A step of c, in which every other call stays where it is.               *)
LEMMA OthersStay ==
  ASSUME Undisturbed, NEW c \in EditCalls, \A d \in EditCalls \ {c} : editCall'[d] = editCall[d],
         NEW f \in Files,
         \/ f \notin U!FilesOf(editCall[c].changes) /\ f \notin U!FilesOf(editCall'[c].changes)
         \/ ~U!Between(c) /\ ~U!Between(c)',
         edited'[f] = edited[f]
  PROVE  U!Committed'[f] = U!Committed[f]
<1>1. ASSUME NEW d \in EditCalls \ {c}, U!Between(d), f \in U!FilesOf(editCall[d].changes)
      PROVE  U!Committed'[f] = U!Committed[f]
  <2>1. PICK i \in DOMAIN editCall[d].changes : editCall[d].changes[i].file = f
    BY <1>1 DEF U!FilesOf
  <2>2. GoesOn(d) /\ Base(d, i)' = Base(d, i)
    BY <1>1, <2>1 DEF GoesOn, U!Between, Base
  <2> QED BY <1>1, <2>1, <2>2, CommittedStays
<1>2. CASE \A d \in EditCalls \ {c} : U!Between(d) => f \notin U!FilesOf(editCall[d].changes)
  <2>1. Free(f)
    BY <1>2 DEF Free
  <2>2. Free(f)'
    <3> SUFFICES ASSUME NEW d \in EditCalls, U!Between(d)', f \in U!FilesOf(editCall'[d].changes)
                 PROVE  FALSE
      BY DEF Free
    <3> QED BY <1>2 DEF U!Between
  <2> QED BY <2>1, <2>2, CommittedStays
<1> QED BY <1>1, <1>2

(* A step of c that goes on: its files stay as they are without it, and it *)
(* writes no other.                                                        *)
LEMMA GoesOnQuietly ==
  ASSUME Undisturbed, NEW c \in EditCalls, \A d \in EditCalls \ {c} : editCall'[d] = editCall[d],
         GoesOn(c), NEW f \in Files,
         \A i \in DOMAIN editCall[c].changes : editCall[c].changes[i].file = f => Base(c, i)' = Base(c, i),
         f \notin U!FilesOf(editCall[c].changes) => edited'[f] = edited[f]
  PROVE  U!Committed'[f] = U!Committed[f]
<1>1. CASE f \in U!FilesOf(editCall[c].changes)
  <2>1. PICK i \in DOMAIN editCall[c].changes : editCall[c].changes[i].file = f
    BY <1>1 DEF U!FilesOf
  <2> QED BY <2>1, CommittedStays
<1>2. CASE f \notin U!FilesOf(editCall[c].changes)
  BY <1>2, OthersStay DEF GoesOn
<1> QED BY <1>1, <1>2

LEMMA NoneChanged ==
  ASSUME \A f \in Files : U!Committed'[f] = U!Committed[f]
  PROVE  U!Committed' = U!Committed
BY Zenon DEF U!Committed

LEMMA PrepareIsAtomic ==
  ASSUME Undisturbed, NEW c \in EditCalls, U!Prepare(c)
  PROVE  U!Committed' = U!Committed
<1> SUFFICES ASSUME NEW f \in Files PROVE U!Committed'[f] = U!Committed[f]
  BY NoneChanged
<1>1. editCall \in [EditCalls -> EditCallsSet] /\ edited' = edited /\ ~U!Between(c)
  BY DEF U!Prepare, Undisturbed, EditInv, EditTypes, U!At, U!Between
<1>2. CASE U!Ends(c)
  <2>1. \A d \in EditCalls \ {c} : editCall'[d] = editCall[d]
    BY <1>1, <1>2 DEF U!Ends
  <2>2. ~U!Between(c)'
    BY <1>1, <1>2 DEF U!Ends, U!Between, U!Idle
  <2> QED BY <1>1, <2>1, <2>2, OthersStay
<1>3. CASE U!Goes(c, "committing") /\ UNCHANGED queueOf
  <2>1. /\ \A d \in EditCalls \ {c} : editCall'[d] = editCall[d]
        /\ editCall'[c].changes = editCall[c].changes /\ editCall'[c].done = editCall[c].done
        /\ editCall'[c].at = "committing"
    BY <1>1, <1>3 DEF U!Goes, EditCallsSet
  <2>2. CASE f \notin U!FilesOf(editCall[c].changes)
    BY <1>1, <2>1, <2>2, OthersStay
  <2>3. CASE f \in U!FilesOf(editCall[c].changes)
    <3>1. queueOf[f] = c
      BY <2>3 DEF U!Prepare, U!Missing
    <3>2. U!Committed[f] = edited[f]
      <4>1. \A d \in EditCalls : U!Between(d) => f \notin U!FilesOf(editCall[d].changes)
        BY <1>1, <3>1, CommitsHold DEF Undisturbed, EditInv
      <4> QED BY <4>1 DEF Undisturbed, CommittedIsTrue
    <3>3. PICK i \in DOMAIN editCall'[c].changes : editCall'[c].changes[i].file = f
      BY <2>1, <2>3 DEF U!FilesOf
    <3>4. U!Between(c)'
      BY <2>1 DEF U!Between
    <3>5. U!Committed'[f] = Base(c, i)'
      BY <3>3, <3>4 DEF Undisturbed, CommittedIsTrue
    <3>6. Base(c, i)' = edited'[f]
      <4>1. editCall'[c].done = 0 /\ ~(i <= 0)
        <5>1. editCall[c].done = 0
          BY DEF U!Prepare, U!At, Undisturbed, EditInv, CallsAreInOrder, InOrder
        <5>2. DOMAIN editCall[c].changes = 1..Len(editCall[c].changes) /\ Len(editCall[c].changes) \in Nat
          BY CallTyped DEF Undisturbed, EditInv
        <5> QED BY <2>1, <3>3, <5>1, <5>2
      <4> QED BY <3>3, <4>1 DEF Base
    <3> QED BY <1>1, <3>2, <3>5, <3>6
  <2> QED BY <2>2, <2>3
<1> QED BY <1>2, <1>3 DEF U!Prepare

LEMMA CommitIsAtomic ==
  ASSUME Undisturbed, NEW c \in EditCalls, U!Commit(c), U!Committed' # U!Committed
  PROVE  U!WholeEdit
<1> DEFINE k == editCall[c].done + 1
           changes == editCall[c].changes
           change == U!NextChange(c)
           last == k = Len(changes)
<1>1. /\ editCall \in [EditCalls -> EditCallsSet] /\ edited \in [Files -> Contents] /\ U!Between(c)
      /\ editCall[c].at = "committing"
  BY DEF U!Commit, Undisturbed, EditInv, EditTypes, U!At, U!Between
<1>2. /\ editCall[c].done \in Nat /\ Len(changes) \in Nat /\ editCall[c].done < Len(changes)
      /\ DOMAIN changes = 1..Len(changes) /\ k \in DOMAIN changes
      /\ \A i \in DOMAIN changes : changes[i].file \in Files
  <2>1. editCall[c].done < Len(changes)
    BY <1>1 DEF Undisturbed, EditInv, CallsAreInOrder, InOrder
  <2> QED BY <2>1, CallTyped DEF Undisturbed, EditInv
<1>3. change = changes[k] /\ change.file \in Files
  BY <1>2 DEF U!NextChange
<1>4. CASE ~(U!Committable(change) /\ last)
  <2>1. /\ \A d \in EditCalls \ {c} : editCall'[d] = editCall[d]
        /\ editCall'[c].changes = changes /\ editCall'[c].at \in OpenStages
        /\ \/ editCall'[c].done = editCall[c].done /\ edited' = edited
           \/ editCall'[c].done = k /\ \A f \in Files \ {change.file} : edited'[f] = edited[f]
    <3>1. CASE ~U!Committable(change)
      BY <1>1, <3>1 DEF U!Commit, U!Goes, EditCallsSet, OpenStages
    <3>2. CASE U!Committable(change)
      <4>1. /\ editCall' = [editCall EXCEPT ![c].done = @ + 1, ![c].at = IF last THEN "applied" ELSE @]
            /\ edited' = [edited EXCEPT ![change.file] = change.new]
        BY <3>2 DEF U!Commit
      <4>2. ~last
        BY <1>4, <3>2
      <4>3. editCall' = [editCall EXCEPT ![c].done = @ + 1, ![c].at = @]
        BY <4>1, <4>2
      <4> HIDE DEF last
      <4>4. \A f \in Files \ {change.file} : edited'[f] = edited[f]
        BY <1>1, <4>1
      <4> HIDE DEF change
      <4> QED BY <1>1, <4>3, <4>4 DEF EditCallsSet, OpenStages
    <3> QED BY <3>1, <3>2
  <2>2. GoesOn(c)
    BY <1>1, <2>1 DEF GoesOn, U!Between, OpenStages
  <2>3. ASSUME NEW f \in Files PROVE U!Committed'[f] = U!Committed[f]
    <3>1. ASSUME NEW i \in DOMAIN changes, changes[i].file = f PROVE Base(c, i)' = Base(c, i)
      <4>1. CASE editCall'[c].done = editCall[c].done /\ edited' = edited
        BY <2>1, <4>1 DEF Base
      <4>2. CASE editCall'[c].done = k /\ \A g \in Files \ {change.file} : edited'[g] = edited[g]
        <5>1. CASE i = k
          <6>1. edited[changes[k].file] = changes[k].old
            BY <1>1, <1>2 DEF Undisturbed, EditInv, HalfDone, AsLeft
          <6>2. ~(k <= editCall[c].done) /\ k <= k
            BY <1>2
          <6> HIDE DEF k
          <6> QED BY <2>1, <4>2, <5>1, <6>1, <6>2 DEF Base
        <5>2. CASE i # k
          <6>1. changes[i].file # change.file /\ changes[i].file \in Files
            BY <1>2, <1>3, <5>2 DEF Undisturbed, EditInv, CallsAreInOrder, InOrder
          <6>2. i <= k <=> i <= editCall[c].done
            BY <1>2, <5>2
          <6> HIDE DEF k, change
          <6> QED BY <2>1, <4>2, <6>1, <6>2 DEF Base
        <5> QED BY <5>1, <5>2
      <4> HIDE DEF k, change
      <4> QED BY <2>1, <4>1, <4>2
    <3>2. f \notin U!FilesOf(changes) => edited'[f] = edited[f]
      BY <1>2, <1>3, <2>1 DEF U!FilesOf
    <3> HIDE DEF k, change
    <3> QED BY <2>1, <2>2, <3>1, <3>2, GoesOnQuietly
  <2> QED BY <2>3, NoneChanged
<1>5. CASE U!Committable(change) /\ last
  <2>1. /\ edited' = [edited EXCEPT ![change.file] = change.new] /\ editCall'[c].at = "applied"
        /\ \A d \in EditCalls \ {c} : editCall'[d] = editCall[d]
        /\ editCall'[c].changes = changes
    BY <1>1, <1>5 DEF U!Commit, EditCallsSet
  <2>2. /\ edited'[change.file] = change.new /\ \A f \in Files \ {change.file} : edited'[f] = edited[f]
    BY <1>1, <1>3, <2>1
  <2>3. ASSUME NEW f \in Files, f \notin U!FilesOf(changes)
        PROVE  U!Committed'[f] = U!Committed[f]
    <3>1. f # change.file
      BY <1>2, <1>3, <2>3 DEF U!FilesOf
    <3> QED BY <2>1, <2>2, <2>3, <3>1, OthersStay
  <2>4. ASSUME NEW i \in DOMAIN changes
        PROVE  U!Committed[changes[i].file] = changes[i].old /\ U!Committed'[changes[i].file] = changes[i].new
    <3>1. U!Committed[changes[i].file] = changes[i].old
      <4>1. U!Committed[changes[i].file] = Base(c, i)
        BY <1>1 DEF Undisturbed, CommittedIsTrue
      <4>2. ~(i <= editCall[c].done) => edited[changes[i].file] = changes[i].old
        BY <1>1 DEF Undisturbed, EditInv, HalfDone, AsLeft
      <4> QED BY <4>1, <4>2 DEF Base
    <3>2. \A d \in EditCalls : U!Between(d)' => changes[i].file \notin U!FilesOf(editCall'[d].changes)
      <4> SUFFICES ASSUME NEW d \in EditCalls, U!Between(d)', changes[i].file \in U!FilesOf(editCall'[d].changes)
                   PROVE  FALSE
        OBVIOUS
      <4>1. d # c /\ U!Between(d) /\ editCall'[d] = editCall[d]
        BY <2>1 DEF U!Between
      <4>2. changes[i].file \in U!FilesOf(changes)
        BY DEF U!FilesOf
      <4>3. queueOf[changes[i].file] = d /\ queueOf[changes[i].file] = c
        BY <1>1, <4>1, <4>2, CommitsHold DEF Undisturbed, EditInv
      <4> QED BY <4>1, <4>3
    <3>3. U!Committed'[changes[i].file] = edited'[changes[i].file]
      BY <1>2, <3>2 DEF Undisturbed, CommittedIsTrue
    <3>4. edited'[changes[i].file] = changes[i].new
      <4>1. CASE i = k
        BY <1>3, <2>2, <4>1
      <4>2. CASE i # k
        <5>1. changes[i].file # change.file
          BY <1>2, <1>3, <4>2 DEF Undisturbed, EditInv, CallsAreInOrder, InOrder
        <5>2. i <= editCall[c].done
          BY <1>2, <1>5, <4>2
        <5>3. edited[changes[i].file] = changes[i].new
          BY <1>1, <5>2 DEF Undisturbed, EditInv, HalfDone, AsLeft
        <5> QED BY <1>2, <2>2, <5>1, <5>3
      <4> QED BY <4>1, <4>2
    <3> QED BY <3>1, <3>3, <3>4
  <2>5. ASSUME NEW f \in Files
        PROVE  LET of == {i \in DOMAIN changes : changes[i].file = f}
               IN  IF of = {} THEN U!Committed'[f] = U!Committed[f]
                   ELSE \A i \in of : U!Committed[f] = changes[i].old /\ U!Committed'[f] = changes[i].new
    <3>1. CASE {i \in DOMAIN changes : changes[i].file = f} = {}
      <4>1. f \notin U!FilesOf(changes)
        BY <3>1 DEF U!FilesOf
      <4> QED BY <2>3, <3>1, <4>1
    <3>2. CASE {i \in DOMAIN changes : changes[i].file = f} # {}
      BY <2>4, <3>2
    <3> QED BY <3>1, <3>2
  <2> QED BY <2>5 DEF U!WholeEdit
<1> QED BY <1>4, <1>5

(* A step of c that only has it go on.                                     *)
LEMMA OnlyTheStage ==
  ASSUME Undisturbed, NEW c \in EditCalls, U!Between(c), UNCHANGED edited,
         NEW stage \in OpenStages, U!Goes(c, stage)
  PROVE  U!Committed' = U!Committed
<1> SUFFICES ASSUME NEW f \in Files PROVE U!Committed'[f] = U!Committed[f]
  BY NoneChanged
<1>1. /\ \A d \in EditCalls \ {c} : editCall'[d] = editCall[d]
      /\ editCall'[c].changes = editCall[c].changes /\ editCall'[c].at = stage
      /\ editCall'[c].done = editCall[c].done
  BY DEF U!Goes, Undisturbed, EditInv, EditTypes, EditCallsSet
<1>2. GoesOn(c) /\ \A i \in DOMAIN editCall[c].changes : Base(c, i)' = Base(c, i)
  BY <1>1 DEF GoesOn, U!Between, OpenStages, Base
<1> QED BY <1>1, <1>2, GoesOnQuietly

LEMMA FailureIsAtomic ==
  ASSUME Undisturbed, NEW c \in EditCalls, U!CommitFails(c)
  PROVE  U!Committed' = U!Committed
<1>1. U!Between(c) /\ edited' = edited /\ U!Goes(c, "rolling back") /\ "rolling back" \in OpenStages
  BY DEF U!CommitFails, Undisturbed, U!At, U!Between, OpenStages
<1> QED BY <1>1, OnlyTheStage

(* A step of c that leaves a change behind it: the other files stay.       *)
LEMMA PassedByStays ==
  ASSUME EditPartsAssumption, Undisturbed, NEW c \in EditCalls, U!Between(c), U!PassedBy(c),
         editCall[c].done # 0, NEW f \in Files,
         \A g \in Files \ {U!LastDone(c).file} : edited'[g] = edited[g],
         f = U!LastDone(c).file => edited'[f] = U!LastDone(c).old
  PROVE  U!Committed'[f] = U!Committed[f]
<1> DEFINE k == editCall[c].done
           changes == editCall[c].changes
<1>1. /\ k \in DOMAIN changes /\ k \in Nat /\ U!LastDone(c) = changes[k] /\ changes[k].file \in Files
      /\ \A i \in DOMAIN changes : i \in Nat /\ changes[i].file \in Files
  BY LastDoneTyped, CallTyped DEF Undisturbed, EditInv
<1>2. /\ \A d \in EditCalls \ {c} : editCall'[d] = editCall[d]
      /\ editCall'[c].changes = changes /\ editCall'[c].at = "rolling back" /\ editCall'[c].done = k - 1
  BY DEF U!PassedBy, Undisturbed, EditInv, EditTypes, EditCallsSet
<1>3. GoesOn(c)
  BY <1>2 DEF GoesOn, U!Between
<1>4. ASSUME NEW i \in DOMAIN changes, changes[i].file = f PROVE Base(c, i)' = Base(c, i)
  <2>1. CASE i = k
    <3>1. edited'[f] = changes[k].old
      BY <1>1, <1>4, <2>1
    <3>2. ~(i <= k - 1) /\ i <= k
      BY <1>1, <2>1
    <3> HIDE DEF k
    <3> QED BY <1>2, <1>4, <2>1, <3>1, <3>2 DEF Base, k
  <2>2. CASE i # k
    <3>1. changes[i].file # changes[k].file
      BY <1>1, <2>2 DEF Undisturbed, EditInv, CallsAreInOrder, InOrder
    <3>2. i <= k - 1 <=> i <= k
      BY <1>1, <2>2
    <3>3. edited'[f] = edited[f]
      BY <1>1, <1>4, <3>1
    <3> QED BY <1>2, <1>4, <3>2, <3>3 DEF Base
  <2> QED BY <2>1, <2>2
<1>5. f \notin U!FilesOf(changes) => edited'[f] = edited[f]
  <2>1. U!LastDone(c).file \in U!FilesOf(changes)
    BY <1>1, Zenon DEF U!FilesOf
  <2> QED BY <2>1
<1> HIDE DEF k
<1> QED BY <1>2, <1>3, <1>4, <1>5, GoesOnQuietly

LEMMA RollBackIsAtomic ==
  ASSUME EditPartsAssumption, Undisturbed, NEW c \in EditCalls, U!RollBack(c)
  PROVE  U!Committed' = U!Committed
<1>1. /\ editCall \in [EditCalls -> EditCallsSet] /\ edited' = edited /\ U!Between(c)
  BY DEF U!RollBack, Undisturbed, EditInv, EditTypes, U!At, U!Between
<1>2. CASE editCall[c].done = 0
  <2> SUFFICES ASSUME NEW f \in Files PROVE U!Committed'[f] = U!Committed[f]
    BY NoneChanged
  <2>1. /\ \A d \in EditCalls \ {c} : editCall'[d] = editCall[d]
        /\ editCall'[c].at = "ended" /\ editCall'[c].changes = <<>>
    BY <1>1, <1>2 DEF U!RollBack, U!Ends, U!Idle
  <2>2. CASE f \notin U!FilesOf(editCall[c].changes)
    <3>1. f \notin U!FilesOf(editCall'[c].changes)
      BY <2>1 DEF U!FilesOf
    <3> QED BY <1>1, <2>1, <2>2, <3>1, OthersStay
  <2>3. CASE f \in U!FilesOf(editCall[c].changes)
    <3>1. PICK i \in DOMAIN editCall[c].changes : editCall[c].changes[i].file = f
      BY <2>3 DEF U!FilesOf
    <3>2. U!Committed[f] = Base(c, i)
      BY <1>1, <3>1 DEF Undisturbed, CommittedIsTrue
    <3>3. Base(c, i) = edited[f]
      <4>1. ~(i <= 0)
        BY CallTyped DEF Undisturbed, EditInv
      <4> QED BY <1>2, <3>1, <4>1 DEF Base
    <3>4. \A d \in EditCalls : U!Between(d)' => f \notin U!FilesOf(editCall'[d].changes)
      <4> SUFFICES ASSUME NEW d \in EditCalls, U!Between(d)', f \in U!FilesOf(editCall'[d].changes)
                   PROVE  FALSE
        OBVIOUS
      <4>1. d # c /\ U!Between(d) /\ editCall'[d] = editCall[d]
        BY <2>1 DEF U!Between
      <4>2. queueOf[f] = d /\ queueOf[f] = c
        BY <1>1, <2>3, <4>1, CommitsHold DEF Undisturbed, EditInv
      <4> QED BY <4>1, <4>2
    <3>5. U!Committed'[f] = edited'[f]
      BY <3>4 DEF Undisturbed, CommittedIsTrue
    <3> QED BY <1>1, <3>2, <3>3, <3>5
  <2> QED BY <2>2, <2>3
<1>3. CASE editCall[c].done # 0 /\ edited[U!LastDone(c).file] = U!LastDone(c).new
  <2>1. U!Goes(c, "restoring") /\ "restoring" \in OpenStages
    BY <1>3 DEF U!RollBack, OpenStages
  <2> QED BY <1>1, <2>1, OnlyTheStage
<1>4. CASE editCall[c].done # 0 /\ edited[U!LastDone(c).file] # U!LastDone(c).new
  <2>1. edited[U!LastDone(c).file] = U!LastDone(c).new
    <3>1. AsLeft(edited, editCall[c], editCall[c].done)
      BY <1>1, <1>4, LastDoneTyped DEF Undisturbed, EditInv, HalfDone
    <3> QED BY <1>4, <3>1, LastDoneTyped DEF AsLeft, Undisturbed
  <2> QED BY <1>4, <2>1
<1> QED BY <1>2, <1>3, <1>4

LEMMA RestoreIsAtomic ==
  ASSUME EditPartsAssumption, Undisturbed, NEW c \in EditCalls, stuck \in Nat
  PROVE  /\ U!Restore(c) => U!Committed' = U!Committed
         /\ U!RestoreFails(c) => U!StaysBehind
<1> DEFINE file == U!LastDone(c).file
<1> SUFFICES ASSUME U!Restore(c) \/ U!RestoreFails(c)
             PROVE  /\ U!Restore(c) => U!Committed' = U!Committed
                    /\ U!RestoreFails(c) => U!StaysBehind
  OBVIOUS
<1>1. U!Between(c) /\ U!PassedBy(c) /\ editCall[c].done # 0
  <2>1. U!Between(c) /\ U!PassedBy(c)
    BY DEF U!Restore, U!RestoreFails, U!At, U!Between
  <2> QED BY <2>1, RestoreIsDone DEF Undisturbed
<1>2. edited \in [Files -> Contents] /\ file \in Files
  BY <1>1, LastDoneTyped DEF Undisturbed, EditInv, EditTypes
<1>3. \A g \in Files \ {file} : edited'[g] = edited[g]
  BY <1>2 DEF U!Restore, U!RestoreFails
<1>4. \A g \in Files \ {file} : U!Committed'[g] = U!Committed[g]
  BY <1>1, <1>3, PassedByStays
<1>5. ASSUME U!Restore(c) PROVE U!Committed' = U!Committed
  <2>1. edited'[file] = U!LastDone(c).old
    BY <1>2, <1>5 DEF U!Restore
  <2>2. U!Committed'[file] = U!Committed[file]
    BY <1>1, <1>2, <1>3, <2>1, PassedByStays
  <2> HIDE DEF file
  <2> QED BY <1>4, <2>2, NoneChanged
<1>6. ASSUME U!RestoreFails(c) PROVE U!StaysBehind
  <2>1. stuck' = stuck + 1
    BY <1>6 DEF U!RestoreFails
  <2>2. stuck' # stuck
    BY <2>1
  <2> HIDE DEF file
  <2> QED BY <1>2, <1>4, <2>2 DEF U!StaysBehind
<1> QED BY <1>5, <1>6

LEMMA OthersAreAtomic ==
  ASSUME Undisturbed, NEW c \in EditCalls, U!BuildHashChanges(c) \/ U!RecordApplied(c)
  PROVE  U!Committed' = U!Committed
<1> SUFFICES ASSUME NEW f \in Files PROVE U!Committed'[f] = U!Committed[f]
  BY NoneChanged
<1>1. editCall \in [EditCalls -> EditCallsSet] /\ edited' = edited /\ ~U!Between(c)
  BY Zenon DEF U!BuildHashChanges, U!RecordApplied, Undisturbed, EditInv, EditTypes, U!At, U!Between
<1>2. CASE U!BuildHashChanges(c)
  <2>1. PICK changes, lines :
          editCall' = [editCall EXCEPT ![c] = [U!Idle EXCEPT !.at = "queueing", !.changes = changes, !.lines = lines]]
    BY <1>2 DEF U!BuildHashChanges
  <2>2. ~U!Between(c)' /\ \A d \in EditCalls \ {c} : editCall'[d] = editCall[d]
    BY <1>1, <2>1 DEF U!Between, U!Idle
  <2> QED BY <1>1, <2>2, OthersStay
<1>3. CASE U!RecordApplied(c)
  <2>1. ~U!Between(c)' /\ \A d \in EditCalls \ {c} : editCall'[d] = editCall[d]
    BY <1>1, <1>3 DEF U!RecordApplied, U!Ends, U!Between, U!Idle
  <2> QED BY <1>1, <2>1, OthersStay
<1> QED BY <1>2, <1>3

Counted == writes \in Nat /\ stuck \in Nat

LEMMA MishapsAreCounted == U!Spec => []Counted
<1>1. U!Init => Counted
  BY DEF U!Init, Counted
<1>2. ASSUME Counted, [U!Next]_(U!vars) PROVE Counted'
  <2>1. \A c \in EditCalls :
          U!BuildHashChanges(c) \/ U!Acquire(c) \/ U!Prepare(c) \/ U!Commit(c) \/ U!CommitFails(c)
             \/ U!RollBack(c) \/ U!Restore(c) \/ U!RecordApplied(c) => writes' = writes /\ stuck' = stuck
    BY Zenon DEF U!BuildHashChanges, U!Acquire, U!Prepare, U!Commit, U!CommitFails, U!RollBack, U!Restore,
                 U!RecordApplied, U!counters
  <2>2. U!ReadFile \/ U!FormatHashReadResult \/ UNCHANGED U!vars => writes' = writes /\ stuck' = stuck
    BY DEF U!ReadFile, U!FormatHashReadResult, U!vars, U!counters
  <2>3. U!Outsider => writes' = writes + 1 /\ stuck' = stuck
    BY DEF U!Outsider
  <2>4. \A c \in EditCalls : U!RestoreFails(c) => writes' = writes /\ stuck' = stuck + 1
    BY DEF U!RestoreFails
  <2> QED BY <1>2, <2>1, <2>2, <2>3, <2>4 DEF U!Next, Counted
<1> QED BY <1>1, <1>2, PTL DEF U!Spec

(* The files change by whole edits, each from the texts that it was built  *)
(* from, or by an outsider, whatever calls overlap, abort or fail; what a  *)
(* rollback cannot put back stays behind file by file                      *)
(* (unified-edit.ts, commitPreparedChange, withMutationQueues).            *)
THEOREM EditsAreWhole == U!Spec => U!EditsAreAtomic
<1> DEFINE atomic == [U!WholeEdit \/ U!StaysBehind \/ writes' # writes \/ disturbed']_(U!Committed)
<1>1. ASSUME EditInv, EditInv', CommittedIsTrue, CommittedIsTrue', Counted, [U!Next]_(U!vars)
      PROVE  atomic
  <2> SUFFICES ASSUME writes' = writes, ~disturbed', U!Committed' # U!Committed
               PROVE  U!WholeEdit \/ U!StaysBehind
    OBVIOUS
  <2>1. ~disturbed
    <3>1. \A c \in EditCalls :
            U!BuildHashChanges(c) \/ U!Acquire(c) \/ U!Prepare(c) \/ U!Commit(c) \/ U!RollBack(c) \/ U!Restore(c)
              \/ U!RestoreFails(c) \/ U!RecordApplied(c) => disturbed' = disturbed
      BY Zenon DEF U!BuildHashChanges, U!Acquire, U!Prepare, U!Commit, U!RollBack, U!Restore, U!RestoreFails,
                   U!RecordApplied
    <3>2. \A c \in EditCalls : U!CommitFails(c) => disturbed' = disturbed
      BY DEF U!CommitFails
    <3>3. (U!ReadFile \/ U!FormatHashReadResult \/ UNCHANGED U!vars) => disturbed' = disturbed
      BY DEF U!ReadFile, U!FormatHashReadResult, U!vars
    <3>4. U!Outsider => ~disturbed
      BY DEF U!Outsider
    <3> QED BY <1>1, <3>1, <3>2, <3>3, <3>4 DEF U!Next
  <2>2. Undisturbed
    BY <1>1, <2>1 DEF Undisturbed
  <2>3. CASE UNCHANGED <<edited, editCall>>
    BY <2>3 DEF U!Committed, U!Between
  <2>4. ASSUME NEW c \in EditCalls,
               U!BuildHashChanges(c) \/ U!Prepare(c) \/ U!Commit(c) \/ U!CommitFails(c)
                 \/ U!RollBack(c) \/ U!Restore(c) \/ U!RestoreFails(c) \/ U!RecordApplied(c)
        PROVE  U!WholeEdit \/ U!StaysBehind
    BY <1>1, <2>2, <2>4, EditPartsAssumption, PrepareIsAtomic, CommitIsAtomic, FailureIsAtomic, RollBackIsAtomic,
       RestoreIsAtomic, OthersAreAtomic DEF Counted
  <2>5. CASE U!ReadFile \/ U!FormatHashReadResult \/ \E c \in EditCalls : U!Acquire(c)
    BY <2>3, <2>5 DEF U!ReadFile, U!FormatHashReadResult, U!Acquire
  <2>6. ~U!Outsider
    BY <1>1 DEF U!Outsider, Counted
  <2> QED BY <1>1, <2>3, <2>4, <2>5, <2>6 DEF U!Next, U!vars
<1>2. [](EditInv /\ CommittedIsTrue /\ Counted) /\ [][U!Next]_(U!vars)
        => [][U!WholeEdit \/ U!StaysBehind \/ writes' # writes \/ disturbed']_(U!Committed)
  BY <1>1, PTL
<1> QED BY <1>2, EditsStay, CommittedIs, MishapsAreCounted, PTL DEF U!Spec, U!EditsAreAtomic

-----------------------------------------------------------------------------
(* Sequences.                                                              *)

(* What stays of a sequence is what of it is in the set.  Each of those    *)
(* that stay has a number of its own, and they are as many as numbers.     *)
LEMMA KeptIs ==
  ASSUME NEW A, NEW s \in Seq(A), NEW S
  PROVE  /\ C!Kept(s, S) \in Seq(A)
         /\ C!Range(C!Kept(s, S)) = C!Range(s) \cap S
<1> DEFINE stay == {i \in DOMAIN s : s[i] \in S}
           Number(i) == Cardinality({j \in stay : j <= i})
           Nth(n) == CHOOSE i \in stay : Cardinality({j \in stay : j <= i}) = n
           kept == [n \in 1..Cardinality(stay) |-> s[Nth(n)]]
<1>1. DOMAIN s = 1..Len(s) /\ Len(s) \in Nat /\ \A i \in 1..Len(s) : s[i] \in A
  BY LenProperties, ElementOfSeq
<1>2. stay \in SUBSET (1..Len(s))
  BY <1>1
<1>3. IsFiniteSet(stay)
  <2>1. IsFiniteSet(1..Len(s))
    BY <1>1, FS_Interval
  <2> QED BY <1>2, <2>1, FS_Subset
<1>4. \A i \in stay : i \in Nat
  BY <1>1, <1>2
<1> HIDE DEF stay
<1>5. ASSUME NEW i \in stay
      PROVE  /\ {j \in stay : j <= i} \in SUBSET stay /\ IsFiniteSet({j \in stay : j <= i})
             /\ Number(i) \in 1..Cardinality(stay)
  <2>1. {j \in stay : j <= i} \in SUBSET stay
    OBVIOUS
  <2>2. IsFiniteSet({j \in stay : j <= i}) /\ Number(i) <= Cardinality(stay)
    BY <1>3, <2>1, FS_Subset
  <2>3. i \in {j \in stay : j <= i}
    BY <1>4
  <2>4. Number(i) # 0
    BY <2>2, <2>3, FS_EmptySet
  <2>5. Number(i) \in Nat /\ Cardinality(stay) \in Nat
    BY <1>3, <2>2, FS_CardinalityType
  <2> QED BY <2>1, <2>2, <2>4, <2>5
<1>6. ASSUME NEW i \in stay, NEW k \in stay, i < k PROVE Number(i) # Number(k)
  <2>1. {j \in stay : j <= i} \in SUBSET {j \in stay : j <= k}
    BY <1>4, <1>6
  <2>2. k \in {j \in stay : j <= k} /\ k \notin {j \in stay : j <= i}
    BY <1>4, <1>6
  <2>3. IsFiniteSet({j \in stay : j <= k})
    BY <1>5
  <2> QED BY <2>1, <2>2, <2>3, FS_Subset
<1> HIDE DEF Number
<1>7. \A i, k \in stay : Number(i) = Number(k) => i = k
  <2> SUFFICES ASSUME NEW i \in stay, NEW k \in stay, i # k PROVE Number(i) # Number(k)
    OBVIOUS
  <2>1. i < k \/ k < i
    BY <1>4
  <2> QED BY <1>6, <2>1
<1>8. \A n \in 1..Cardinality(stay) : \E i \in stay : Number(i) = n
  <2> DEFINE f == [i \in stay |-> Number(i)]
  <2>1. f \in Injection(stay, 1..Cardinality(stay))
    <3>1. \A i \in stay : Number(i) \in 1..Cardinality(stay)
      BY <1>5
    <3>2. f \in [stay -> 1..Cardinality(stay)]
      BY <3>1
    <3>3. \A i, k \in stay : f[i] = f[k] => i = k
      BY <1>7
    <3> QED BY <3>2, <3>3 DEF Injection, IsInjective
  <2>2. Cardinality(stay) \in Nat
    BY <1>3, FS_CardinalityType
  <2>3. IsFiniteSet(1..Cardinality(stay)) /\ Cardinality(1..Cardinality(stay)) = Cardinality(stay)
    BY <2>2, FS_Interval
  <2>4. f \in Surjection(stay, 1..Cardinality(stay))
    BY <2>1, <2>3, FS_Injection
  <2> QED BY <2>4 DEF Surjection
<1>9. \A n \in 1..Cardinality(stay) : Nth(n) \in stay /\ Number(Nth(n)) = n
  BY <1>8 DEF Number
<1> HIDE DEF Nth
<1>10. \A i \in stay : i \in 1..Len(s) /\ s[i] \in A /\ s[i] \in S
  BY <1>1, <1>2 DEF stay
<1>11. kept \in Seq(A)
  <2>1. Cardinality(stay) \in Nat
    BY <1>3, FS_CardinalityType
  <2>2. kept \in [1..Cardinality(stay) -> A]
    BY <1>9, <1>10
  <2> QED BY <2>1, <2>2, SeqDef
<1>12. C!Range(kept) = C!Range(s) \cap S
  <2>1. \A x \in C!Range(kept) : x \in C!Range(s) \cap S
    BY <1>1, <1>9, <1>10 DEF C!Range
  <2>2. ASSUME NEW x \in C!Range(s) \cap S PROVE x \in C!Range(kept)
    <3>1. PICK i \in stay : s[i] = x
      BY <1>1 DEF C!Range, stay
    <3>2. Number(i) \in 1..Cardinality(stay)
      BY <1>5 DEF Number
    <3>3. Nth(Number(i)) = i
      BY <1>7, <1>9, <3>2 DEF Number
    <3>4. kept[Number(i)] = x
      BY <3>1, <3>2, <3>3
    <3> QED BY <3>2, <3>4 DEF C!Range
  <2> QED BY <2>1, <2>2
<1>13. C!Kept(s, S) = kept
  BY DEF C!Kept, stay, Nth, C!Cardinality, Cardinality
<1> QED BY <1>11, <1>12, <1>13

-----------------------------------------------------------------------------
(* The branch of the session.                                              *)

Checkpoints == [revision : Nat, source : Seq(Nat), projected : Seq(Nat), dropped : SUBSET Nat]
ContextStates ==
    [enabled : BOOLEAN, revision : Nat, checkpoint : Checkpoints \cup {Absent},
     outcome : {"none", "applied", "rejected", "reset", "mismatch"}]
Notes == [id : Nat, resolved : BOOLEAN]
MessageEntries == [type : {"message"}, message : Nat]
StateEntries == [type : {"state"}, state : ContextStates]
SettingsEntries == [type : {"settings"}, value : {"auto", "on", "off"}]
NoteEntries == [type : {"annotation"}, note : Notes]
ContextEntries == MessageEntries \cup StateEntries \cup SettingsEntries \cup NoteEntries

(* A checkpoint projects what it is made of, and knows what it dropped.    *)
SoundIn(m, c) ==
    /\ C!Range(c.projected) \subseteq C!Range(c.source)
    /\ m = "conservative" => C!Range(c.source) \ C!Range(c.projected) \subseteq c.dropped

StatesOf(b) == C!OfType(b, "state")
FullOf(b) == {i \in StatesOf(b) : b[i].state.checkpoint # Absent}
NotedOf(b) == C!OfType(b, "annotation")

StatesAreSound(m, b) ==
    \A i \in FullOf(b) :
        /\ b[i].state.checkpoint.revision = b[i].state.revision
        /\ SoundIn(m, b[i].state.checkpoint)
RevisionsGrow(b) == \A i, j \in StatesOf(b) : i <= j => b[i].state.revision <= b[j].state.revision
NotesAreNumbered(b) ==
    \A i \in NotedOf(b) :
        /\ b[i].note.id >= 1
        /\ \A k \in 1..b[i].note.id : \E j \in NotedOf(b) : j <= i /\ b[j].note.id = k

BranchOk(m, b) ==
    /\ b \in Seq(ContextEntries)
    /\ StatesAreSound(m, b) /\ RevisionsGrow(b) /\ NotesAreNumbered(b)

LEMMA EntriesOf ==
  ASSUME NEW b \in Seq(ContextEntries), NEW t
  PROVE  /\ DOMAIN b = 1..Len(b) /\ Len(b) \in Nat
         /\ \A i \in 1..Len(b) : b[i] \in ContextEntries
         /\ C!OfType(b, t) \in SUBSET (1..Len(b)) /\ IsFiniteSet(C!OfType(b, t))
         /\ \A i \in C!OfType(b, t) : i \in Nat /\ b[i].type = t
<1>1. DOMAIN b = 1..Len(b) /\ Len(b) \in Nat /\ \A i \in 1..Len(b) : b[i] \in ContextEntries
  BY LenProperties, ElementOfSeq
<1>2. C!OfType(b, t) \in SUBSET (1..Len(b)) /\ \A i \in C!OfType(b, t) : i \in Nat /\ b[i].type = t
  BY <1>1 DEF C!OfType
<1>3. IsFiniteSet(1..Len(b))
  BY <1>1, FS_Interval
<1> QED BY <1>1, <1>2, <1>3, FS_Subset

(* An entry is what its type says.                                         *)
LEMMA TypedEntries ==
  ASSUME NEW b \in Seq(ContextEntries)
  PROVE  /\ \A i \in StatesOf(b) : b[i] \in StateEntries /\ b[i].state \in ContextStates
         /\ \A i \in NotedOf(b) : b[i] \in NoteEntries /\ b[i].note \in Notes
         /\ \A i \in C!OfType(b, "message") : b[i].message \in Nat
<1>1. \A i \in 1..Len(b) : b[i] \in ContextEntries
  BY EntriesOf
<1>2. ASSUME NEW e \in ContextEntries
      PROVE  /\ e.type = "state" => e \in StateEntries
             /\ e.type = "annotation" => e \in NoteEntries
             /\ e.type = "message" => e \in MessageEntries
  BY DEF ContextEntries, MessageEntries, StateEntries, SettingsEntries, NoteEntries
<1>3. \A e \in StateEntries : e.state \in ContextStates
  BY DEF StateEntries
<1>4. \A e \in NoteEntries : e.note \in Notes
  BY DEF NoteEntries
<1>5. \A e \in MessageEntries : e.message \in Nat
  BY DEF MessageEntries
<1>6. \A t : \A i \in C!OfType(b, t) : i \in 1..Len(b) /\ b[i].type = t
  BY EntriesOf
<1>7. \A i \in StatesOf(b) : b[i] \in StateEntries
  BY <1>1, <1>2, <1>6 DEF StatesOf
<1>8. \A i \in NotedOf(b) : b[i] \in NoteEntries
  BY <1>1, <1>2, <1>6 DEF NotedOf
<1>9. \A i \in C!OfType(b, "message") : b[i] \in MessageEntries
  BY <1>1, <1>2, <1>6
<1> QED BY <1>3, <1>4, <1>5, <1>7, <1>8, <1>9

LEMMA LatestIs ==
  ASSUME NEW S, S \subseteq Nat, IsFiniteSet(S), S # {}
  PROVE  /\ C!Latest(S) \in S /\ \A j \in S : j <= C!Latest(S)
         /\ \A m \in S : (\A j \in S : j <= m) => C!Latest(S) = m
<1>1. \E i \in S : \A j \in S : j <= i
  BY GreatestOf
<1>2. C!Latest(S) \in S /\ \A j \in S : j <= C!Latest(S)
  BY <1>1 DEF C!Latest
<1>3. ASSUME NEW m \in S, \A j \in S : j <= m PROVE C!Latest(S) = m
  <2>1. m <= C!Latest(S) /\ C!Latest(S) <= m
    BY <1>2, <1>3
  <2>2. m \in Nat /\ C!Latest(S) \in Nat
    BY <1>2
  <2> QED BY <2>1, <2>2
<1> QED BY <1>2, <1>3

(* One entry more.                                                         *)
LEMMA OneMore ==
  ASSUME NEW b \in Seq(ContextEntries), NEW e \in ContextEntries
  PROVE  /\ Append(b, e) \in Seq(ContextEntries) /\ Len(Append(b, e)) = Len(b) + 1
         /\ \A i \in 1..Len(b) : Append(b, e)[i] = b[i]
         /\ Append(b, e)[Len(b) + 1] = e
         /\ \A t : C!OfType(Append(b, e), t) = C!OfType(b, t) \cup (IF e.type = t THEN {Len(b) + 1} ELSE {})
<1>1. /\ Append(b, e) \in Seq(ContextEntries) /\ Len(Append(b, e)) = Len(b) + 1
      /\ \A i \in 1..Len(b) : Append(b, e)[i] = b[i]
      /\ Append(b, e)[Len(b) + 1] = e
  BY AppendProperties
<1>2. DOMAIN b = 1..Len(b) /\ DOMAIN Append(b, e) = 1..Len(b) + 1 /\ Len(b) \in Nat
  BY <1>1, LenProperties
<1>3. \A i : i \in 1..Len(b) + 1 <=> i \in 1..Len(b) \/ i = Len(b) + 1
  BY <1>2
<1>4. ASSUME NEW t
      PROVE  C!OfType(Append(b, e), t) = C!OfType(b, t) \cup (IF e.type = t THEN {Len(b) + 1} ELSE {})
  BY <1>1, <1>2, <1>3 DEF C!OfType
<1> QED BY <1>1, <1>4

-----------------------------------------------------------------------------
(* What a resume restores.                                                 *)

LEMMA FullIs ==
  ASSUME NEW b \in Seq(ContextEntries)
  PROVE  /\ StatesOf(b) \subseteq Nat /\ IsFiniteSet(StatesOf(b))
         /\ FullOf(b) \subseteq StatesOf(b) /\ FullOf(b) \subseteq Nat /\ IsFiniteSet(FullOf(b))
         /\ \A i \in FullOf(b) : b[i].state.checkpoint \in Checkpoints
<1>1. StatesOf(b) \subseteq Nat /\ IsFiniteSet(StatesOf(b))
  BY EntriesOf DEF StatesOf
<1>2. FullOf(b) \in SUBSET StatesOf(b)
  BY DEF FullOf
<1>3. \A i \in FullOf(b) : b[i].state \in ContextStates /\ b[i].state.checkpoint # Absent
  BY TypedEntries DEF FullOf
<1>4. \A i \in FullOf(b) : b[i].state.checkpoint \in Checkpoints
  BY <1>3 DEF ContextStates
<1> QED BY <1>1, <1>2, <1>4, FS_Subset

(* The restored state is the last one, with the last checkpoint if that    *)
(* is of its revision.                                                     *)
LEMMA RestoredIs ==
  ASSUME NEW m, NEW b, BranchOk(m, b), NEW s, s = C!ReconstructState(b)
  PROVE  /\ s \in ContextStates
         /\ \A i \in StatesOf(b) : b[i].state.revision <= s.revision
         /\ s.checkpoint = Absent /\ FullOf(b) # {} =>
               b[C!Latest(FullOf(b))].state.checkpoint.revision # s.revision
         /\ s.checkpoint # Absent =>
               /\ FullOf(b) # {} /\ s.checkpoint = b[C!Latest(FullOf(b))].state.checkpoint
               /\ s.checkpoint.revision = s.revision /\ SoundIn(m, s.checkpoint)
<1> USE DEF BranchOk
<1>1. CASE StatesOf(b) = {}
  <2>1. s = C!InitialState
    BY <1>1 DEF C!ReconstructState, StatesOf
  <2>2. FullOf(b) = {}
    BY <1>1 DEF FullOf
  <2> QED BY <1>1, <2>1, <2>2 DEF C!InitialState, ContextStates
<1>2. CASE StatesOf(b) # {}
  <2> DEFINE last == b[C!Latest(StatesOf(b))].state
             checkpoint == b[C!Latest(FullOf(b))].state.checkpoint
  <2>1. s = IF last.checkpoint = Absent /\ FullOf(b) # {} /\ checkpoint.revision = last.revision
            THEN [last EXCEPT !.checkpoint = checkpoint] ELSE last
    BY <1>2 DEF C!ReconstructState, StatesOf, FullOf
  <2>2. C!Latest(StatesOf(b)) \in StatesOf(b) /\ \A j \in StatesOf(b) : j <= C!Latest(StatesOf(b))
    BY <1>2, FullIs, LatestIs
  <2>3. last \in ContextStates
    BY <2>2, TypedEntries
  <2>4. \A i \in StatesOf(b) : b[i].state.revision <= last.revision
    BY <2>2 DEF RevisionsGrow
  <2>5. FullOf(b) # {} =>
           /\ C!Latest(FullOf(b)) \in FullOf(b) /\ \A j \in FullOf(b) : j <= C!Latest(FullOf(b))
           /\ checkpoint \in Checkpoints
    BY FullIs, LatestIs
  <2>6. last.checkpoint # Absent => FullOf(b) # {} /\ C!Latest(FullOf(b)) = C!Latest(StatesOf(b))
    <3> SUFFICES ASSUME last.checkpoint # Absent
                 PROVE  FullOf(b) # {} /\ C!Latest(FullOf(b)) = C!Latest(StatesOf(b))
      OBVIOUS
    <3>1. C!Latest(StatesOf(b)) \in FullOf(b)
      BY <2>2 DEF FullOf
    <3>2. \A j \in FullOf(b) : j <= C!Latest(StatesOf(b))
      BY <2>2, FullIs
    <3> QED BY <3>1, <3>2, FullIs, LatestIs
  <2>7. FullOf(b) # {} => checkpoint # Absent /\ SoundIn(m, checkpoint)
    BY <2>5 DEF StatesAreSound, FullOf
  <2>8. last.checkpoint # Absent => checkpoint = last.checkpoint /\ checkpoint.revision = last.revision
    BY <2>5, <2>6 DEF StatesAreSound
  <2> HIDE DEF last, checkpoint
  <2>9. CASE last.checkpoint = Absent /\ FullOf(b) # {} /\ checkpoint.revision = last.revision
    <3>1. s = [last EXCEPT !.checkpoint = checkpoint]
      BY <2>1, <2>9
    <3>2. s \in ContextStates /\ s.revision = last.revision /\ s.checkpoint = checkpoint
      BY <2>3, <2>5, <2>9, <3>1 DEF ContextStates
    <3> QED BY <2>4, <2>5, <2>7, <2>9, <3>2 DEF checkpoint
  <2>10. CASE ~(last.checkpoint = Absent /\ FullOf(b) # {} /\ checkpoint.revision = last.revision)
    <3>1. s = last
      BY <2>1, <2>10
    <3> QED BY <2>3, <2>4, <2>6, <2>7, <2>8, <2>10, <3>1 DEF checkpoint
  <2> QED BY <2>9, <2>10
<1> QED BY <1>1, <1>2

LEMMA HistoryIs ==
  ASSUME NEW m, NEW b, BranchOk(m, b)
  PROVE  /\ C!ReconstructHistory(b) = {b[i].state.checkpoint : i \in FullOf(b)}
         /\ \A h \in C!ReconstructHistory(b) :
               /\ h \in Checkpoints /\ SoundIn(m, h)
               /\ h.revision <= C!ReconstructState(b).revision
<1>1. C!ReconstructHistory(b) = {b[i].state.checkpoint : i \in FullOf(b)}
  BY DEF C!ReconstructHistory, FullOf, StatesOf
<1>2. \A i \in StatesOf(b) : b[i].state.revision <= C!ReconstructState(b).revision
  BY RestoredIs
<1>3. ASSUME NEW i \in FullOf(b)
      PROVE  /\ b[i].state.checkpoint \in Checkpoints /\ SoundIn(m, b[i].state.checkpoint)
             /\ b[i].state.checkpoint.revision <= C!ReconstructState(b).revision
  BY <1>2, FullIs DEF BranchOk, StatesAreSound
<1> QED BY <1>1, <1>3

(* An entry that is no state leaves the states as they were.               *)
LEMMA OtherEntry ==
  ASSUME NEW m, NEW b, BranchOk(m, b), NEW e \in ContextEntries, e.type # "state"
  PROVE  /\ StatesOf(Append(b, e)) = StatesOf(b) /\ FullOf(Append(b, e)) = FullOf(b)
         /\ \A i \in StatesOf(b) : Append(b, e)[i] = b[i]
         /\ StatesAreSound(m, Append(b, e)) /\ RevisionsGrow(Append(b, e))
         /\ C!ReconstructState(Append(b, e)) = C!ReconstructState(b)
         /\ C!ReconstructHistory(Append(b, e)) = C!ReconstructHistory(b)
<1> DEFINE c == Append(b, e)
<1>1. b \in Seq(ContextEntries)
  BY DEF BranchOk
<1>2. StatesOf(c) = StatesOf(b)
  <2>1. C!OfType(c, "state") = C!OfType(b, "state") \cup (IF e.type = "state" THEN {Len(b) + 1} ELSE {})
    BY <1>1, OneMore
  <2> QED BY <2>1 DEF StatesOf
<1>3. \A i \in StatesOf(b) : c[i] = b[i]
  BY <1>1, OneMore, EntriesOf DEF StatesOf
<1> HIDE DEF c
<1>4. FullOf(c) = FullOf(b)
  BY <1>2, <1>3 DEF FullOf
<1>5. \A i \in FullOf(b) : i \in StatesOf(b)
  BY DEF FullOf
<1>6. StatesAreSound(m, c) /\ RevisionsGrow(c)
  BY <1>2, <1>3, <1>4, <1>5 DEF BranchOk, StatesAreSound, RevisionsGrow
<1>7. StatesOf(b) # {} => C!Latest(StatesOf(b)) \in StatesOf(b)
  BY <1>1, FullIs, LatestIs
<1>8. FullOf(b) # {} => C!Latest(FullOf(b)) \in FullOf(b)
  BY <1>1, FullIs, LatestIs
<1>9. \A d : C!ReconstructState(d) =
                IF StatesOf(d) = {} THEN C!InitialState
                ELSE IF /\ d[C!Latest(StatesOf(d))].state.checkpoint = Absent
                        /\ FullOf(d) # {}
                        /\ d[C!Latest(FullOf(d))].state.checkpoint.revision = d[C!Latest(StatesOf(d))].state.revision
                THEN [d[C!Latest(StatesOf(d))].state EXCEPT !.checkpoint = d[C!Latest(FullOf(d))].state.checkpoint]
                ELSE d[C!Latest(StatesOf(d))].state
  BY DEF C!ReconstructState, StatesOf, FullOf
<1>10. StatesOf(b) # {} => c[C!Latest(StatesOf(b))] = b[C!Latest(StatesOf(b))]
  BY <1>3, <1>7
<1>11. FullOf(b) # {} => c[C!Latest(FullOf(b))] = b[C!Latest(FullOf(b))]
  BY <1>3, <1>5, <1>8
<1>12. C!ReconstructState(c) = C!ReconstructState(b)
  BY <1>2, <1>4, <1>9, <1>10, <1>11
<1>13. C!ReconstructHistory(c) = C!ReconstructHistory(b)
  BY <1>2, <1>3 DEF C!ReconstructHistory, StatesOf
<1> QED BY <1>2, <1>3, <1>4, <1>6, <1>12, <1>13 DEF c

(* A state of a new revision is what is restored from it on.               *)
LEMMA PersistedInFull ==
  ASSUME NEW m, NEW b, BranchOk(m, b), NEW s \in ContextStates,
         s.revision = C!ReconstructState(b).revision + 1,
         s.checkpoint # Absent => s.checkpoint.revision = s.revision /\ SoundIn(m, s.checkpoint)
  PROVE  /\ BranchOk(m, Append(b, C!StateEntry(s)))
         /\ C!ReconstructState(Append(b, C!StateEntry(s))) = s
         /\ C!ReconstructHistory(Append(b, C!StateEntry(s))) =
               IF s.checkpoint = Absent THEN C!ReconstructHistory(b)
               ELSE {h \in C!ReconstructHistory(b) : h.revision # s.revision} \cup {s.checkpoint}
<1> DEFINE e == C!StateEntry(s)
           c == Append(b, e)
           n == Len(b) + 1
<1>1. e \in ContextEntries /\ e.type = "state" /\ e.state = s
  BY DEF C!StateEntry, ContextEntries, StateEntries
<1>2. b \in Seq(ContextEntries)
  BY DEF BranchOk
<1> HIDE DEF e
<1>3. /\ c \in Seq(ContextEntries) /\ Len(c) = n /\ n \in Nat
      /\ \A i \in 1..Len(b) : c[i] = b[i]
      /\ c[n] = e
  BY <1>1, <1>2, OneMore, EntriesOf
<1>4. StatesOf(c) = StatesOf(b) \cup {n} /\ NotedOf(c) = NotedOf(b)
  <2>1. \A t : C!OfType(c, t) = C!OfType(b, t) \cup (IF e.type = t THEN {n} ELSE {})
    BY <1>1, <1>2, OneMore
  <2> QED BY <1>1, <2>1 DEF StatesOf, NotedOf
<1>5. /\ \A i \in StatesOf(b) : i \in 1..Len(b) /\ i < n /\ c[i] = b[i] /\ b[i].state \in ContextStates
      /\ \A i \in NotedOf(b) : c[i] = b[i]
  BY <1>2, <1>3, EntriesOf, TypedEntries DEF StatesOf, NotedOf
<1> HIDE DEF c, n
<1>6. FullOf(c) = FullOf(b) \cup (IF s.checkpoint = Absent THEN {} ELSE {n})
  <2>1. \A i \in StatesOf(b) : c[i].state.checkpoint = b[i].state.checkpoint
    BY <1>5
  <2>2. c[n].state.checkpoint = s.checkpoint
    BY <1>1, <1>3
  <2> QED BY <1>4, <2>1, <2>2 DEF FullOf
<1>7. \A i \in FullOf(b) : i \in StatesOf(b)
  BY DEF FullOf
<1>8. s.revision \in Nat /\ C!ReconstructState(b).revision \in Nat
  BY RestoredIs DEF ContextStates
<1>9. \A i \in StatesOf(b) : b[i].state.revision < s.revision
  <2>1. \A i \in StatesOf(b) : b[i].state.revision <= C!ReconstructState(b).revision
    BY RestoredIs
  <2>2. \A i \in StatesOf(b) : b[i].state.revision \in Nat
    BY <1>5 DEF ContextStates
  <2> QED BY <1>8, <2>1, <2>2
<1>10. StatesAreSound(m, c)
  <2>1. \A i \in FullOf(b) : c[i] = b[i]
    BY <1>5, <1>7
  <2>2. c[n].state = s
    BY <1>1, <1>3
  <2> QED BY <1>6, <2>1, <2>2 DEF StatesAreSound, BranchOk
<1>11. RevisionsGrow(c)
  <2> SUFFICES ASSUME NEW i \in StatesOf(c), NEW j \in StatesOf(c), i <= j
               PROVE  c[i].state.revision <= c[j].state.revision
    BY DEF RevisionsGrow
  <2>1. c[n].state = s
    BY <1>1, <1>3
  <2>2. CASE i \in StatesOf(b) /\ j \in StatesOf(b)
    BY <1>5, <2>2 DEF RevisionsGrow, BranchOk
  <2>3. CASE i \in StatesOf(b) /\ j = n
    <3>1. c[i].state.revision < s.revision /\ c[i].state.revision \in Nat
      BY <1>5, <1>9, <2>3 DEF ContextStates
    <3> QED BY <1>8, <2>1, <2>3, <3>1
  <2>4. CASE i = n /\ j \in StatesOf(b)
    <3>1. j < n /\ j \in Nat /\ n \in Nat
      BY <1>3, <1>5, <2>4
    <3> QED BY <2>4, <3>1
  <2>5. CASE i = n /\ j = n
    BY <1>8, <2>1, <2>5
  <2> QED BY <1>4, <2>2, <2>3, <2>4, <2>5
<1>12. NotesAreNumbered(c)
  BY <1>4, <1>5 DEF NotesAreNumbered, BranchOk
<1>13. C!Latest(StatesOf(c)) = n
  <2>1. n \in StatesOf(c)
    BY <1>4
  <2>2. \A j \in StatesOf(c) : j <= n
    BY <1>3, <1>4, <1>5
  <2> QED BY <1>3, <2>1, <2>2, FullIs, LatestIs
<1>14. C!ReconstructState(c) = s
  <2>1. c[n].state = s
    BY <1>1, <1>3
  <2>2. StatesOf(c) # {}
    BY <1>4
  <2>3. C!ReconstructState(c) =
           IF s.checkpoint = Absent /\ FullOf(c) # {}
              /\ c[C!Latest(FullOf(c))].state.checkpoint.revision = s.revision
           THEN [s EXCEPT !.checkpoint = c[C!Latest(FullOf(c))].state.checkpoint] ELSE s
    BY <1>13, <2>1, <2>2 DEF C!ReconstructState, StatesOf, FullOf
  <2>4. ASSUME s.checkpoint = Absent, FullOf(c) # {}
        PROVE  c[C!Latest(FullOf(c))].state.checkpoint.revision # s.revision
    <3>1. FullOf(c) = FullOf(b)
      BY <1>6, <2>4
    <3>2. C!Latest(FullOf(b)) \in FullOf(b)
      BY <1>2, <2>4, <3>1, FullIs, LatestIs
    <3>3. PICK i \in FullOf(b) : i = C!Latest(FullOf(c))
      BY <3>1, <3>2
    <3>4. c[i].state.checkpoint.revision = b[i].state.revision /\ b[i].state.revision \in Nat
      BY <1>5, <1>7 DEF StatesAreSound, BranchOk, ContextStates
    <3>5. b[i].state.revision < s.revision
      BY <1>7, <1>9
    <3> QED BY <1>8, <3>3, <3>4, <3>5
  <2> QED BY <2>3, <2>4
<1>15. C!ReconstructHistory(c) =
          IF s.checkpoint = Absent THEN C!ReconstructHistory(b)
          ELSE {h \in C!ReconstructHistory(b) : h.revision # s.revision} \cup {s.checkpoint}
  <2>1. BranchOk(m, c)
    BY <1>3, <1>10, <1>11, <1>12 DEF BranchOk
  <2>2. /\ C!ReconstructHistory(c) = {c[i].state.checkpoint : i \in FullOf(c)}
        /\ C!ReconstructHistory(b) = {b[i].state.checkpoint : i \in FullOf(b)}
    BY <2>1, HistoryIs
  <2>3. \A i \in FullOf(b) : c[i].state.checkpoint = b[i].state.checkpoint
    BY <1>5, <1>7
  <2>4. c[n].state.checkpoint = s.checkpoint
    BY <1>1, <1>3
  <2>5. \A h \in C!ReconstructHistory(b) : h.revision # s.revision
    <3>1. \A h \in C!ReconstructHistory(b) : h.revision <= C!ReconstructState(b).revision /\ h.revision \in Nat
      BY HistoryIs DEF Checkpoints
    <3> QED BY <1>8, <3>1
  <2>6. CASE s.checkpoint = Absent
    <3>1. FullOf(c) = FullOf(b)
      BY <1>6, <2>6
    <3> QED BY <2>2, <2>3, <2>6, <3>1
  <2>7. CASE s.checkpoint # Absent
    <3>1. FullOf(c) = FullOf(b) \cup {n}
      BY <1>6, <2>7
    <3>2. C!ReconstructHistory(c) = C!ReconstructHistory(b) \cup {s.checkpoint}
      BY <2>2, <2>3, <2>4, <3>1
    <3> QED BY <2>5, <2>7, <3>2
  <2> QED BY <2>6, <2>7
<1> QED BY <1>3, <1>10, <1>11, <1>12, <1>14, <1>15 DEF BranchOk, c, e

(* A slim entry of the same revision leaves the checkpoint as it was.      *)
LEMMA PersistedSlim ==
  ASSUME NEW m, NEW b, BranchOk(m, b), NEW r, r = C!ReconstructState(b), NEW s \in ContextStates,
         s.revision = r.revision, s.checkpoint = r.checkpoint
  PROVE  /\ BranchOk(m, Append(b, C!StateEntry(C!ToOutcomeEntry(s))))
         /\ C!ReconstructState(Append(b, C!StateEntry(C!ToOutcomeEntry(s)))) = s
         /\ C!ReconstructHistory(Append(b, C!StateEntry(C!ToOutcomeEntry(s)))) = C!ReconstructHistory(b)
<1> DEFINE t == C!ToOutcomeEntry(s)
           e == C!StateEntry(t)
           c == Append(b, e)
           n == Len(b) + 1
<1>0. /\ t \in ContextStates /\ t.checkpoint = Absent /\ t.revision = s.revision
      /\ \A x : x = s.checkpoint => [t EXCEPT !.checkpoint = x] = s
      /\ s.checkpoint = Absent => t = s
  BY DEF C!ToOutcomeEntry, ContextStates
<1> HIDE DEF t
<1>1. e \in ContextEntries /\ e.type = "state" /\ e.state = t
  BY <1>0 DEF C!StateEntry, ContextEntries, StateEntries
<1>2. b \in Seq(ContextEntries)
  BY DEF BranchOk
<1> HIDE DEF e
<1>3. /\ c \in Seq(ContextEntries) /\ Len(c) = n /\ n \in Nat
      /\ \A i \in 1..Len(b) : c[i] = b[i]
      /\ c[n] = e
  BY <1>1, <1>2, OneMore, EntriesOf
<1>4. StatesOf(c) = StatesOf(b) \cup {n} /\ NotedOf(c) = NotedOf(b)
  <2>1. \A y : C!OfType(c, y) = C!OfType(b, y) \cup (IF e.type = y THEN {n} ELSE {})
    BY <1>1, <1>2, OneMore
  <2> QED BY <1>1, <2>1 DEF StatesOf, NotedOf
<1>5. /\ \A i \in StatesOf(b) : i \in 1..Len(b) /\ i < n /\ c[i] = b[i] /\ b[i].state \in ContextStates
      /\ \A i \in NotedOf(b) : c[i] = b[i]
  BY <1>2, <1>3, EntriesOf, TypedEntries DEF StatesOf, NotedOf
<1> HIDE DEF c, n
<1>6. FullOf(c) = FullOf(b)
  <2>1. \A i \in StatesOf(b) : c[i].state.checkpoint = b[i].state.checkpoint
    BY <1>5
  <2>2. c[n].state.checkpoint = Absent
    BY <1>0, <1>1, <1>3
  <2> QED BY <1>4, <2>1, <2>2 DEF FullOf
<1>7. \A i \in FullOf(b) : i \in StatesOf(b)
  BY DEF FullOf
<1>8. r \in ContextStates /\ r.revision \in Nat /\ \A i \in StatesOf(b) : b[i].state.revision <= r.revision
  BY RestoredIs DEF ContextStates
<1>9. StatesAreSound(m, c)
  <2>1. \A i \in FullOf(b) : c[i] = b[i]
    BY <1>5, <1>7
  <2> QED BY <1>6, <2>1 DEF StatesAreSound, BranchOk
<1>10. RevisionsGrow(c)
  <2> SUFFICES ASSUME NEW i \in StatesOf(c), NEW j \in StatesOf(c), i <= j
               PROVE  c[i].state.revision <= c[j].state.revision
    BY DEF RevisionsGrow
  <2>1. c[n].state.revision = r.revision
    BY <1>0, <1>1, <1>3
  <2>2. CASE i \in StatesOf(b) /\ j \in StatesOf(b)
    BY <1>5, <2>2 DEF RevisionsGrow, BranchOk
  <2>3. CASE i \in StatesOf(b) /\ j = n
    BY <1>5, <1>8, <2>1, <2>3
  <2>4. CASE i = n /\ j \in StatesOf(b)
    <3>1. \A k \in StatesOf(b) : k < n
      BY <1>5
    <3>2. j < n /\ n <= j /\ n \in Nat
      BY <1>3, <2>4, <3>1
    <3>3. j \in Nat
      BY <1>2, <2>4, FullIs
    <3> QED BY <3>2, <3>3
  <2>5. CASE i = n /\ j = n
    BY <1>8, <2>1, <2>5
  <2> QED BY <1>4, <2>2, <2>3, <2>4, <2>5
<1>11. NotesAreNumbered(c)
  BY <1>4, <1>5 DEF NotesAreNumbered, BranchOk
<1>12. C!Latest(StatesOf(c)) = n
  <2>1. n \in StatesOf(c)
    BY <1>4
  <2>2. \A j \in StatesOf(c) : j <= n
    BY <1>3, <1>4, <1>5
  <2> QED BY <1>3, <2>1, <2>2, FullIs, LatestIs
<1>13. C!ReconstructState(c) = s
  <2> DEFINE k == b[C!Latest(FullOf(b))].state.checkpoint
  <2>1. c[n].state = t /\ StatesOf(c) # {}
    BY <1>1, <1>3, <1>4
  <2>2. FullOf(b) # {} => c[C!Latest(FullOf(b))] = b[C!Latest(FullOf(b))]
    <3>1. FullOf(b) # {} => C!Latest(FullOf(b)) \in FullOf(b)
      BY <1>2, FullIs, LatestIs
    <3> QED BY <1>5, <1>7, <3>1
  <2>3. C!ReconstructState(c) =
           IF t.checkpoint = Absent /\ FullOf(b) # {}
              /\ c[C!Latest(FullOf(b))].state.checkpoint.revision = t.revision
           THEN [t EXCEPT !.checkpoint = c[C!Latest(FullOf(b))].state.checkpoint] ELSE t
    BY <1>6, <1>12, <2>1 DEF C!ReconstructState, StatesOf, FullOf
  <2>4. C!ReconstructState(c) =
           IF FullOf(b) # {} /\ k.revision = s.revision THEN [t EXCEPT !.checkpoint = k] ELSE t
    BY <1>0, <2>2, <2>3
  <2>5. r.checkpoint = Absent /\ FullOf(b) # {} => k.revision # r.revision
    BY RestoredIs
  <2>6. r.checkpoint # Absent => FullOf(b) # {} /\ k = r.checkpoint /\ k.revision = r.revision
    BY RestoredIs
  <2> HIDE DEF k
  <2> QED BY <1>0, <2>4, <2>5, <2>6
<1>14. C!ReconstructHistory(c) = C!ReconstructHistory(b)
  <2>1. BranchOk(m, c)
    BY <1>3, <1>9, <1>10, <1>11 DEF BranchOk
  <2>2. /\ C!ReconstructHistory(c) = {c[i].state.checkpoint : i \in FullOf(c)}
        /\ C!ReconstructHistory(b) = {b[i].state.checkpoint : i \in FullOf(b)}
    BY <2>1, HistoryIs
  <2>3. \A i \in FullOf(b) : c[i].state.checkpoint = b[i].state.checkpoint
    BY <1>5, <1>7
  <2> QED BY <1>6, <2>2, <2>3
<1> QED BY <1>3, <1>9, <1>10, <1>11, <1>13, <1>14 DEF BranchOk, c, e, t

-----------------------------------------------------------------------------
(* The notes on the branch.                                                *)

(* The notes have the first numbers, each its own.                         *)
LEMMA NotesAre ==
  ASSUME NEW m, NEW b, BranchOk(m, b), NEW notes, notes = C!ReconstructAnnotations(b)
  PROVE  /\ notes \subseteq Notes /\ IsFiniteSet(notes) /\ Cardinality(notes) \in Nat
         /\ \A x, y \in notes : x.id = y.id => x = y
         /\ \A x \in notes : x.id \in 1..Cardinality(notes)
         /\ \A k \in 1..Cardinality(notes) : \E i \in NotedOf(b) : b[i].note.id = k
<1> DEFINE last == {j \in NotedOf(b) : \A k \in NotedOf(b) : k > j => b[k].note.id # b[j].note.id}
           ids == {b[i].note.id : i \in NotedOf(b)}
<1>1. b \in Seq(ContextEntries)
  BY DEF BranchOk
<1>2. notes = {b[i].note : i \in last}
  BY DEF C!ReconstructAnnotations, NotedOf
<1>3. NotedOf(b) \subseteq Nat /\ IsFiniteSet(NotedOf(b)) /\ \A i \in NotedOf(b) : b[i].note \in Notes
  BY <1>1, EntriesOf, TypedEntries DEF NotedOf
<1>4. notes \subseteq Notes
  BY <1>2, <1>3
<1>5. \A x, y \in notes : x.id = y.id => x = y
  <2> SUFFICES ASSUME NEW i \in last, NEW j \in last, b[i].note.id = b[j].note.id
               PROVE  b[i].note = b[j].note
    BY <1>2
  <2>1. i \in Nat /\ j \in Nat
    BY <1>3
  <2>2. ~(i > j) /\ ~(j > i)
    OBVIOUS
  <2> QED BY <2>1, <2>2
<1>6. \A x \in notes : x.id \in ids
  BY <1>2
<1>7. ASSUME NEW k \in ids PROVE \E x \in notes : x.id = k
  <2> DEFINE same == {i \in NotedOf(b) : b[i].note.id = k}
  <2>1. same # {} /\ same \in SUBSET NotedOf(b)
    OBVIOUS
  <2>2. same \in SUBSET Nat /\ IsFiniteSet(same)
    BY <1>3, <2>1, FS_Subset
  <2> HIDE DEF same
  <2>3. PICK i \in same : \A j \in same : j <= i
    BY <2>1, <2>2, GreatestOf
  <2>4. \A j \in NotedOf(b) : j > i => j \notin same
    BY <1>3, <2>2, <2>3
  <2>5. i \in last /\ b[i].note.id = k
    BY <2>4 DEF same
  <2> QED BY <1>2, <2>5
<1> HIDE DEF last
<1>8. \E n \in Nat : ids = 1..n
  <2>1. CASE NotedOf(b) = {}
    <3>1. ids = 1..0
      BY <2>1
    <3> QED BY <3>1
  <2>2. CASE NotedOf(b) # {}
    <3>1. ids \subseteq Nat /\ IsFiniteSet(ids) /\ ids # {}
      <4>1. ids \subseteq Nat /\ ids # {}
        BY <1>3, <2>2 DEF Notes
      <4>2. IsFiniteSet(ids)
        <5> DEFINE g == [i \in NotedOf(b) |-> b[i].note.id]
        <5>1. g \in Surjection(NotedOf(b), ids)
          BY DEF Surjection
        <5> HIDE DEF g, ids
        <5> QED BY <1>3, <5>1, FS_Surjection
      <4> QED BY <4>1, <4>2
    <3> HIDE DEF ids
    <3>2. PICK n \in ids : \A k \in ids : k <= n
      BY <3>1, GreatestOf
    <3>3. \A k \in ids : k \in 1..n
      <4>1. \A k \in ids : k >= 1
        BY DEF ids, BranchOk, NotesAreNumbered
      <4> QED BY <3>1, <3>2, <4>1
    <3>4. \A k \in 1..n : k \in ids
      <4>1. PICK i \in NotedOf(b) : b[i].note.id = n
        BY DEF ids
      <4>2. \A k \in 1..n : \E j \in NotedOf(b) : b[j].note.id = k
        BY <4>1 DEF BranchOk, NotesAreNumbered
      <4> QED BY <4>2 DEF ids
    <3> QED BY <3>1, <3>2, <3>3, <3>4
  <2> QED BY <2>1, <2>2
<1>9. PICK n \in Nat : ids = 1..n
  BY <1>8
<1> DEFINE f == [x \in notes |-> x.id]
<1>10. f \in Injection(notes, 1..n)
  <2>1. f \in [notes -> 1..n]
    BY <1>6, <1>9
  <2>2. \A x, y \in notes : f[x] = f[y] => x = y
    BY <1>5
  <2> QED BY <2>1, <2>2 DEF Injection, IsInjective
<1>11. f \in Surjection(notes, 1..n)
  BY <1>6, <1>7, <1>9 DEF Surjection
<1>12. IsFiniteSet(1..n) /\ Cardinality(1..n) = n
  BY FS_Interval
<1>13. IsFiniteSet(notes) /\ Cardinality(notes) = n
  BY <1>10, <1>11, <1>12, FS_Injection
<1>14. \A k \in 1..n : \E i \in NotedOf(b) : b[i].note.id = k
  BY <1>9
<1> QED BY <1>4, <1>5, <1>6, <1>9, <1>13, <1>14

(* A note that has the next number, or one of those before it.             *)
LEMMA NoteAppended ==
  ASSUME NEW m, NEW b, BranchOk(m, b), NEW x \in Notes,
         x.id \in 1..Cardinality(C!ReconstructAnnotations(b)) + 1
  PROVE  /\ NotesAreNumbered(Append(b, C!NoteEntry(x)))
         /\ C!ReconstructAnnotations(Append(b, C!NoteEntry(x))) =
               {y \in C!ReconstructAnnotations(b) : y.id # x.id} \cup {x}
<1> DEFINE e == C!NoteEntry(x)
           c == Append(b, e)
           n == Len(b) + 1
           lastOf(d) == {j \in NotedOf(d) : \A k \in NotedOf(d) : k > j => d[k].note.id # d[j].note.id}
<1>1. e \in ContextEntries /\ e.type = "annotation" /\ e.note = x
  BY DEF C!NoteEntry, ContextEntries, NoteEntries
<1>2. b \in Seq(ContextEntries)
  BY DEF BranchOk
<1> HIDE DEF e
<1>3. NotedOf(c) = NotedOf(b) \cup {n} /\ c[n].note = x /\ n \in Nat
  <2>1. C!OfType(c, "annotation") = C!OfType(b, "annotation") \cup (IF e.type = "annotation" THEN {n} ELSE {})
    BY <1>1, <1>2, OneMore
  <2>2. c[n] = e /\ n \in Nat
    BY <1>1, <1>2, OneMore, EntriesOf
  <2> QED BY <1>1, <2>1, <2>2 DEF NotedOf
<1>4. \A i \in NotedOf(b) : i \in Nat /\ i < n /\ c[i] = b[i]
  <2>1. \A i \in NotedOf(b) : i \in 1..Len(b) /\ Len(b) \in Nat
    BY <1>2, EntriesOf DEF NotedOf
  <2>2. \A i \in 1..Len(b) : c[i] = b[i]
    BY <1>1, <1>2, OneMore
  <2> QED BY <2>1, <2>2
<1> HIDE DEF c, n
<1>5. \A k \in 1..Cardinality(C!ReconstructAnnotations(b)) : \E i \in NotedOf(b) : b[i].note.id = k
  BY NotesAre
<1>6. NotesAreNumbered(c)
  <2>1. ASSUME NEW k \in 1..x.id PROVE \E j \in NotedOf(c) : j <= n /\ c[j].note.id = k
    <3>1. CASE k = x.id
      BY <1>3, <3>1
    <3>2. CASE k # x.id
      <4>1. k \in 1..Cardinality(C!ReconstructAnnotations(b))
        <5>1. Cardinality(C!ReconstructAnnotations(b)) \in Nat
          BY NotesAre
        <5> QED BY <3>2, <5>1
      <4>2. PICK i \in NotedOf(b) : b[i].note.id = k
        BY <1>5, <4>1
      <4>3. i \in NotedOf(c) /\ i <= n /\ c[i].note.id = k
        BY <1>3, <1>4, <4>2
      <4> QED BY <4>3
    <3> QED BY <3>1, <3>2
  <2>2. ASSUME NEW i \in NotedOf(b)
        PROVE  /\ c[i].note.id >= 1
               /\ \A k \in 1..c[i].note.id : \E j \in NotedOf(c) : j <= i /\ c[j].note.id = k
    <3>1. /\ b[i].note.id >= 1
          /\ \A k \in 1..b[i].note.id : \E j \in NotedOf(b) : j <= i /\ b[j].note.id = k
      BY DEF BranchOk, NotesAreNumbered
    <3> QED BY <1>3, <1>4, <3>1
  <2>3. x.id >= 1
    BY DEF Notes
  <2> QED BY <1>3, <2>1, <2>2, <2>3 DEF NotesAreNumbered
<1>7. lastOf(c) = {j \in lastOf(b) : b[j].note.id # x.id} \cup {n}
  <2>1. n \in lastOf(c)
    <3>1. \A k \in NotedOf(c) : ~(k > n)
      BY <1>3, <1>4
    <3> QED BY <1>3, <3>1
  <2>2. ASSUME NEW j \in NotedOf(b)
        PROVE  j \in lastOf(c) <=> j \in lastOf(b) /\ b[j].note.id # x.id
    <3>1. j \in NotedOf(c) /\ n > j
      BY <1>3, <1>4
    <3>2. c[j] = b[j] /\ \A k \in NotedOf(b) : c[k] = b[k]
      BY <1>4
    <3>3. (\A k \in NotedOf(c) : k > j => c[k].note.id # c[j].note.id)
             <=> /\ \A k \in NotedOf(b) : k > j => b[k].note.id # b[j].note.id
                 /\ x.id # b[j].note.id
      BY <1>3, <3>1, <3>2
    <3> QED BY <3>1, <3>3
  <2>3. n \notin NotedOf(b)
    BY <1>4
  <2> QED BY <1>3, <2>1, <2>2, <2>3
<1>8. /\ C!ReconstructAnnotations(b) = {b[i].note : i \in lastOf(b)}
      /\ C!ReconstructAnnotations(c) = {c[i].note : i \in lastOf(c)}
  BY DEF C!ReconstructAnnotations, NotedOf
<1>9. \A i \in lastOf(b) : c[i].note = b[i].note
  BY <1>4
<1> HIDE DEF lastOf
<1>10. C!ReconstructAnnotations(c) = {y \in C!ReconstructAnnotations(b) : y.id # x.id} \cup {x}
  BY <1>3, <1>7, <1>8, <1>9
<1> QED BY <1>6, <1>10 DEF c, e

(* An entry that is no note leaves the notes as they were.                 *)
LEMMA OtherNotes ==
  ASSUME NEW m, NEW b, BranchOk(m, b), NEW e \in ContextEntries, e.type # "annotation"
  PROVE  /\ NotesAreNumbered(Append(b, e))
         /\ C!ReconstructAnnotations(Append(b, e)) = C!ReconstructAnnotations(b)
<1> DEFINE c == Append(b, e)
<1>1. b \in Seq(ContextEntries)
  BY DEF BranchOk
<1>2. NotedOf(c) = NotedOf(b)
  <2>1. C!OfType(c, "annotation") = C!OfType(b, "annotation") \cup (IF e.type = "annotation" THEN {Len(b) + 1} ELSE {})
    BY <1>1, OneMore
  <2> QED BY <2>1 DEF NotedOf
<1>3. \A i \in NotedOf(b) : c[i] = b[i]
  BY <1>1, OneMore, EntriesOf DEF NotedOf
<1> HIDE DEF c
<1>4. NotesAreNumbered(c)
  BY <1>2, <1>3 DEF NotesAreNumbered, BranchOk
<1> DEFINE lastOf(d) == {j \in NotedOf(d) : \A k \in NotedOf(d) : k > j => d[k].note.id # d[j].note.id}
<1>5. lastOf(c) = lastOf(b) /\ \A i \in lastOf(b) : c[i].note = b[i].note
  BY <1>2, <1>3
<1>6. /\ C!ReconstructAnnotations(b) = {b[i].note : i \in lastOf(b)}
      /\ C!ReconstructAnnotations(c) = {c[i].note : i \in lastOf(c)}
  BY DEF C!ReconstructAnnotations, NotedOf
<1> HIDE DEF lastOf
<1> QED BY <1>4, <1>5, <1>6 DEF c

-----------------------------------------------------------------------------
(* The settings on the branch.                                             *)

ContextSettings == {"auto", "on", "off"}

LEMMA SettingsAre ==
  ASSUME NEW b \in Seq(ContextEntries), NEW e \in ContextEntries
  PROVE  /\ C!RestoredSettings(b) \in ContextSettings
         /\ e.type # "settings" => C!RestoredSettings(Append(b, e)) = C!RestoredSettings(b)
         /\ e.type = "settings" =>
               C!RestoredSettings(Append(b, e)) = IF mode = "clm" THEN e.value ELSE "auto"
<1> DEFINE S == C!OfType(b, "settings")
           c == Append(b, e)
           n == Len(b) + 1
<1>1. S \subseteq Nat /\ IsFiniteSet(S) /\ \A i \in S : i \in 1..Len(b) /\ b[i].type = "settings"
  BY EntriesOf
<1>2. S # {} => C!Latest(S) \in S
  BY <1>1, LatestIs
<1>3. \A d \in ContextEntries : d.type = "settings" => d.value \in ContextSettings
  BY DEF ContextEntries, MessageEntries, StateEntries, SettingsEntries, NoteEntries, ContextSettings
<1>4. \A i \in S : b[i].value \in ContextSettings
  BY <1>1, <1>3, EntriesOf
<1>5. C!RestoredSettings(b) \in ContextSettings
  BY <1>2, <1>4 DEF C!RestoredSettings, ContextSettings
<1>6. C!OfType(c, "settings") = S \cup (IF e.type = "settings" THEN {n} ELSE {})
  BY OneMore
<1>7. (\A i \in 1..Len(b) : c[i] = b[i]) /\ c[n] = e /\ n \in Nat /\ \A i \in S : i <= n
  BY <1>1, OneMore, EntriesOf
<1> HIDE DEF S, c, n
<1>8. ASSUME e.type # "settings" PROVE C!RestoredSettings(c) = C!RestoredSettings(b)
  <2>1. C!OfType(c, "settings") = S
    BY <1>6, <1>8
  <2>2. S # {} => c[C!Latest(S)] = b[C!Latest(S)]
    BY <1>1, <1>2, <1>7
  <2> QED BY <2>1, <2>2 DEF C!RestoredSettings, S
<1>9. ASSUME e.type = "settings" PROVE C!RestoredSettings(c) = IF mode = "clm" THEN e.value ELSE "auto"
  <2>1. C!OfType(c, "settings") = S \cup {n}
    BY <1>6, <1>9
  <2>2. C!Latest(S \cup {n}) = n
    <3>1. S \cup {n} \subseteq Nat /\ IsFiniteSet(S \cup {n}) /\ n \in S \cup {n}
      BY <1>1, <1>7, FS_AddElement
    <3>2. \A i \in S \cup {n} : i <= n
      BY <1>7
    <3> QED BY <3>1, <3>2, LatestIs
  <2> QED BY <1>7, <2>1, <2>2 DEF C!RestoredSettings
<1> QED BY <1>5, <1>8, <1>9 DEF c

-----------------------------------------------------------------------------
(* What else becomes of a branch.                                          *)

(* An entry that is no state.                                              *)
LEMMA ContextEntryAppended ==
  ASSUME NEW m, NEW b, BranchOk(m, b), NEW e \in ContextEntries, e.type \notin {"state", "annotation"}
  PROVE  /\ BranchOk(m, Append(b, e))
         /\ C!ReconstructState(Append(b, e)) = C!ReconstructState(b)
         /\ C!ReconstructHistory(Append(b, e)) = C!ReconstructHistory(b)
         /\ C!ReconstructAnnotations(Append(b, e)) = C!ReconstructAnnotations(b)
<1>1. Append(b, e) \in Seq(ContextEntries)
  BY OneMore DEF BranchOk
<1>2. /\ StatesAreSound(m, Append(b, e)) /\ RevisionsGrow(Append(b, e))
      /\ C!ReconstructState(Append(b, e)) = C!ReconstructState(b)
      /\ C!ReconstructHistory(Append(b, e)) = C!ReconstructHistory(b)
  BY OtherEntry
<1>3. /\ NotesAreNumbered(Append(b, e))
      /\ C!ReconstructAnnotations(Append(b, e)) = C!ReconstructAnnotations(b)
  BY OtherNotes
<1> QED BY <1>1, <1>2, <1>3 DEF BranchOk

(* A note.                                                                 *)
LEMMA NoteIsAnEntry ==
  ASSUME NEW m, NEW b, BranchOk(m, b), NEW x \in Notes,
         x.id \in 1..Cardinality(C!ReconstructAnnotations(b)) + 1
  PROVE  /\ BranchOk(m, Append(b, C!NoteEntry(x)))
         /\ C!ReconstructState(Append(b, C!NoteEntry(x))) = C!ReconstructState(b)
         /\ C!ReconstructHistory(Append(b, C!NoteEntry(x))) = C!ReconstructHistory(b)
         /\ C!RestoredSettings(Append(b, C!NoteEntry(x))) = C!RestoredSettings(b)
         /\ C!ReconstructAnnotations(Append(b, C!NoteEntry(x))) =
               {y \in C!ReconstructAnnotations(b) : y.id # x.id} \cup {x}
<1>1. C!NoteEntry(x) \in ContextEntries /\ C!NoteEntry(x).type = "annotation"
  BY DEF C!NoteEntry, ContextEntries, NoteEntries
<1>2. b \in Seq(ContextEntries)
  BY DEF BranchOk
<1>3. Append(b, C!NoteEntry(x)) \in Seq(ContextEntries)
  BY <1>1, <1>2, OneMore
<1>4. /\ StatesAreSound(m, Append(b, C!NoteEntry(x))) /\ RevisionsGrow(Append(b, C!NoteEntry(x)))
      /\ C!ReconstructState(Append(b, C!NoteEntry(x))) = C!ReconstructState(b)
      /\ C!ReconstructHistory(Append(b, C!NoteEntry(x))) = C!ReconstructHistory(b)
  BY <1>1, OtherEntry
<1>5. C!RestoredSettings(Append(b, C!NoteEntry(x))) = C!RestoredSettings(b)
  BY <1>1, <1>2, SettingsAre
<1>6. /\ NotesAreNumbered(Append(b, C!NoteEntry(x)))
      /\ C!ReconstructAnnotations(Append(b, C!NoteEntry(x))) =
            {y \in C!ReconstructAnnotations(b) : y.id # x.id} \cup {x}
  BY NoteAppended
<1> QED BY <1>3, <1>4, <1>5, <1>6 DEF BranchOk

(* A state is no note and no setting.                                      *)
LEMMA StateIsNoNote ==
  ASSUME NEW m, NEW b, BranchOk(m, b), NEW s \in ContextStates
  PROVE  /\ C!ReconstructAnnotations(Append(b, C!StateEntry(s))) = C!ReconstructAnnotations(b)
         /\ C!RestoredSettings(Append(b, C!StateEntry(s))) = C!RestoredSettings(b)
<1>1. C!StateEntry(s) \in ContextEntries /\ C!StateEntry(s).type = "state"
  BY DEF C!StateEntry, ContextEntries, StateEntries
<1> QED BY <1>1, OtherNotes, SettingsAre DEF BranchOk

(* An earlier entry of the branch.                                         *)
LEMMA PrefixIsABranch ==
  ASSUME NEW m, NEW b, BranchOk(m, b), NEW n \in 0..Len(b)
  PROVE  BranchOk(m, SubSeq(b, 1, n))
<1> DEFINE d == SubSeq(b, 1, n)
<1>1. b \in Seq(ContextEntries) /\ Len(b) \in Nat
  BY LenProperties DEF BranchOk
<1>2. d \in Seq(ContextEntries) /\ Len(d) = n /\ \A i \in 1..n : d[i] = b[i]
  <2>1. 1 \in Int /\ n \in Int /\ \A i \in 1..n : b[i] \in ContextEntries
    BY <1>1, EntriesOf
  <2>2. /\ d \in Seq(ContextEntries) /\ Len(d) = IF 1 <= n THEN n - 1 + 1 ELSE 0
        /\ \A i \in 1..n - 1 + 1 : d[i] = b[1 + i - 1]
    BY <2>1, SubSeqProperties
  <2> QED BY <1>1, <2>2
<1> HIDE DEF d
<1>3. \A t : C!OfType(d, t) = {i \in C!OfType(b, t) : i \in 1..n}
  <2>1. DOMAIN d = 1..n /\ DOMAIN b = 1..Len(b) /\ \A i \in 1..n : i \in 1..Len(b)
    BY <1>1, <1>2, LenProperties
  <2> QED BY <1>2, <2>1 DEF C!OfType
<1>4. /\ StatesOf(d) = {i \in StatesOf(b) : i \in 1..n}
      /\ NotedOf(d) = {i \in NotedOf(b) : i \in 1..n}
  BY <1>3 DEF StatesOf, NotedOf
<1>5. FullOf(d) = {i \in FullOf(b) : i \in 1..n}
  BY <1>2, <1>4 DEF FullOf
<1>6. StatesAreSound(m, d)
  BY <1>2, <1>5 DEF StatesAreSound, BranchOk
<1>7. RevisionsGrow(d)
  BY <1>2, <1>4 DEF RevisionsGrow, BranchOk
<1>8. NotesAreNumbered(d)
  <2> SUFFICES ASSUME NEW i \in NotedOf(d)
               PROVE  /\ d[i].note.id >= 1
                      /\ \A k \in 1..d[i].note.id : \E j \in NotedOf(d) : j <= i /\ d[j].note.id = k
    BY DEF NotesAreNumbered
  <2>1. i \in NotedOf(b) /\ i \in 1..n /\ d[i] = b[i]
    BY <1>2, <1>4
  <2>2. /\ b[i].note.id >= 1
        /\ \A k \in 1..b[i].note.id : \E j \in NotedOf(b) : j <= i /\ b[j].note.id = k
    BY <2>1 DEF BranchOk, NotesAreNumbered
  <2>3. ASSUME NEW j \in NotedOf(b), j <= i PROVE j \in NotedOf(d) /\ d[j] = b[j]
    <3>1. j \in 1..Len(b)
      BY <1>1, EntriesOf DEF NotedOf
    <3>2. j \in 1..n
      BY <2>1, <2>3, <3>1
    <3> QED BY <1>2, <1>4, <3>2
  <2> QED BY <2>1, <2>2, <2>3
<1> QED BY <1>2, <1>6, <1>7, <1>8 DEF BranchOk, d

(* What Pi rebuilds of a branch are messages.                              *)
LEMMA RebuiltIs ==
  ASSUME NEW b \in Seq(ContextEntries)
  PROVE  C!Rebuilt(b) \in Seq(Nat)
<1> DEFINE compactions == {i \in DOMAIN b : b[i].type = "message" /\ kind[b[i].message] = "summary"}
           from == IF compactions = {} THEN 1 ELSE CHOOSE i \in compactions : \A j \in compactions : j <= i
           said == {e \in C!Range(b) : e.type = "message"}
           part == SubSeq(b, from, Len(b))
           kept == C!Kept(part, said)
<1>1. DOMAIN b = 1..Len(b) /\ Len(b) \in Nat /\ \A i \in 1..Len(b) : b[i] \in ContextEntries
  BY EntriesOf
<1>2. from \in 1..Len(b) + 1
  <2>1. CASE compactions = {}
    BY <1>1, <2>1
  <2>2. CASE compactions # {}
    <3>1. compactions \in SUBSET (1..Len(b))
      BY <1>1
    <3> HIDE DEF compactions
    <3>2. compactions \in SUBSET Nat /\ IsFiniteSet(compactions)
      <4>1. IsFiniteSet(1..Len(b))
        BY <1>1, FS_Interval
      <4>2. IsFiniteSet(compactions)
        BY <3>1, <4>1, FS_Subset
      <4>3. \A i \in 1..Len(b) : i \in Nat
        BY <1>1
      <4> QED BY <3>1, <4>2, <4>3
    <3>3. \E i \in compactions : \A j \in compactions : j <= i
      BY <2>2, <3>2, GreatestOf
    <3>4. from \in compactions
      BY <2>2, <3>3
    <3> HIDE DEF from
    <3> QED BY <1>1, <3>1, <3>4
  <2> QED BY <2>1, <2>2
<1> HIDE DEF from
<1>3. part \in Seq(ContextEntries)
  <2>1. \A i \in from..Len(b) : b[i] \in ContextEntries
    BY <1>1, <1>2
  <2>2. from \in Int /\ Len(b) \in Int
    BY <1>1, <1>2
  <2> QED BY <1>1, <1>2, <2>1, <2>2, SubSeqProperties
<1> HIDE DEF part
<1>4. kept \in Seq(ContextEntries) /\ C!Range(kept) = C!Range(part) \cap said
  BY <1>3, KeptIs
<1> HIDE DEF kept
<1>5. DOMAIN kept = 1..Len(kept) /\ Len(kept) \in Nat
  BY <1>4, LenProperties
<1>6. \A i \in 1..Len(kept) : kept[i].message \in Nat
  <2>1. \A i \in 1..Len(kept) : kept[i] \in ContextEntries /\ kept[i] \in said
    BY <1>4, <1>5, ElementOfSeq DEF C!Range
  <2>2. \A e \in ContextEntries : e.type = "message" => e.message \in Nat
    BY DEF ContextEntries, MessageEntries, StateEntries, SettingsEntries, NoteEntries
  <2> QED BY <2>1, <2>2
<1>7. C!Rebuilt(b) = [i \in 1..Len(kept) |-> kept[i].message]
  BY <1>5 DEF C!Rebuilt, compactions, from, said, part, kept
<1> QED BY <1>5, <1>6, <1>7, SeqDef

-----------------------------------------------------------------------------
(* Messages and what is made of them.                                      *)

LEMMA RangeOf ==
  ASSUME NEW s \in Seq(Nat), NEW t \in Seq(Nat)
  PROVE  /\ C!Range(s) = {s[i] : i \in 1..Len(s)} /\ C!Range(s) \subseteq Nat
         /\ s \o t \in Seq(Nat) /\ C!Range(s \o t) = C!Range(s) \cup C!Range(t)
<1>1. DOMAIN s = 1..Len(s) /\ Len(s) \in Nat /\ \A i \in 1..Len(s) : s[i] \in Nat
  BY LenProperties, ElementOfSeq
<1>2. DOMAIN t = 1..Len(t) /\ Len(t) \in Nat
  BY LenProperties
<1>3. /\ s \o t \in Seq(Nat) /\ Len(s \o t) = Len(s) + Len(t)
      /\ \A i \in 1..Len(s) + Len(t) : (s \o t)[i] = IF i <= Len(s) THEN s[i] ELSE t[i - Len(s)]
  BY ConcatProperties
<1>4. DOMAIN (s \o t) = 1..Len(s) + Len(t)
  BY <1>3, LenProperties
<1>5. \A x \in C!Range(s \o t) : x \in C!Range(s) \cup C!Range(t)
  <2> SUFFICES ASSUME NEW i \in 1..Len(s) + Len(t) PROVE (s \o t)[i] \in C!Range(s) \cup C!Range(t)
    BY <1>4 DEF C!Range
  <2>1. CASE i <= Len(s)
    <3>1. i \in 1..Len(s)
      BY <1>1, <1>2, <2>1
    <3>2. (s \o t)[i] = s[i]
      BY <1>3, <2>1
    <3> QED BY <1>1, <3>1, <3>2 DEF C!Range
  <2>2. CASE ~(i <= Len(s))
    <3>1. i - Len(s) \in 1..Len(t)
      BY <1>1, <1>2, <2>2
    <3> QED BY <1>2, <1>3, <2>2, <3>1 DEF C!Range
  <2> QED BY <2>1, <2>2
<1>6. \A x \in C!Range(s) : x \in C!Range(s \o t)
  <2> SUFFICES ASSUME NEW i \in 1..Len(s) PROVE s[i] \in C!Range(s \o t)
    BY <1>1 DEF C!Range
  <2>1. i \in 1..Len(s) + Len(t) /\ (s \o t)[i] = s[i]
    BY <1>1, <1>2, <1>3
  <2> QED BY <1>4, <2>1 DEF C!Range
<1>7. \A x \in C!Range(t) : x \in C!Range(s \o t)
  <2> SUFFICES ASSUME NEW i \in 1..Len(t) PROVE t[i] \in C!Range(s \o t)
    BY <1>2 DEF C!Range
  <2>1. i + Len(s) \in 1..Len(s) + Len(t) /\ ~(i + Len(s) <= Len(s)) /\ (i + Len(s)) - Len(s) = i
    BY <1>1, <1>2
  <2>2. (s \o t)[i + Len(s)] = t[i]
    BY <1>3, <2>1
  <2> QED BY <1>4, <2>1, <2>2 DEF C!Range
<1> QED BY <1>1, <1>3, <1>5, <1>6, <1>7 DEF C!Range

LEMMA RestIs ==
  ASSUME NEW s \in Seq(Nat), NEW k \in 0..Len(s)
  PROVE  /\ C!Rest(s, k) \in Seq(Nat)
         /\ C!Range(C!Rest(s, k)) = {s[i] : i \in k + 1 .. Len(s)}
<1>1. Len(s) \in Nat /\ \A i \in 1..Len(s) : s[i] \in Nat
  BY LenProperties, ElementOfSeq
<1>2. k + 1 \in Int /\ Len(s) \in Int /\ k \in Nat /\ \A i \in k + 1 .. Len(s) : s[i] \in Nat
  BY <1>1
<1> DEFINE r == SubSeq(s, k + 1, Len(s))
<1>3. /\ r \in Seq(Nat) /\ Len(r) = IF k + 1 <= Len(s) THEN Len(s) - (k + 1) + 1 ELSE 0
      /\ \A i \in 1..Len(s) - (k + 1) + 1 : r[i] = s[(k + 1) + i - 1]
  BY <1>2, SubSeqProperties
<1> HIDE DEF r
<1>4. Len(r) = Len(s) - k /\ \A i \in 1..Len(s) - k : r[i] = s[k + i]
  BY <1>1, <1>2, <1>3
<1>5. DOMAIN r = 1..Len(s) - k
  BY <1>3, <1>4, LenProperties
<1>6. \A i \in 1..Len(s) - k : k + i \in k + 1 .. Len(s)
  BY <1>1, <1>2
<1>7. \A i \in k + 1 .. Len(s) : i - k \in 1..Len(s) - k /\ k + (i - k) = i
  BY <1>1, <1>2
<1>8. C!Range(r) = {s[i] : i \in k + 1 .. Len(s)}
  <2>1. \A x \in C!Range(r) : x \in {s[i] : i \in k + 1 .. Len(s)}
    BY <1>4, <1>5, <1>6 DEF C!Range
  <2>2. ASSUME NEW i \in k + 1 .. Len(s) PROVE s[i] \in C!Range(r)
    <3>1. r[i - k] = s[i] /\ i - k \in 1..Len(s) - k
      BY <1>4, <1>7
    <3> QED BY <1>5, <3>1 DEF C!Range
  <2> QED BY <2>1, <2>2
<1> QED BY <1>3, <1>8 DEF C!Rest, r

(* What a checkpoint is made of comes first in what it is a prefix of.     *)
LEMMA PrefixIs ==
  ASSUME NEW s \in Seq(Nat), NEW c, c.source \in Seq(Nat), C!Prefix(c, s)
  PROVE  /\ Len(c.source) \in 0..Len(s)
         /\ C!Range(c.source) = {s[i] : i \in 1..Len(c.source)}
         /\ C!Range(c.source) \subseteq C!Range(s)
         /\ C!Range(s) = C!Range(c.source) \cup C!Range(C!Rest(s, Len(c.source)))
<1> DEFINE n == Len(c.source)
<1>1. n <= Len(s) /\ SubSeq(s, 1, n) = c.source
  BY DEF C!Prefix
<1>2. Len(s) \in Nat /\ n \in Nat /\ \A i \in 1..Len(s) : s[i] \in Nat
  BY LenProperties, ElementOfSeq
<1>3. n \in 0..Len(s)
  BY <1>1, <1>2
<1> HIDE DEF n
<1>4. \A i \in 1..n : c.source[i] = s[i]
  <2>1. 1 \in Int /\ n \in Int /\ \A i \in 1..n : s[i] \in Nat
    BY <1>2, <1>3
  <2>2. \A i \in 1..n - 1 + 1 : SubSeq(s, 1, n)[i] = s[1 + i - 1]
    BY <2>1, SubSeqProperties
  <2> QED BY <1>1, <1>2, <2>2
<1>5. C!Range(c.source) = {s[i] : i \in 1..n}
  BY <1>4, LenProperties DEF C!Range, n
<1>6. C!Range(s) = {s[i] : i \in 1..Len(s)}
  BY LenProperties DEF C!Range
<1>7. C!Range(C!Rest(s, n)) = {s[i] : i \in n + 1 .. Len(s)}
  BY <1>3, RestIs
<1>8. \A i : i \in 1..Len(s) <=> i \in 1..n \/ i \in n + 1 .. Len(s)
  BY <1>2, <1>3
<1>9. C!Range(s) = C!Range(c.source) \cup C!Range(C!Rest(s, n))
  BY <1>5, <1>6, <1>7, <1>8
<1> QED BY <1>3, <1>5, <1>9 DEF n

LEMMA WholeIsPrefix ==
  ASSUME NEW s \in Seq(Nat), NEW c, c.source = s
  PROVE  C!Prefix(c, s)
<1>1. SubSeq(s, 1, Len(s)) = s /\ Len(s) \in Nat
  BY SubSeqFull, LenProperties
<1> QED BY <1>1 DEF C!Prefix

LEMMA PrefixOfMore ==
  ASSUME NEW s \in Seq(Nat), NEW c, c.source = s, NEW x \in Nat
  PROVE  Append(s, x) \in Seq(Nat) /\ C!Prefix(c, Append(s, x))
<1> DEFINE t == Append(s, x)
<1>1. t \in Seq(Nat) /\ Len(t) = Len(s) + 1 /\ Len(s) \in Nat /\ \A i \in 1..Len(s) : t[i] = s[i]
  BY AppendProperties, LenProperties
<1> HIDE DEF t
<1>2. \A i \in 1..Len(s) : t[i] \in Nat
  BY <1>1, ElementOfSeq
<1>3. /\ SubSeq(t, 1, Len(s)) \in Seq(Nat)
      /\ Len(SubSeq(t, 1, Len(s))) = Len(s)
      /\ \A i \in 1..Len(s) : SubSeq(t, 1, Len(s))[i] = t[i]
  <2>1. /\ SubSeq(t, 1, Len(s)) \in Seq(Nat)
        /\ Len(SubSeq(t, 1, Len(s))) = IF 1 <= Len(s) THEN Len(s) - 1 + 1 ELSE 0
        /\ \A i \in 1..Len(s) - 1 + 1 : SubSeq(t, 1, Len(s))[i] = t[1 + i - 1]
    <3>1. 1 \in Int /\ Len(s) \in Int
      BY <1>1
    <3> QED BY <1>2, <3>1, SubSeqProperties
  <2> QED BY <1>1, <2>1
<1>4. SubSeq(t, 1, Len(s)) = s
  BY <1>1, <1>3, SeqEqual
<1> QED BY <1>1, <1>4 DEF C!Prefix, t

(* The messages before a cut are those of the checkpoint and failed ones.  *)
LEMMA CutIs ==
  ASSUME raw \in Seq(Nat), checkpointHistory \subseteq Checkpoints, NEW c \in Checkpoints,
         NEW k \in C!Cuts(c)
  PROVE  /\ k \in 1..Len(raw)
         /\ C!Range(c.source) \subseteq C!Range(raw)
         /\ \A i \in 1..k : raw[i] \in C!Range(c.source) \/ C!IsPersistedRetryError(raw[i])
<1> DEFINE stay == {m \in C!Range(raw) : ~C!IsPersistedRetryError(m)}
           anchors == {a.source : a \in {h \in checkpointHistory :
                         h.revision < c.revision /\ C!Prefix(h, raw)}} \cup {<<>>}
<1>1. PICK a \in anchors : a \o C!Kept(SubSeq(raw, Len(a) + 1, k), stay) = c.source
  BY DEF C!Cuts
<1>2. k \in Len(c.source) + 1 .. Len(raw)
  BY DEF C!Cuts
<1> HIDE DEF stay
<1>3. c.source \in Seq(Nat) /\ Len(c.source) \in Nat /\ Len(raw) \in Nat
      /\ \A i \in 1..Len(raw) : raw[i] \in Nat
  BY LenProperties, ElementOfSeq DEF Checkpoints
<1>4. k \in 1..Len(raw) /\ k \in Nat
  BY <1>2, <1>3
<1>5. /\ a \in Seq(Nat) /\ Len(a) \in 0..Len(raw)
      /\ C!Range(a) = {raw[i] : i \in 1..Len(a)}
  <2>1. CASE a = <<>>
    <3>1. a \in Seq(Nat) /\ Len(a) = 0 /\ DOMAIN a = 1..0
      BY <2>1, EmptySeq, LenProperties
    <3>2. C!Range(a) = {}
      BY <3>1 DEF C!Range
    <3> QED BY <1>3, <3>1, <3>2
  <2>2. CASE a # <<>>
    <3>1. PICK h \in checkpointHistory : a = h.source /\ C!Prefix(h, raw)
      BY <1>1, <2>2
    <3>2. h.source \in Seq(Nat)
      BY DEF Checkpoints
    <3> QED BY <3>1, <3>2, PrefixIs
  <2> QED BY <2>1, <2>2
<1> HIDE DEF anchors
<1> DEFINE part == SubSeq(raw, Len(a) + 1, k)
           kept == C!Kept(part, stay)
<1>6. /\ part \in Seq(Nat)
      /\ Len(part) = IF Len(a) + 1 <= k THEN k - (Len(a) + 1) + 1 ELSE 0
      /\ \A i \in 1..k - (Len(a) + 1) + 1 : part[i] = raw[(Len(a) + 1) + i - 1]
  <2>1. Len(a) + 1 \in Int /\ k \in Int /\ \A i \in Len(a) + 1 .. k : raw[i] \in Nat
    BY <1>3, <1>4, <1>5
  <2> QED BY <2>1, SubSeqProperties
<1> HIDE DEF part
<1>7. C!Range(part) = {raw[i] : i \in Len(a) + 1 .. k}
  <2>1. DOMAIN part = 1..Len(part)
    BY <1>6, LenProperties
  <2>2. Len(a) \in Nat
    BY <1>5
  <2>3. ASSUME NEW i \in 1..Len(part) PROVE Len(a) + i \in Len(a) + 1 .. k /\ part[i] = raw[Len(a) + i]
    BY <1>4, <1>6, <2>2
  <2>4. ASSUME NEW i \in Len(a) + 1 .. k
        PROVE  i - Len(a) \in 1..Len(part) /\ part[i - Len(a)] = raw[i]
    BY <1>4, <1>6, <2>2
  <2>5. \A x \in C!Range(part) : x \in {raw[i] : i \in Len(a) + 1 .. k}
    BY <2>1, <2>3 DEF C!Range
  <2>6. \A i \in Len(a) + 1 .. k : raw[i] \in C!Range(part)
    BY <2>1, <2>4 DEF C!Range
  <2> QED BY <2>5, <2>6
<1>8. kept \in Seq(Nat) /\ C!Range(kept) = C!Range(part) \cap stay
  BY <1>6, KeptIs
<1>9. C!Range(c.source) = C!Range(a) \cup (C!Range(part) \cap stay)
  <2>1. c.source = a \o kept
    BY <1>1 DEF part
  <2> HIDE DEF kept
  <2> QED BY <1>5, <1>8, <2>1, RangeOf
<1>10. C!Range(raw) = {raw[i] : i \in 1..Len(raw)}
  BY RangeOf
<1>11. C!Range(c.source) \subseteq C!Range(raw)
  BY <1>3, <1>4, <1>5, <1>7, <1>9, <1>10
<1>12. ASSUME NEW i \in 1..k PROVE raw[i] \in C!Range(c.source) \/ C!IsPersistedRetryError(raw[i])
  <2>1. i \in 1..Len(raw)
    BY <1>3, <1>4
  <2>2. i \in 1..Len(a) \/ i \in Len(a) + 1 .. k
    BY <1>4, <1>5
  <2>3. CASE i \in 1..Len(a)
    BY <1>5, <1>9, <2>3
  <2>4. CASE i \in Len(a) + 1 .. k
    <3>1. raw[i] \in C!Range(part) /\ raw[i] \in C!Range(raw)
      BY <1>7, <1>10, <2>1, <2>4
    <3>2. raw[i] \in stay \/ C!IsPersistedRetryError(raw[i])
      BY <3>1 DEF stay
    <3> QED BY <1>9, <3>1, <3>2
  <2> QED BY <2>2, <2>3, <2>4
<1> QED BY <1>4, <1>11, <1>12

(* A recovered projection projects what there is now.                      *)
LEMMA RebasedIs ==
  ASSUME raw \in Seq(Nat), checkpointHistory \subseteq Checkpoints, live \in ContextStates,
         NEW c \in Checkpoints, SoundIn(mode, c), C!Recovers(c), NEW s, s = C!Rebased(c)
  PROVE  /\ s \in ContextStates /\ s.enabled = live.enabled /\ s.revision = live.revision + 1
         /\ s.checkpoint.revision = s.revision /\ s.checkpoint.source = raw
         /\ SoundIn(mode, s.checkpoint)
<1> DEFINE k == CHOOSE i \in C!Cuts(c) : \A j \in C!Cuts(c) : i <= j
           messages == c.projected \o C!Rest(raw, k)
           revision == live.revision + 1
           failed == {m \in C!Range(raw) : C!IsPersistedRetryError(m)}
           checkpoint == [revision |-> revision, source |-> raw, projected |-> messages,
                          dropped |-> c.dropped \cup failed]
<1>1. k \in C!Cuts(c)
  <2>1. C!Cuts(c) # {}
    BY DEF C!Recovers
  <2>2. C!Cuts(c) \in SUBSET Nat
    <3>1. \A i \in C!Cuts(c) : i \in 1..Len(raw)
      BY CutIs
    <3> QED BY <3>1
  <2>3. \E i \in C!Cuts(c) : \A j \in C!Cuts(c) : i <= j
    BY <2>1, <2>2, LeastOf
  <2> QED BY <2>3
<1> HIDE DEF k
<1>2. /\ k \in 1..Len(raw) /\ C!Range(c.source) \subseteq C!Range(raw)
      /\ \A i \in 1..k : raw[i] \in C!Range(c.source) \/ C!IsPersistedRetryError(raw[i])
  BY <1>1, CutIs
<1>3. /\ C!Rest(raw, k) \in Seq(Nat)
      /\ C!Range(C!Rest(raw, k)) = {raw[i] : i \in k + 1 .. Len(raw)}
  <2>1. k \in 0..Len(raw)
    BY <1>2
  <2> QED BY <2>1, RestIs
<1>4. /\ messages \in Seq(Nat)
      /\ C!Range(messages) = C!Range(c.projected) \cup C!Range(C!Rest(raw, k))
  <2>1. c.projected \in Seq(Nat)
    BY DEF Checkpoints
  <2> QED BY <1>3, <2>1, RangeOf
<1> HIDE DEF messages
<1>5. C!Range(raw) = {raw[i] : i \in 1..Len(raw)} /\ C!Range(raw) \subseteq Nat /\ Len(raw) \in Nat
  BY RangeOf, LenProperties
<1>6. C!Range(messages) \subseteq C!Range(raw)
  <2>1. C!Range(c.projected) \subseteq C!Range(c.source)
    BY DEF SoundIn
  <2>2. \A i \in k + 1 .. Len(raw) : i \in 1..Len(raw)
    BY <1>2, <1>5
  <2> QED BY <1>2, <1>3, <1>4, <1>5, <2>1, <2>2
<1>7. ASSUME mode = "conservative", NEW x \in C!Range(raw) \ C!Range(messages)
      PROVE  x \in c.dropped \cup failed
  <2>1. PICK i \in 1..Len(raw) : x = raw[i]
    BY <1>5
  <2>2. i \in 1..k
    <3>1. i \notin k + 1 .. Len(raw)
      BY <1>3, <1>4, <1>7, <2>1
    <3> QED BY <1>2, <1>5, <3>1
  <2>3. x \in C!Range(c.source) \/ C!IsPersistedRetryError(x)
    BY <1>2, <2>1, <2>2
  <2>4. CASE x \in C!Range(c.source)
    BY <1>4, <1>7, <2>4 DEF SoundIn
  <2>5. CASE C!IsPersistedRetryError(x)
    BY <2>5
  <2> QED BY <2>3, <2>4, <2>5
<1>8. failed \subseteq Nat /\ c.dropped \subseteq Nat /\ revision \in Nat
  BY <1>5 DEF Checkpoints, ContextStates
<1> HIDE DEF failed, revision
<1>9. checkpoint \in Checkpoints
  BY <1>4, <1>8 DEF Checkpoints
<1>10. SoundIn(mode, checkpoint)
  BY <1>6, <1>7 DEF SoundIn
<1>11. s = [live EXCEPT !.revision = revision, !.outcome = "applied", !.checkpoint = checkpoint]
  BY DEF C!Rebased, k, messages, revision, failed
<1>12. checkpoint.revision = revision /\ checkpoint.source = raw
  OBVIOUS
<1> HIDE DEF checkpoint
<1>13. /\ s \in ContextStates /\ s.enabled = live.enabled /\ s.revision = revision
       /\ s.checkpoint = checkpoint
  BY <1>8, <1>9, <1>11 DEF ContextStates
<1> QED BY <1>10, <1>12, <1>13 DEF revision

LEMMA TargetIs ==
  ASSUME checkpointHistory \subseteq Checkpoints, live.revision \in Nat,
         \A h \in checkpointHistory : h.revision <= live.revision,
         C!HistoricalTarget # Absent
  PROVE  C!HistoricalTarget \in checkpointHistory /\ C!Recovers(C!HistoricalTarget)
<1> DEFINE targets == {h \in checkpointHistory : C!Recovers(h)}
           revisions == {h.revision : h \in targets}
<1>1. targets # {} /\ C!HistoricalTarget = CHOOSE t \in targets : \A u \in targets : u.revision <= t.revision
  BY DEF C!HistoricalTarget
<1>2. revisions \in SUBSET Nat /\ \A r \in revisions : r <= live.revision
  BY DEF Checkpoints
<1>3. revisions # {}
  BY <1>1
<1> HIDE DEF revisions
<1>4. IsFiniteSet(revisions)
  BY <1>2, FS_BoundedSetOfNaturals
<1>5. PICK r \in revisions : \A q \in revisions : q <= r
  BY <1>2, <1>3, <1>4, GreatestOf
<1>6. PICK t \in targets : t.revision = r
  BY DEF revisions
<1>7. \A u \in targets : u.revision <= t.revision
  BY <1>5, <1>6 DEF revisions
<1>8. C!HistoricalTarget \in targets
  BY <1>1, <1>7
<1> QED BY <1>8

(* A state, if it has a projection, has a sound one of what there is.      *)
Projects(s, messages) ==
    s.checkpoint # Absent =>
        /\ s.checkpoint.revision = s.revision /\ SoundIn(mode, s.checkpoint)
        /\ C!Prefix(s.checkpoint, messages)

DroppedBy(s) == IF s.checkpoint = Absent THEN {} ELSE s.checkpoint.dropped

LEMMA ResetIs ==
  ASSUME NEW s \in ContextStates, NEW reason \in {"reset", "mismatch"}
  PROVE  /\ C!ResetProjectionState(s, reason) \in ContextStates
         /\ C!ResetProjectionState(s, reason).enabled = s.enabled
         /\ C!ResetProjectionState(s, reason).revision = s.revision + 1
         /\ C!ResetProjectionState(s, reason).checkpoint = Absent
<1> DEFINE r == s.revision + 1
           t == C!ResetProjectionState(s, reason)
<1>1. t = [s EXCEPT !.revision = r, !.checkpoint = Absent, !.outcome = reason]
  BY DEF C!ResetProjectionState
<1>2. r \in Nat
  BY DEF ContextStates
<1> HIDE DEF r, t
<1>3. t \in ContextStates
  BY <1>1, <1>2 DEF ContextStates
<1>4. t.enabled = s.enabled /\ t.revision = r /\ t.checkpoint = Absent
  BY <1>1 DEF ContextStates
<1> QED BY <1>3, <1>4 DEF r, t

(* What a request goes by: the live state, or a new one that fits.         *)
LEMMA NextStateIs ==
  ASSUME raw \in Seq(Nat), live \in ContextStates, checkpointHistory \subseteq Checkpoints,
         \A h \in checkpointHistory : SoundIn(mode, h) /\ h.revision <= live.revision,
         live.checkpoint # Absent =>
            live.checkpoint.revision = live.revision /\ SoundIn(mode, live.checkpoint),
         NEW s, s = C!NextState
  PROVE  /\ s \in ContextStates /\ s.enabled = live.enabled /\ Projects(s, raw)
         /\ s # live => s.revision = live.revision + 1
<1>1. live.revision \in Nat /\ live.checkpoint \in Checkpoints \cup {Absent}
  BY DEF ContextStates
<1>2. CASE live.checkpoint # Absent /\ C!Prefix(live.checkpoint, raw)
  <2>1. s = live
    BY <1>2 DEF C!NextState
  <2> QED BY <1>2, <2>1 DEF Projects
<1>3. CASE live.checkpoint # Absent /\ ~C!Prefix(live.checkpoint, raw) /\ C!Recovers(live.checkpoint)
  <2>1. s = C!Rebased(live.checkpoint)
    BY <1>3 DEF C!NextState
  <2>2. live.checkpoint \in Checkpoints /\ SoundIn(mode, live.checkpoint)
    BY <1>1, <1>3
  <2> QED BY <1>3, <2>1, <2>2, RebasedIs, WholeIsPrefix DEF Projects
<1>4. CASE live.checkpoint # Absent /\ ~C!Prefix(live.checkpoint, raw) /\ ~C!Recovers(live.checkpoint)
  <2>1. s = C!ResetProjectionState(live, "reset") \/ s = C!ResetProjectionState(live, "mismatch")
    BY <1>4 DEF C!NextState
  <2> QED BY <2>1, ResetIs DEF Projects
<1>5. CASE live.checkpoint = Absent /\ C!HistoricalTarget # Absent
  <2>1. s = C!Rebased(C!HistoricalTarget)
    BY <1>5 DEF C!NextState
  <2>2. C!HistoricalTarget \in checkpointHistory /\ C!Recovers(C!HistoricalTarget)
    BY <1>1, <1>5, TargetIs
  <2>3. C!HistoricalTarget \in Checkpoints /\ SoundIn(mode, C!HistoricalTarget)
    BY <2>2
  <2> QED BY <2>1, <2>2, <2>3, RebasedIs, WholeIsPrefix DEF Projects
<1>6. CASE live.checkpoint = Absent /\ C!HistoricalTarget = Absent
  <2>1. s = live
    BY <1>6 DEF C!NextState
  <2> QED BY <1>6, <2>1 DEF Projects
<1> QED BY <1>2, <1>3, <1>4, <1>5, <1>6

(* What is said of it is nothing foreign and misses nothing but what the   *)
(* model dropped.                                                          *)
LEMMA EffectiveIs ==
  ASSUME raw \in Seq(Nat), NEW s \in ContextStates, Projects(s, raw)
  PROVE  /\ C!Effective(s) \in Seq(Nat)
         /\ C!Range(C!Effective(s)) \subseteq C!Range(raw)
         /\ mode = "conservative" => C!Range(raw) \ C!Range(C!Effective(s)) \subseteq DroppedBy(s)
<1>1. CASE s.checkpoint = Absent
  <2>1. C!Effective(s) = raw
    BY <1>1 DEF C!Effective
  <2> QED BY <1>1, <2>1
<1>2. CASE s.checkpoint # Absent
  <2> DEFINE c == s.checkpoint
             rest == C!Rest(raw, Len(c.source))
  <2>1. c \in Checkpoints
    BY <1>2 DEF ContextStates
  <2>2. c.source \in Seq(Nat) /\ c.projected \in Seq(Nat) /\ C!Prefix(c, raw)
    BY <1>2, <2>1 DEF Checkpoints, Projects
  <2>3. /\ C!Range(c.projected) \subseteq C!Range(c.source)
        /\ mode = "conservative" => C!Range(c.source) \ C!Range(c.projected) \subseteq c.dropped
    BY <1>2 DEF Projects, SoundIn
  <2>4. C!Effective(s) = c.projected \o rest /\ DroppedBy(s) = c.dropped
    BY <1>2 DEF C!Effective, DroppedBy
  <2> HIDE DEF c
  <2>5. /\ Len(c.source) \in 0..Len(raw) /\ C!Range(c.source) \subseteq C!Range(raw)
        /\ C!Range(raw) = C!Range(c.source) \cup C!Range(rest)
    BY <2>2, PrefixIs
  <2>6. rest \in Seq(Nat)
    BY <2>5, RestIs
  <2> HIDE DEF rest
  <2>7. /\ c.projected \o rest \in Seq(Nat)
        /\ C!Range(c.projected \o rest) = C!Range(c.projected) \cup C!Range(rest)
    BY <2>2, <2>6, RangeOf
  <2> QED BY <2>3, <2>4, <2>5, <2>7
<1> QED BY <1>1, <1>2

-----------------------------------------------------------------------------
(* Documents and what an edit of them leaves.                              *)

ContextDocuments ==
    [revision : Nat, seed : Seq(Nat), form : {"headers", "headerless", "malformed"},
     shown : Seq(Nat), blocks : Seq(Nat)]

LEMMA AppliedIs ==
  ASSUME NEW d \in ContextDocuments, NEW t \in ContextDocuments, NEW messages,
         messages = C!ApplyContextDocument(d, t), messages # Absent
  PROVE  /\ messages \in Seq(Nat) /\ C!Range(messages) \subseteq C!Range(t.blocks)
         /\ mode = "conservative" => d.seed = t.seed
<1>1. t.blocks \in Seq(Nat)
  BY DEF ContextDocuments
<1>2. CASE d.form = "headerless" /\ mode = "clm"
  <2>1. messages = C!Kept(t.blocks, C!FirstUser(t.blocks))
    BY <1>2 DEF C!ApplyContextDocument
  <2> QED BY <1>1, <1>2, <2>1, KeptIs
<1>3. CASE ~(d.form = "headerless" /\ mode = "clm")
  <2> DEFINE protected == IF mode = "clm" THEN {} ELSE {t.blocks[i] : i \in C!ProtectedIndexes(t.blocks)}
             candidate == C!Kept(t.blocks, protected \cup C!Range(d.blocks))
  <2>1. messages = candidate /\ d.seed = t.seed
    BY <1>3 DEF C!ApplyContextDocument
  <2>2. candidate \in Seq(Nat) /\ C!Range(candidate) \subseteq C!Range(t.blocks)
    <3> HIDE DEF protected
    <3> QED BY <1>1, KeptIs
  <2> HIDE DEF candidate
  <2> QED BY <2>1, <2>2
<1> QED BY <1>2, <1>3

LEMMA RenderedIs ==
  ASSUME NEW s \in ContextStates, NEW messages \in Seq(Nat)
  PROVE  /\ C!Render(s, messages) \in ContextDocuments
         /\ C!Render(s, messages).blocks = messages /\ C!Render(s, messages).revision = s.revision
         /\ C!Render(s, messages).shown = messages
         /\ mode = "conservative" => C!Render(s, messages).seed = messages
<1>1. s.checkpoint # Absent => s.checkpoint \in Checkpoints
  BY DEF ContextStates
<1>2. C!Seed(s.checkpoint, messages) \in Seq(Nat)
  <2>1. s.checkpoint # Absent => s.checkpoint.source \in Seq(Nat)
    BY <1>1 DEF Checkpoints
  <2>2. <<>> \in Seq(Nat)
    BY EmptySeq
  <2> QED BY <2>1, <2>2 DEF C!Seed
<1>3. mode = "conservative" => C!Seed(s.checkpoint, messages) = messages
  BY DEF C!Seed
<1>4. s.revision \in Nat
  BY DEF ContextStates
<1> QED BY <1>2, <1>3, <1>4 DEF C!Render, ContextDocuments

-----------------------------------------------------------------------------
(* The invariant.                                                          *)

Baselines == [raw : Seq(Nat), doc : ContextDocuments]
Documented(m, base) ==
    /\ base \in Baselines /\ C!Range(base.doc.blocks) \subseteq C!Range(base.raw)
    /\ m = "conservative" => base.doc.seed = base.doc.blocks
Remembers(m, s, base) ==
    m = "conservative" => C!Range(base.raw) \ C!Range(base.doc.blocks) \subseteq DroppedBy(s)

(* What is live is what the branch says.                                   *)
RestoredIn(m, b) ==
    IF m # "clm" \/ C!OfType(b, "settings") = {} THEN "auto"
    ELSE b[C!Latest(C!OfType(b, "settings"))].value
BranchInv ==
    /\ BranchOk(mode, branch)
    /\ live = C!ReconstructState(branch) /\ checkpointHistory = C!ReconstructHistory(branch)
    /\ annotations = C!ReconstructAnnotations(branch) /\ settings = RestoredIn(mode, branch)

MessagesInv ==
    /\ raw \in Seq(Nat) /\ kind \in Seq({"user", "failed", "assistant", "summary"})
    /\ lifecycleEpoch \in Nat

(* The documents, and the request while it is answered.                    *)
DocumentsInv ==
    \A d \in {mirror, seen} : d # Absent =>
        d \in ContextDocuments /\ (mode = "conservative" => d.shown = d.seed)
RequestInv ==
    sent # Absent =>
        /\ turnPhase = "answering" /\ C!Range(sent.said) \subseteq C!Range(raw)
        /\ mode = "conservative" => C!Range(raw) \ C!Range(sent.said) \subseteq sent.dropped

(* What a turn is compared with is what was sent in it, and what is        *)
(* compared at its end is of this branch, unless the epoch has changed.    *)
BaselineInv ==
    turnBaseline # Absent =>
        /\ turnPhase = "answering" /\ live.enabled /\ mirrorStore # 0
        /\ Documented(mode, turnBaseline) /\ Remembers(mode, live, turnBaseline)
        /\ turnBaseline.raw = raw /\ turnBaseline.doc.revision = live.revision
EndInv ==
    end # Absent =>
        /\ Documented(mode, end.baseline) /\ end.epoch \in Nat /\ end.epoch <= lifecycleEpoch
        /\ end.epoch = lifecycleEpoch =>
              /\ turnPhase = "ending" /\ C!Prefix([source |-> end.baseline.raw], raw)
              /\ end.baseline.doc.revision = live.revision /\ Remembers(mode, live, end.baseline)

ContextInv ==
    BranchInv /\ MessagesInv /\ DocumentsInv /\ RequestInv /\ BaselineInv /\ EndInv

LEMMA InvOfContextMeans ==
  ContextInv => C!ResumeRestoresState /\ C!NothingForeignIsSent /\ C!NothingUnseenIsDropped
BY DEF ContextInv, BranchInv, RequestInv, RestoredIn, C!RestoredSettings, C!ResumeRestoresState,
       C!NothingForeignIsSent, C!NothingUnseenIsDropped

(* What the branch says of the live state.                                 *)
LEMMA LiveIs ==
  ASSUME BranchInv
  PROVE  /\ live \in ContextStates /\ live.revision \in Nat
         /\ live.checkpoint # Absent =>
               live.checkpoint.revision = live.revision /\ SoundIn(mode, live.checkpoint)
         /\ checkpointHistory \subseteq Checkpoints
         /\ \A h \in checkpointHistory : SoundIn(mode, h) /\ h.revision <= live.revision
         /\ DroppedBy(live) \subseteq Nat
<1>1. BranchOk(mode, branch) /\ live = C!ReconstructState(branch)
      /\ checkpointHistory = C!ReconstructHistory(branch)
  BY DEF BranchInv
<1>2. /\ live \in ContextStates
      /\ live.checkpoint # Absent =>
            live.checkpoint.revision = live.revision /\ SoundIn(mode, live.checkpoint)
  BY <1>1, RestoredIs
<1>3. \A h \in checkpointHistory :
         h \in Checkpoints /\ SoundIn(mode, h) /\ h.revision <= live.revision
  BY <1>1, HistoryIs
<1>4. live.revision \in Nat /\ DroppedBy(live) \subseteq Nat
  BY <1>2 DEF ContextStates, Checkpoints, DroppedBy
<1> QED BY <1>2, <1>3, <1>4

-----------------------------------------------------------------------------
(* Steps of the branch.                                                    *)

LEMMA BranchRests ==
  ASSUME BranchInv, UNCHANGED <<mode, branch, live, checkpointHistory, annotations, settings>>
  PROVE  BranchInv'
BY DEF BranchInv, BranchOk

LEMMA FullStep ==
  ASSUME BranchInv, NEW s \in ContextStates, s.revision = live.revision + 1,
         s.checkpoint # Absent => s.checkpoint.revision = s.revision /\ SoundIn(mode, s.checkpoint),
         C!PersistFull(s), UNCHANGED <<mode, annotations, settings>>
  PROVE  BranchInv'
<1> DEFINE b == Append(branch, C!StateEntry(s))
<1>1. /\ branch' = b /\ live' = s
      /\ checkpointHistory' = IF s.checkpoint = Absent THEN checkpointHistory
                              ELSE {h \in checkpointHistory : h.revision # s.revision} \cup {s.checkpoint}
  BY DEF C!PersistFull, C!Persist
<1>2. /\ BranchOk(mode, branch) /\ live = C!ReconstructState(branch)
      /\ checkpointHistory = C!ReconstructHistory(branch)
      /\ annotations = C!ReconstructAnnotations(branch) /\ settings = RestoredIn(mode, branch)
  BY DEF BranchInv
<1>3. /\ BranchOk(mode, b) /\ C!ReconstructState(b) = s
      /\ C!ReconstructHistory(b) = IF s.checkpoint = Absent THEN checkpointHistory
                                   ELSE {h \in checkpointHistory : h.revision # s.revision} \cup {s.checkpoint}
  BY <1>2, PersistedInFull
<1>4. C!ReconstructAnnotations(b) = annotations /\ RestoredIn(mode, b) = settings
  BY <1>2, StateIsNoNote DEF RestoredIn, C!RestoredSettings
<1> HIDE DEF b
<1> QED BY <1>1, <1>3, <1>4 DEF BranchInv

LEMMA SlimStep ==
  ASSUME BranchInv, NEW s \in ContextStates, s.revision = live.revision,
         s.checkpoint = live.checkpoint,
         C!PersistOutcome(s), UNCHANGED <<mode, annotations, settings>>
  PROVE  BranchInv'
<1> DEFINE t == C!ToOutcomeEntry(s)
           b == Append(branch, C!StateEntry(t))
<1>1. t \in ContextStates /\ t.checkpoint = Absent
  BY DEF C!ToOutcomeEntry, ContextStates
<1>2. branch' = b /\ live' = s /\ checkpointHistory' = checkpointHistory
  BY <1>1 DEF C!PersistOutcome, C!Persist
<1>3. /\ BranchOk(mode, branch) /\ live = C!ReconstructState(branch)
      /\ checkpointHistory = C!ReconstructHistory(branch)
      /\ annotations = C!ReconstructAnnotations(branch) /\ settings = RestoredIn(mode, branch)
  BY DEF BranchInv
<1>4. /\ BranchOk(mode, b) /\ C!ReconstructState(b) = s
      /\ C!ReconstructHistory(b) = checkpointHistory
  BY <1>3, PersistedSlim
<1> HIDE DEF t
<1>5. C!ReconstructAnnotations(b) = annotations /\ RestoredIn(mode, b) = settings
  BY <1>1, <1>3, StateIsNoNote DEF RestoredIn, C!RestoredSettings
<1> HIDE DEF b
<1> QED BY <1>2, <1>3, <1>4, <1>5 DEF BranchInv

LEMMA EntryStep ==
  ASSUME BranchInv, NEW e \in ContextEntries, e.type \in {"message", "settings"},
         branch' = Append(branch, e), UNCHANGED <<mode, live, checkpointHistory, annotations>>,
         e.type = "message" => settings' = settings,
         e.type = "settings" => mode = "clm" /\ settings' = e.value
  PROVE  BranchInv'
<1>1. /\ BranchOk(mode, branch) /\ live = C!ReconstructState(branch)
      /\ checkpointHistory = C!ReconstructHistory(branch)
      /\ annotations = C!ReconstructAnnotations(branch) /\ settings = RestoredIn(mode, branch)
  BY DEF BranchInv
<1>2. /\ BranchOk(mode, branch') /\ C!ReconstructState(branch') = live
      /\ C!ReconstructHistory(branch') = checkpointHistory
      /\ C!ReconstructAnnotations(branch') = annotations
  BY <1>1, ContextEntryAppended
<1>3. RestoredIn(mode, branch') = settings'
  <2>1. branch \in Seq(ContextEntries)
    BY <1>1 DEF BranchOk
  <2>2. /\ e.type # "settings" => C!RestoredSettings(branch) = C!RestoredSettings(Append(branch, e))
        /\ e.type = "settings" =>
              C!RestoredSettings(Append(branch, e)) = IF mode = "clm" THEN e.value ELSE "auto"
    BY <2>1, SettingsAre
  <2>3. \A b : C!RestoredSettings(b) = RestoredIn(mode, b)
    BY DEF C!RestoredSettings, RestoredIn
  <2> QED BY <1>1, <2>2, <2>3
<1> QED BY <1>2, <1>3 DEF BranchInv

LEMMA MessageStep ==
  ASSUME BranchInv, NEW x \in Nat, branch' = Append(branch, C!MessageEntry(x)),
         UNCHANGED <<mode, live, checkpointHistory, annotations, settings>>
  PROVE  BranchInv'
<1>1. C!MessageEntry(x) \in ContextEntries /\ C!MessageEntry(x).type = "message"
  BY DEF C!MessageEntry, ContextEntries, MessageEntries
<1> QED BY <1>1, EntryStep

LEMMA NoteStep ==
  ASSUME BranchInv, NEW x \in Notes, x.id \in 1..Cardinality(annotations) + 1,
         branch' = Append(branch, C!NoteEntry(x)),
         annotations' = {y \in annotations : y.id # x.id} \cup {x},
         UNCHANGED <<mode, live, checkpointHistory, settings>>
  PROVE  BranchInv'
<1>1. /\ BranchOk(mode, branch) /\ live = C!ReconstructState(branch)
      /\ checkpointHistory = C!ReconstructHistory(branch)
      /\ annotations = C!ReconstructAnnotations(branch) /\ settings = RestoredIn(mode, branch)
  BY DEF BranchInv
<1>2. /\ BranchOk(mode, branch') /\ C!ReconstructState(branch') = live
      /\ C!ReconstructHistory(branch') = checkpointHistory
      /\ C!RestoredSettings(branch') = C!RestoredSettings(branch)
      /\ C!ReconstructAnnotations(branch') = annotations'
  BY <1>1, NoteIsAnEntry
<1>3. \A b : C!RestoredSettings(b) = RestoredIn(mode, b)
  BY DEF C!RestoredSettings, RestoredIn
<1> QED BY <1>1, <1>2, <1>3 DEF BranchInv

LEMMA RestoreStep ==
  ASSUME NEW b, BranchOk(mode, b), C!Restore(b), branch' = b, mode' = mode
  PROVE  BranchInv'
<1>1. C!RestoredSettings(b) = RestoredIn(mode, b)
  BY DEF C!RestoredSettings, RestoredIn
<1> QED BY <1>1 DEF C!Restore, BranchInv

-----------------------------------------------------------------------------
(* What a step leaves alone stays true.                                    *)

LEMMA DocumentsRest ==
  ASSUME DocumentsInv, UNCHANGED <<mode, mirror, seen>> PROVE DocumentsInv'
BY DEF DocumentsInv

LEMMA RequestRests ==
  ASSUME RequestInv, UNCHANGED <<mode, sent, raw, turnPhase>> PROVE RequestInv'
BY DEF RequestInv

LEMMA BaselineRests ==
  ASSUME BaselineInv, UNCHANGED <<mode, turnBaseline, turnPhase, mirrorStore, raw, live>>
  PROVE  BaselineInv'
BY DEF BaselineInv

LEMMA EndRests ==
  ASSUME EndInv, UNCHANGED <<mode, end, lifecycleEpoch, turnPhase, raw, live>> PROVE EndInv'
BY DEF EndInv

(* Between two answers nothing is asked and nothing compared.              *)
LEMMA Quiet ==
  ASSUME ContextInv, turnPhase # "answering" PROVE sent = Absent /\ turnBaseline = Absent
BY DEF ContextInv, RequestInv, BaselineInv

LEMMA NothingSent ==
  ASSUME sent' = Absent, turnBaseline' = Absent PROVE RequestInv' /\ BaselineInv'
BY DEF RequestInv, BaselineInv

(* What waits for the end of another phase or epoch is discarded.          *)
LEMMA EndIsStale ==
  ASSUME ContextInv, turnPhase # "ending", UNCHANGED <<mode, end, lifecycleEpoch>>
  PROVE  EndInv'
BY DEF ContextInv, EndInv

LEMMA EndIsReplaced ==
  ASSUME ContextInv, C!Replaced, UNCHANGED <<mode, end>>
  PROVE  EndInv' /\ lifecycleEpoch' \in Nat
<1>1. lifecycleEpoch \in Nat /\ lifecycleEpoch' = lifecycleEpoch + 1
  BY DEF ContextInv, MessagesInv, C!Replaced
<1>2. EndInv
  BY DEF ContextInv
<1>3. lifecycleEpoch' \in Nat
  BY <1>1
<1>4. ASSUME end # Absent
      PROVE  end.epoch <= lifecycleEpoch' /\ end.epoch # lifecycleEpoch'
  <2>1. end.epoch \in Nat /\ end.epoch <= lifecycleEpoch
    BY <1>2, <1>4 DEF EndInv
  <2> QED BY <1>1, <2>1
<1>5. EndInv'
  BY <1>2, <1>3, <1>4 DEF EndInv
<1> QED BY <1>3, <1>5

Kinds == {"user", "failed", "assistant", "summary"}

LEMMA SaysIs ==
  ASSUME MessagesInv, NEW k \in Kinds, C!Says(k), lifecycleEpoch' \in Nat
  PROVE  /\ MessagesInv' /\ Len(kind') \in Nat
         /\ branch' = Append(branch, C!MessageEntry(Len(kind')))
         /\ raw' = raw \/ raw' = Append(raw, Len(kind'))
<1>1. kind \in Seq(Kinds) /\ raw \in Seq(Nat)
  BY DEF MessagesInv, Kinds
<1>2. /\ kind' = Append(kind, k) /\ branch' = Append(branch, C!MessageEntry(Len(kind')))
      /\ raw' = raw \/ raw' = Append(raw, Len(kind'))
  BY DEF C!Says
<1>3. kind' \in Seq(Kinds) /\ Len(kind') \in Nat
  BY <1>1, <1>2, AppendProperties, LenProperties
<1>4. Append(raw, Len(kind')) \in Seq(Nat)
  BY <1>1, <1>3, AppendProperties
<1>5. raw' \in Seq(Nat)
  BY <1>1, <1>2, <1>4
<1> QED BY <1>2, <1>3, <1>5 DEF MessagesInv, Kinds

-----------------------------------------------------------------------------
(* One lemma per action.                                                   *)

LEMMA UserMessageKeeps ==
  ASSUME ContextInv, C!UserMessage PROVE ContextInv'
<1>1. /\ C!Says("user") /\ turnPhase # "answering" /\ turnPhase # "ending"
      /\ UNCHANGED <<mode, live, checkpointHistory, settings, annotations, lifecycleEpoch,
                     turnBaseline, mirror, seen, end, sent>>
  BY DEF C!UserMessage, C!extension, C!document
<1>2. MessagesInv' /\ Len(kind') \in Nat /\ branch' = Append(branch, C!MessageEntry(Len(kind')))
  BY <1>1, SaysIs DEF ContextInv, MessagesInv, Kinds
<1>3. BranchInv'
  BY <1>1, <1>2, MessageStep DEF ContextInv
<1>4. DocumentsInv'
  BY <1>1, DocumentsRest DEF ContextInv
<1>5. RequestInv' /\ BaselineInv'
  BY <1>1, Quiet, NothingSent
<1>6. EndInv'
  BY <1>1, EndIsStale
<1> QED BY <1>2, <1>3, <1>4, <1>5, <1>6 DEF ContextInv

LEMMA ReadsMirrorKeeps ==
  ASSUME ContextInv, C!ReadsMirror PROVE ContextInv'
<1>1. /\ mirror # Absent /\ seen' = mirror
      /\ UNCHANGED <<mode, kind, branch, raw, turnPhase, live, checkpointHistory, settings,
                     annotations, lifecycleEpoch, mirrorStore, turnBaseline, mirror, end, sent>>
  BY DEF C!ReadsMirror, C!session, C!extension
<1>2. DocumentsInv'
  BY <1>1 DEF ContextInv, DocumentsInv
<1>3. MessagesInv'
  BY <1>1 DEF ContextInv, MessagesInv
<1> QED BY <1>1, <1>2, <1>3, BranchRests, RequestRests, BaselineRests, EndRests DEF ContextInv

LEMMA WritesMirrorKeeps ==
  ASSUME ContextInv, NEW d \in C!Documents, NEW form \in {"headers", "headerless", "malformed"},
         NEW blocks, C!WritesMirror(d, form, blocks)
  PROVE  ContextInv'
<1>1. /\ mirror' = [d EXCEPT !.form = form, !.blocks = C!Kept(@, blocks)]
      /\ UNCHANGED <<mode, kind, branch, raw, turnPhase, live, checkpointHistory, settings,
                     annotations, lifecycleEpoch, mirrorStore, turnBaseline, seen, end, sent>>
  BY DEF C!WritesMirror, C!session, C!extension
<1>2. d \in ContextDocuments /\ (mode = "conservative" => d.shown = d.seed)
  BY DEF C!Documents, ContextInv, DocumentsInv
<1>3. C!Kept(d.blocks, blocks) \in Seq(Nat)
  BY <1>2, KeptIs DEF ContextDocuments
<1>4. mirror' \in ContextDocuments /\ mirror'.shown = d.shown /\ mirror'.seed = d.seed
  BY <1>1, <1>2, <1>3 DEF ContextDocuments
<1>5. DocumentsInv'
  BY <1>1, <1>2, <1>4 DEF ContextInv, DocumentsInv
<1>6. MessagesInv'
  BY <1>1 DEF ContextInv, MessagesInv
<1> QED BY <1>1, <1>5, <1>6, BranchRests, RequestRests, BaselineRests, EndRests DEF ContextInv

LEMMA AnnotateKeeps ==
  ASSUME ContextInv, C!Annotate PROVE ContextInv'
<1> DEFINE note == [id |-> Cardinality(annotations) + 1, resolved |-> FALSE]
<1>1. BranchOk(mode, branch) /\ annotations = C!ReconstructAnnotations(branch)
  BY DEF ContextInv, BranchInv
<1>2. /\ branch' = Append(branch, C!NoteEntry(note)) /\ annotations' = annotations \cup {note}
      /\ UNCHANGED <<mode, kind, raw, turnPhase, live, checkpointHistory, settings,
                     lifecycleEpoch, mirrorStore, turnBaseline, mirror, seen, end, sent>>
  BY <1>1 DEF C!Annotate, C!document, C!Cardinality, Cardinality
<1>3. /\ Cardinality(annotations) \in Nat
      /\ \A x \in annotations : x.id \in 1..Cardinality(annotations)
  BY <1>1, NotesAre
<1>4. note \in Notes /\ note.id \in 1..Cardinality(annotations) + 1
  BY <1>3 DEF Notes
<1>5. annotations' = {y \in annotations : y.id # note.id} \cup {note}
  <2>1. \A x \in annotations : x.id # note.id
    BY <1>3
  <2> QED BY <1>2, <2>1
<1> HIDE DEF note
<1>6. BranchInv'
  BY <1>2, <1>4, <1>5, NoteStep DEF ContextInv
<1>7. MessagesInv'
  BY <1>2 DEF ContextInv, MessagesInv
<1> QED BY <1>2, <1>6, <1>7, DocumentsRest, RequestRests, BaselineRests, EndRests DEF ContextInv

LEMMA ResolveKeeps ==
  ASSUME ContextInv, NEW n \in annotations, C!Resolve(n) PROVE ContextInv'
<1> DEFINE note == [n EXCEPT !.resolved = TRUE]
<1>1. BranchOk(mode, branch) /\ annotations = C!ReconstructAnnotations(branch)
  BY DEF ContextInv, BranchInv
<1>2. /\ branch' = Append(branch, C!NoteEntry(note)) /\ annotations' = (annotations \ {n}) \cup {note}
      /\ UNCHANGED <<mode, kind, raw, turnPhase, live, checkpointHistory, settings,
                     lifecycleEpoch, mirrorStore, turnBaseline, mirror, seen, end, sent>>
  BY <1>1 DEF C!Resolve, C!document
<1>3. /\ annotations \subseteq Notes /\ Cardinality(annotations) \in Nat
      /\ \A x, y \in annotations : x.id = y.id => x = y
      /\ \A x \in annotations : x.id \in 1..Cardinality(annotations)
  BY <1>1, NotesAre
<1>4. note \in Notes /\ note.id = n.id
  BY <1>3 DEF Notes
<1>5. annotations' = {y \in annotations : y.id # note.id} \cup {note}
  BY <1>2, <1>3, <1>4
<1>6. note.id \in 1..Cardinality(annotations) + 1
  BY <1>3, <1>4
<1> HIDE DEF note
<1>7. BranchInv'
  BY <1>2, <1>4, <1>5, <1>6, NoteStep DEF ContextInv
<1>8. MessagesInv'
  BY <1>2 DEF ContextInv, MessagesInv
<1> QED BY <1>2, <1>7, <1>8, DocumentsRest, RequestRests, BaselineRests, EndRests DEF ContextInv

(* A request: as Pi had it, or by a state that fits and is persisted.      *)
LEMMA TurnHookKeeps ==
  ASSUME ContextInv, NEW saved, NEW written, C!Hook(saved, written) PROVE ContextInv'
<1> DEFINE s == C!NextState
           said == C!Effective(s)
           doc == C!Render(s, said)
<1>1. /\ turnPhase = "ready" /\ sent = Absent /\ turnBaseline = Absent
      /\ turnPhase' = "answering"
      /\ UNCHANGED <<mode, kind, raw, settings, annotations, lifecycleEpoch, mirrorStore, seen, end>>
  BY Quiet DEF C!Hook, C!Asks
<1>2. BranchInv /\ MessagesInv /\ raw \in Seq(Nat) /\ live \in ContextStates
  BY LiveIs DEF ContextInv, MessagesInv
<1>3. /\ s \in ContextStates /\ s.enabled = live.enabled /\ Projects(s, raw)
      /\ s # live => s.revision = live.revision + 1
  <2>1. /\ checkpointHistory \subseteq Checkpoints
        /\ \A h \in checkpointHistory : SoundIn(mode, h) /\ h.revision <= live.revision
        /\ live.checkpoint # Absent =>
              live.checkpoint.revision = live.revision /\ SoundIn(mode, live.checkpoint)
    BY <1>2, LiveIs
  <2> HIDE DEF s
  <2> QED BY <1>2, <2>1, NextStateIs DEF s
<1> HIDE DEF s
<1>4. /\ said \in Seq(Nat) /\ C!Range(said) \subseteq C!Range(raw)
      /\ mode = "conservative" => C!Range(raw) \ C!Range(said) \subseteq DroppedBy(s)
  BY <1>2, <1>3, EffectiveIs
<1> HIDE DEF said
<1>5. /\ doc \in ContextDocuments /\ doc.blocks = said /\ doc.revision = s.revision
      /\ doc.shown = said /\ (mode = "conservative" => doc.seed = said)
  BY <1>3, <1>4, RenderedIs
<1> HIDE DEF doc
<1>6. MessagesInv' /\ EndInv'
  <2>1. MessagesInv'
    BY <1>1, <1>2 DEF MessagesInv
  <2> QED BY <1>1, <2>1, EndIsStale
<1>7. CASE \/ ~live.enabled \/ mirrorStore = 0
           \/ s # live /\ ~saved
  <2>1. /\ sent' = [said |-> raw, dropped |-> {}] /\ turnBaseline' = Absent /\ mirror' = mirror
        /\ UNCHANGED <<branch, live, checkpointHistory>>
    BY <1>1, <1>7 DEF C!Hook, C!Asks, C!NotPersisted, s
  <2>2. BranchInv' /\ DocumentsInv'
    BY <1>1, <1>2, <2>1, BranchRests, DocumentsRest DEF ContextInv
  <2>3. RequestInv' /\ BaselineInv'
    BY <1>1, <2>1 DEF RequestInv, BaselineInv
  <2> QED BY <1>6, <2>2, <2>3 DEF ContextInv
<1>8. CASE live.enabled /\ mirrorStore # 0 /\ ~(s # live /\ ~saved)
  <2>1. /\ sent' = [said |-> said, dropped |-> DroppedBy(s)]
        /\ mirror' = (IF written THEN doc ELSE mirror)
        /\ turnBaseline' = (IF written THEN [raw |-> raw, doc |-> doc] ELSE Absent)
        /\ IF s = live THEN C!NotPersisted ELSE C!PersistFull(s)
    BY <1>1, <1>8 DEF C!Hook, C!Asks, DroppedBy, s, said, doc
  <2>2. BranchInv' /\ live' = s
    <3>1. CASE s = live
      BY <1>1, <1>2, <2>1, <3>1, BranchRests DEF C!NotPersisted
    <3>2. CASE s # live
      <4>1. C!PersistFull(s) /\ s.revision = live.revision + 1
        BY <1>3, <2>1, <3>2
      <4>2. s.checkpoint # Absent => s.checkpoint.revision = s.revision /\ SoundIn(mode, s.checkpoint)
        BY <1>3 DEF Projects
      <4>3. live' = s
        BY <4>1 DEF C!PersistFull, C!Persist
      <4> QED BY <1>1, <1>2, <1>3, <4>1, <4>2, <4>3, FullStep
    <3> QED BY <3>1, <3>2
  <2>3. DocumentsInv'
    BY <1>1, <1>5, <2>1 DEF ContextInv, DocumentsInv
  <2>4. RequestInv'
    BY <1>1, <1>4, <2>1 DEF RequestInv
  <2>5. BaselineInv'
    <3> SUFFICES ASSUME turnBaseline' # Absent PROVE BaselineInv'
      BY DEF BaselineInv
    <3>1. turnBaseline' = [raw |-> raw, doc |-> doc]
      BY <2>1
    <3>2. turnBaseline' \in Baselines /\ turnBaseline'.raw = raw /\ turnBaseline'.doc = doc
      BY <1>2, <1>5, <3>1 DEF Baselines
    <3>3. Documented(mode, turnBaseline')
      BY <1>4, <1>5, <3>2 DEF Documented
    <3>4. Remembers(mode, s, turnBaseline')
      BY <1>4, <1>5, <3>2 DEF Remembers
    <3> QED BY <1>1, <1>3, <1>5, <1>8, <2>2, <3>2, <3>3, <3>4 DEF BaselineInv
  <2> QED BY <1>6, <2>2, <2>3, <2>4, <2>5 DEF ContextInv
<1> QED BY <1>7, <1>8

LEMMA TurnAnswersKeeps ==
  ASSUME ContextInv, NEW k \in {"assistant", "failed"}, C!Answers(k) PROVE ContextInv'
<1>1. /\ turnPhase = "answering" /\ turnPhase' = "ending" /\ sent' = Absent /\ C!Says(k)
      /\ UNCHANGED <<mode, live, checkpointHistory, settings, annotations, lifecycleEpoch, mirrorStore,
                     mirror, seen>>
      /\ IF live.enabled /\ mirrorStore # 0 /\ turnBaseline # Absent
         THEN /\ end' = [baseline |-> turnBaseline, epoch |-> lifecycleEpoch, store |-> mirrorStore]
              /\ turnBaseline' = Absent
         ELSE end' = Absent /\ UNCHANGED turnBaseline
  BY DEF C!Answers
<1>2. /\ MessagesInv' /\ Len(kind') \in Nat
      /\ branch' = Append(branch, C!MessageEntry(Len(kind')))
      /\ raw' = raw \/ raw' = Append(raw, Len(kind'))
  BY <1>1, SaysIs DEF ContextInv, MessagesInv, Kinds
<1>3. BranchInv'
  BY <1>1, <1>2, MessageStep DEF ContextInv
<1>4. DocumentsInv'
  BY <1>1, DocumentsRest DEF ContextInv
<1>5. turnBaseline # Absent =>
         /\ live.enabled /\ mirrorStore # 0 /\ Documented(mode, turnBaseline)
         /\ Remembers(mode, live, turnBaseline) /\ turnBaseline.raw = raw
         /\ turnBaseline.doc.revision = live.revision
  BY DEF ContextInv, BaselineInv
<1>6. RequestInv' /\ BaselineInv'
  BY <1>1, <1>5, NothingSent
<1>7. EndInv'
  <2> SUFFICES ASSUME end' # Absent PROVE EndInv'
    BY DEF EndInv
  <2>1. turnBaseline # Absent /\ end' = [baseline |-> turnBaseline, epoch |-> lifecycleEpoch, store |-> mirrorStore]
    BY <1>1
  <2>2. end'.baseline = turnBaseline /\ end'.epoch = lifecycleEpoch
    BY <2>1
  <2>3. lifecycleEpoch \in Nat /\ raw \in Seq(Nat)
    BY DEF ContextInv, MessagesInv
  <2>4. C!Prefix([source |-> turnBaseline.raw], raw')
    <3> DEFINE c == [source |-> turnBaseline.raw]
    <3>1. c.source = raw
      BY <1>5, <2>1
    <3> HIDE DEF c
    <3>2. C!Prefix(c, raw) /\ C!Prefix(c, Append(raw, Len(kind')))
      BY <1>2, <2>3, <3>1, WholeIsPrefix, PrefixOfMore
    <3>3. C!Prefix(c, raw')
      BY <1>2, <3>2
    <3> QED BY <3>3 DEF c
  <2> QED BY <1>1, <1>5, <2>1, <2>2, <2>3, <2>4 DEF EndInv
<1> QED BY <1>2, <1>3, <1>4, <1>6, <1>7 DEF ContextInv

(* What an edit is made into is a sound projection of what was there.      *)
LEMMA AcceptedIs ==
  ASSUME ContextInv, mirror # Absent, end # Absent, end.epoch = lifecycleEpoch,
         NEW messages, messages = C!ApplyContextDocument(mirror, end.baseline.doc),
         messages # Absent, NEW s, s = C!Accepted(messages)
  PROVE  /\ s \in ContextStates /\ s.enabled = live.enabled /\ s.revision = live.revision + 1
         /\ s.checkpoint.revision = s.revision /\ SoundIn(mode, s.checkpoint)
         /\ s.checkpoint.source = end.baseline.raw /\ C!Prefix(s.checkpoint, raw)
<1> DEFINE base == end.baseline
           d == base.doc
           revision == live.revision + 1
           dropped == DroppedBy(live) \cup (C!Range(mirror.shown) \ C!Range(messages))
           checkpoint == [revision |-> revision, source |-> base.raw, projected |-> messages,
                          dropped |-> dropped]
<1>1. /\ Documented(mode, base) /\ Remembers(mode, live, base)
      /\ C!Prefix([source |-> base.raw], raw)
  BY DEF ContextInv, EndInv
<1>2. /\ base.raw \in Seq(Nat) /\ d \in ContextDocuments /\ C!Range(d.blocks) \subseteq C!Range(base.raw)
      /\ mode = "conservative" => d.seed = d.blocks
      /\ mode = "conservative" => C!Range(base.raw) \ C!Range(d.blocks) \subseteq DroppedBy(live)
  BY <1>1 DEF Documented, Baselines, Remembers
<1>3. /\ mirror \in ContextDocuments
      /\ mode = "conservative" => mirror.shown = mirror.seed
  BY DEF ContextInv, DocumentsInv
<1>4. live \in ContextStates /\ DroppedBy(live) \subseteq Nat /\ revision \in Nat
  BY LiveIs DEF ContextInv
<1> HIDE DEF base, d
<1>5. /\ messages \in Seq(Nat) /\ C!Range(messages) \subseteq C!Range(d.blocks)
      /\ mode = "conservative" => mirror.seed = d.seed
  <2>1. messages = C!ApplyContextDocument(mirror, d)
    BY DEF d, base
  <2> QED BY <1>2, <1>3, <2>1, AppliedIs
<1>6. dropped \subseteq Nat
  <2>1. mirror.shown \in Seq(Nat)
    BY <1>3 DEF ContextDocuments
  <2>2. C!Range(mirror.shown) \subseteq Nat
    BY <2>1, RangeOf
  <2> QED BY <1>4, <2>2
<1>7. mode = "conservative" => C!Range(base.raw) \ C!Range(messages) \subseteq dropped
  <2>1. mode = "conservative" => mirror.shown = d.blocks
    BY <1>2, <1>3, <1>5
  <2> QED BY <1>2, <2>1
<1>8. s = [live EXCEPT !.revision = revision, !.outcome = "applied", !.checkpoint = checkpoint]
  BY DEF C!Accepted, DroppedBy, base
<1> HIDE DEF dropped, revision
<1>9. checkpoint \in Checkpoints
  BY <1>2, <1>4, <1>5, <1>6 DEF Checkpoints
<1>10. SoundIn(mode, checkpoint)
  BY <1>2, <1>5, <1>7 DEF SoundIn
<1>11. checkpoint.revision = revision /\ checkpoint.source = base.raw /\ C!Prefix(checkpoint, raw)
  BY <1>1 DEF C!Prefix
<1> HIDE DEF checkpoint
<1>12. /\ s \in ContextStates /\ s.enabled = live.enabled /\ s.revision = revision
       /\ s.checkpoint = checkpoint
  BY <1>4, <1>8, <1>9 DEF ContextStates
<1> QED BY <1>10, <1>11, <1>12 DEF revision, base

(* The end of a turn: an edit of another epoch or revision is discarded.   *)
LEMMA TurnEndKeeps ==
  ASSUME ContextInv, NEW read, NEW saved, C!TurnEnd(read, saved) PROVE ContextInv'
<1>1. /\ end' = Absent
      /\ turnPhase = "ending" \/ (turnPhase' = turnPhase)
      /\ turnPhase' \in IF turnPhase = "ending" THEN {"ready", "idle"} ELSE {turnPhase}
      /\ UNCHANGED <<mode, kind, raw, settings, annotations, lifecycleEpoch, mirrorStore, turnBaseline,
                     mirror, seen, sent>>
  BY DEF C!TurnEnd
<1>2. BranchInv /\ MessagesInv' /\ DocumentsInv' /\ EndInv'
  <2>1. MessagesInv'
    BY <1>1 DEF ContextInv, MessagesInv
  <2>2. EndInv'
    BY <1>1 DEF EndInv
  <2> QED BY <1>1, <2>1, <2>2, DocumentsRest DEF ContextInv
<1>3. CASE C!NotPersisted
  <2>1. BranchInv' /\ live' = live
    BY <1>1, <1>2, <1>3, BranchRests DEF C!NotPersisted
  <2>2. RequestInv' /\ BaselineInv'
    <3>1. CASE turnPhase = "ending"
      BY <1>1, <3>1, Quiet, NothingSent
    <3>2. CASE turnPhase # "ending"
      <4>1. turnPhase' = turnPhase
        BY <1>1, <3>2
      <4> QED BY <1>1, <2>1, <4>1, RequestRests, BaselineRests DEF ContextInv
    <3> QED BY <3>1, <3>2
  <2> QED BY <1>2, <2>1, <2>2 DEF ContextInv
<1>4. CASE ~C!NotPersisted
  <2> DEFINE messages == C!ApplyContextDocument(mirror, end.baseline.doc)
             rejected == [live EXCEPT !.outcome = "rejected"]
  <2>1. /\ end # Absent /\ mirror # Absent /\ ~C!Discards(end)
        /\ IF messages = Absent THEN C!PersistOutcome(rejected) ELSE C!PersistFull(C!Accepted(messages))
    BY <1>4 DEF C!TurnEnd
  <2>2. end.epoch = lifecycleEpoch
    BY <2>1 DEF C!Discards
  <2>3. turnPhase = "ending"
    BY <2>1, <2>2 DEF ContextInv, EndInv
  <2>4. RequestInv' /\ BaselineInv'
    BY <1>1, <2>3, Quiet, NothingSent
  <2>5. BranchInv'
    <3>1. CASE messages = Absent
      <4>1. live \in ContextStates
        BY <1>2, LiveIs
      <4>2. /\ rejected \in ContextStates /\ rejected.revision = live.revision
            /\ rejected.checkpoint = live.checkpoint
        BY <4>1 DEF ContextStates
      <4>3. C!PersistOutcome(rejected)
        BY <2>1, <3>1
      <4> HIDE DEF rejected
      <4> QED BY <1>1, <1>2, <4>2, <4>3, SlimStep
    <3>2. CASE messages # Absent
      <4> DEFINE s == C!Accepted(messages)
      <4> HIDE DEF messages
      <4>1. C!PersistFull(s)
        BY <2>1, <3>2
      <4>2. /\ s \in ContextStates /\ s.revision = live.revision + 1
            /\ s.checkpoint.revision = s.revision /\ SoundIn(mode, s.checkpoint)
        BY <2>1, <2>2, <3>2, AcceptedIs DEF messages
      <4> HIDE DEF s
      <4> QED BY <1>1, <1>2, <4>1, <4>2, FullStep
    <3> QED BY <3>1, <3>2
  <2> QED BY <1>2, <2>4, <2>5 DEF ContextInv
<1> QED BY <1>3, <1>4

LEMMA SwitchKeeps ==
  ASSUME ContextInv, NEW enable \in BOOLEAN, C!Switch(enable) PROVE ContextInv'
<1> DEFINE s == [live EXCEPT !.enabled = enable]
<1>1. /\ turnPhase # "answering" /\ C!PersistOutcome(s)
      /\ IF enable THEN UNCHANGED <<lifecycleEpoch, turnBaseline>> ELSE C!Replaced
      /\ UNCHANGED <<mode, kind, raw, turnPhase, settings, annotations, mirrorStore, mirror, seen, end, sent>>
  BY DEF C!Switch, C!Interrupts, C!document
<1>2. BranchInv /\ live \in ContextStates
  BY LiveIs DEF ContextInv
<1>3. /\ s \in ContextStates /\ s.revision = live.revision /\ s.checkpoint = live.checkpoint
      /\ DroppedBy(s) = DroppedBy(live)
  BY <1>2 DEF ContextStates, DroppedBy
<1> HIDE DEF s
<1>4. BranchInv' /\ live' = s
  <2>1. live' = s
    BY <1>1 DEF C!PersistOutcome, C!Persist
  <2> QED BY <1>1, <1>2, <1>3, <2>1, SlimStep
<1>5. sent' = Absent /\ turnBaseline' = Absent
  BY <1>1, Quiet DEF C!Replaced
<1>6. RequestInv' /\ BaselineInv' /\ DocumentsInv'
  BY <1>1, <1>5, NothingSent, DocumentsRest DEF ContextInv
<1>7. EndInv' /\ lifecycleEpoch' \in Nat
  <2>1. CASE C!Replaced
    BY <1>1, <2>1, EndIsReplaced
  <2>2. CASE ~C!Replaced
    <3>1. lifecycleEpoch' = lifecycleEpoch
      BY <1>1, <2>2
    <3>2. EndInv /\ lifecycleEpoch \in Nat
      BY DEF ContextInv, MessagesInv
    <3>3. EndInv'
      BY <1>1, <1>3, <1>4, <3>1, <3>2 DEF EndInv, Remembers
    <3> QED BY <3>1, <3>2, <3>3
  <2> QED BY <2>1, <2>2
<1>8. MessagesInv'
  BY <1>1, <1>7 DEF ContextInv, MessagesInv
<1> QED BY <1>4, <1>6, <1>7, <1>8 DEF ContextInv

LEMMA ResetProjectionKeeps ==
  ASSUME ContextInv, C!ResetProjection PROVE ContextInv'
<1> DEFINE s == C!ResetProjectionState(live, "reset")
<1>1. /\ C!PersistFull(s) /\ C!Replaced /\ turnPhase # "answering"
      /\ UNCHANGED <<mode, kind, raw, turnPhase, settings, annotations, mirrorStore, mirror, seen, end, sent>>
  BY DEF C!ResetProjection, C!Interrupts, C!document
<1>2. BranchInv /\ live \in ContextStates
  BY LiveIs DEF ContextInv
<1>3. s \in ContextStates /\ s.revision = live.revision + 1 /\ s.checkpoint = Absent
  BY <1>2, ResetIs
<1> HIDE DEF s
<1>4. BranchInv'
  BY <1>1, <1>2, <1>3, FullStep
<1>5. sent' = Absent /\ turnBaseline' = Absent
  BY <1>1, Quiet DEF C!Replaced
<1>6. RequestInv' /\ BaselineInv' /\ DocumentsInv'
  BY <1>1, <1>5, NothingSent, DocumentsRest DEF ContextInv
<1>7. EndInv' /\ lifecycleEpoch' \in Nat
  BY <1>1, EndIsReplaced
<1>8. MessagesInv'
  BY <1>1, <1>7 DEF ContextInv, MessagesInv
<1> QED BY <1>4, <1>6, <1>7, <1>8 DEF ContextInv

LEMMA SummaryKeeps ==
  ASSUME ContextInv, NEW reason, NEW budgeted, NEW saved, C!Compaction(reason, budgeted, saved)
  PROVE  ContextInv'
<1> DEFINE e == C!MessageEntry(Len(kind'))
           b == Append(branch, e)
           s == C!ResetProjectionState(live, "reset")
<1>1. /\ turnPhase = "idle" /\ kind' = Append(kind, "summary") /\ raw' = <<Len(kind')>>
      /\ IF saved THEN branch' = Append(b, C!StateEntry(s)) /\ live' = s /\ C!Replaced
                  ELSE branch' = b /\ UNCHANGED <<live, lifecycleEpoch, turnBaseline>>
      /\ UNCHANGED <<mode, turnPhase, checkpointHistory, settings, annotations, mirrorStore, mirror, seen,
                     end, sent>>
  BY DEF C!Compaction, C!document
<1>2. /\ BranchOk(mode, branch) /\ live = C!ReconstructState(branch)
      /\ checkpointHistory = C!ReconstructHistory(branch)
      /\ annotations = C!ReconstructAnnotations(branch) /\ settings = RestoredIn(mode, branch)
      /\ kind \in Seq(Kinds) /\ lifecycleEpoch \in Nat
  BY DEF ContextInv, BranchInv, MessagesInv, Kinds
<1>3. kind' \in Seq(Kinds) /\ Len(kind') \in Nat
  BY <1>1, <1>2, AppendProperties, LenProperties DEF Kinds
<1>4. raw' \in Seq(Nat)
  BY <1>1, <1>3
<1>5. e \in ContextEntries /\ e.type = "message"
  BY <1>3 DEF C!MessageEntry, ContextEntries, MessageEntries
<1> HIDE DEF e
<1>6. /\ BranchOk(mode, b) /\ C!ReconstructState(b) = live /\ C!ReconstructHistory(b) = checkpointHistory
      /\ C!ReconstructAnnotations(b) = annotations
  BY <1>2, <1>5, ContextEntryAppended
<1>7. \A x : C!RestoredSettings(x) = RestoredIn(mode, x)
  BY DEF C!RestoredSettings, RestoredIn
<1>8. RestoredIn(mode, b) = settings
  <2>1. branch \in Seq(ContextEntries)
    BY <1>2 DEF BranchOk
  <2>2. C!RestoredSettings(Append(branch, e)) = C!RestoredSettings(branch)
    BY <1>5, <2>1, SettingsAre
  <2> QED BY <1>2, <1>7, <2>2
<1> HIDE DEF b
<1>9. live \in ContextStates
  BY LiveIs DEF ContextInv
<1>10. s \in ContextStates /\ s.revision = live.revision + 1 /\ s.checkpoint = Absent
  BY <1>9, ResetIs
<1> HIDE DEF s
<1>11. BranchInv'
  <2>1. CASE saved
    <3> DEFINE c == Append(b, C!StateEntry(s))
    <3>1. /\ BranchOk(mode, c) /\ C!ReconstructState(c) = s
          /\ C!ReconstructHistory(c) = C!ReconstructHistory(b)
      BY <1>6, <1>10, PersistedInFull
    <3>2. /\ C!ReconstructAnnotations(c) = C!ReconstructAnnotations(b)
          /\ C!RestoredSettings(c) = C!RestoredSettings(b)
      BY <1>6, <1>10, StateIsNoNote
    <3>3. branch' = c /\ live' = s
      BY <1>1, <2>1
    <3> HIDE DEF c
    <3> QED BY <1>1, <1>6, <1>7, <1>8, <3>1, <3>2, <3>3 DEF BranchInv
  <2>2. CASE ~saved
    BY <1>1, <1>6, <1>8, <2>2 DEF BranchInv
  <2> QED BY <2>1, <2>2
<1>12. sent' = Absent /\ turnBaseline' = Absent
  BY <1>1, Quiet DEF C!Replaced
<1>13. RequestInv' /\ BaselineInv' /\ DocumentsInv'
  BY <1>1, <1>12, NothingSent, DocumentsRest DEF ContextInv
<1>14. EndInv' /\ lifecycleEpoch' \in Nat
  <2>1. CASE saved
    BY <1>1, <2>1, EndIsReplaced
  <2>2. CASE ~saved
    <3>1. lifecycleEpoch' = lifecycleEpoch
      BY <1>1, <2>2
    <3> QED BY <1>1, <1>2, <3>1, EndIsStale
  <2> QED BY <2>1, <2>2
<1>15. MessagesInv'
  BY <1>3, <1>4, <1>14 DEF MessagesInv, Kinds
<1> QED BY <1>11, <1>13, <1>14, <1>15 DEF ContextInv

LEMMA ChangeSettingKeeps ==
  ASSUME ContextInv, NEW v \in {"auto", "on", "off"}, C!ChangeSetting(v) PROVE ContextInv'
<1>1. /\ branch' = Append(branch, C!SettingsEntry(v)) /\ settings' = v /\ mode = "clm"
      /\ UNCHANGED <<mode, kind, raw, turnPhase, live, checkpointHistory, annotations, lifecycleEpoch,
                     mirrorStore, turnBaseline, mirror, seen, end, sent>>
  BY DEF C!ChangeSetting, C!document
<1>2. /\ C!SettingsEntry(v) \in ContextEntries /\ C!SettingsEntry(v).type = "settings"
      /\ C!SettingsEntry(v).value = v
  BY DEF C!SettingsEntry, ContextEntries, SettingsEntries
<1>3. BranchInv'
  BY <1>1, <1>2, EntryStep DEF ContextInv
<1>4. MessagesInv'
  BY <1>1 DEF ContextInv, MessagesInv
<1> QED BY <1>1, <1>3, <1>4, DocumentsRest, RequestRests, BaselineRests, EndRests DEF ContextInv

LEMMA TreeKeeps ==
  ASSUME ContextInv, NEW n \in Nat, C!Tree(n) PROVE ContextInv'
<1> DEFINE b == SubSeq(branch, 1, n)
<1>1. /\ turnPhase # "answering" /\ n < Len(branch) /\ branch' = b
      /\ raw' = C!Rebuilt(branch') /\ C!Restore(branch') /\ C!Replaced
      /\ UNCHANGED <<mode, kind, mirror, seen, end, sent>>
  BY DEF C!Tree, C!Interrupts, C!document, C!Restore
<1>2. BranchOk(mode, branch) /\ Len(branch) \in Nat
  BY LenProperties DEF ContextInv, BranchInv, BranchOk
<1>3. BranchOk(mode, branch')
  <2>1. n \in 0..Len(branch)
    BY <1>1, <1>2
  <2> QED BY <1>1, <1>2, <2>1, PrefixIsABranch
<1>4. BranchInv'
  BY <1>1, <1>3, RestoreStep
<1>5. raw' \in Seq(Nat)
  <2>1. b \in Seq(ContextEntries) /\ branch' = b
    BY <1>1, <1>3 DEF BranchOk
  <2> HIDE DEF b
  <2>2. C!Rebuilt(b) \in Seq(Nat)
    BY <2>1, RebuiltIs
  <2>3. raw' = C!Rebuilt(b)
    BY <1>1, <2>1
  <2> QED BY <2>2, <2>3
<1>6. sent' = Absent /\ turnBaseline' = Absent
  BY <1>1, Quiet DEF C!Replaced
<1>7. RequestInv' /\ BaselineInv' /\ DocumentsInv'
  BY <1>1, <1>6, NothingSent, DocumentsRest DEF ContextInv
<1>8. EndInv' /\ lifecycleEpoch' \in Nat
  BY <1>1, EndIsReplaced
<1>9. MessagesInv'
  BY <1>1, <1>5, <1>8 DEF ContextInv, MessagesInv
<1> QED BY <1>4, <1>7, <1>8, <1>9 DEF ContextInv

LEMMA ShutdownKeeps ==
  ASSUME ContextInv, C!Shutdown PROVE ContextInv'
<1>1. /\ turnPhase # "answering" /\ C!Replaced /\ mirror' = Absent /\ seen' = Absent
      /\ UNCHANGED <<mode, kind, branch, raw, live, checkpointHistory, settings, annotations, end, sent>>
  BY DEF C!Shutdown, C!Interrupts, C!session
<1>2. BranchInv' /\ DocumentsInv'
  BY <1>1, BranchRests DEF ContextInv, DocumentsInv
<1>3. sent' = Absent /\ turnBaseline' = Absent
  BY <1>1, Quiet DEF C!Replaced
<1>4. RequestInv' /\ BaselineInv'
  BY <1>3, NothingSent
<1>5. EndInv' /\ lifecycleEpoch' \in Nat
  BY <1>1, EndIsReplaced
<1>6. MessagesInv'
  BY <1>1, <1>5 DEF ContextInv, MessagesInv
<1> QED BY <1>2, <1>4, <1>5, <1>6 DEF ContextInv

LEMMA SessionStartKeeps ==
  ASSUME ContextInv, NEW created, C!SessionStart(created) PROVE ContextInv'
<1>1. /\ turnPhase # "answering" /\ raw' = C!Rebuilt(branch) /\ C!Restore(branch) /\ C!Replaced
      /\ UNCHANGED <<mode, kind, branch, mirror, seen, end, sent>>
  BY DEF C!SessionStart, C!document, C!Restore
<1>2. BranchOk(mode, branch)
  BY DEF ContextInv, BranchInv
<1>3. BranchInv'
  BY <1>1, <1>2, RestoreStep
<1>4. raw' \in Seq(Nat)
  BY <1>1, <1>2, RebuiltIs DEF BranchOk
<1>5. sent' = Absent /\ turnBaseline' = Absent
  BY <1>1, Quiet DEF C!Replaced
<1>6. RequestInv' /\ BaselineInv' /\ DocumentsInv'
  BY <1>1, <1>5, NothingSent, DocumentsRest DEF ContextInv
<1>7. EndInv' /\ lifecycleEpoch' \in Nat
  BY <1>1, EndIsReplaced
<1>8. MessagesInv'
  BY <1>1, <1>4, <1>7 DEF ContextInv, MessagesInv
<1> QED BY <1>3, <1>6, <1>7, <1>8 DEF ContextInv

LEMMA AskCompactKeeps ==
  ASSUME ContextInv, C!AskCompact PROVE ContextInv'
<1>1. UNCHANGED <<mode, kind, branch, raw, turnPhase, live, checkpointHistory, settings, annotations,
                  lifecycleEpoch, mirrorStore, turnBaseline, mirror, seen, end, sent>>
  BY DEF C!AskCompact, C!session, C!document
<1>2. MessagesInv'
  BY <1>1 DEF ContextInv, MessagesInv
<1> QED BY <1>1, <1>2, BranchRests, DocumentsRest, RequestRests, BaselineRests, EndRests DEF ContextInv

LEMMA SendCompactKeeps ==
  ASSUME ContextInv, C!SendCompact PROVE ContextInv'
<1>1. /\ turnPhase = "idle"
      /\ \/ C!Says("user")
         \/ UNCHANGED <<kind, branch, raw, turnPhase>>
      /\ UNCHANGED <<mode, live, checkpointHistory, settings, annotations, lifecycleEpoch,
                     mirrorStore, turnBaseline, mirror, seen, end, sent>>
  BY DEF C!SendCompact, C!session, C!document
<1>2. CASE C!Says("user")
  <2>1. MessagesInv' /\ Len(kind') \in Nat /\ branch' = Append(branch, C!MessageEntry(Len(kind')))
    BY <1>1, <1>2, SaysIs DEF ContextInv, MessagesInv, Kinds
  <2>2. BranchInv'
    BY <1>1, <2>1, MessageStep DEF ContextInv
  <2>3. RequestInv' /\ BaselineInv' /\ DocumentsInv' /\ EndInv'
    BY <1>1, Quiet, NothingSent, DocumentsRest, EndIsStale DEF ContextInv
  <2> QED BY <2>1, <2>2, <2>3 DEF ContextInv
<1>3. CASE UNCHANGED <<kind, branch, raw, turnPhase>>
  <2>1. MessagesInv'
    BY <1>1, <1>3 DEF ContextInv, MessagesInv
  <2> QED BY <1>1, <1>3, <2>1, BranchRests, DocumentsRest, RequestRests, BaselineRests, EndRests DEF ContextInv
<1> QED BY <1>1, <1>2, <1>3

-----------------------------------------------------------------------------
(* The start and the steps.                                                *)

LEMMA RetriedIs ==
  /\ C!Retried \in Seq(ContextEntries) /\ Len(C!Retried) = 3 /\ DOMAIN C!Retried = 1..3
  /\ BranchOk(mode, C!Retried) /\ C!ReconstructState(C!Retried) = C!InitialState
  /\ C!ReconstructAnnotations(C!Retried) = {} /\ C!RestoredSettings(C!Retried) = "auto"
<1> DEFINE b == C!Retried
<1>1. b = [m \in 1..3 |-> C!MessageEntry(m)]
  BY DEF C!Retried
<1>2. \A m \in 1..3 : C!MessageEntry(m) \in ContextEntries /\ C!MessageEntry(m).type = "message"
  BY DEF C!MessageEntry, ContextEntries, MessageEntries
<1>3. b \in [1..3 -> ContextEntries] /\ DOMAIN b = 1..3
  BY <1>1, <1>2
<1>4. b \in Seq(ContextEntries)
  BY <1>3, SeqDef
<1>5. Len(b) = 3
  <2>1. DOMAIN b = 1..Len(b) /\ Len(b) \in Nat
    BY <1>4, LenProperties
  <2> QED BY <1>3, <2>1
<1>6. \A t : t # "message" => C!OfType(b, t) = {}
  <2>1. \A i \in DOMAIN b : b[i].type = "message"
    BY <1>1, <1>2
  <2> HIDE DEF b
  <2> QED BY <2>1 DEF C!OfType
<1> HIDE DEF b
<1>7. StatesOf(b) = {} /\ NotedOf(b) = {} /\ FullOf(b) = {}
  BY <1>6 DEF StatesOf, NotedOf, FullOf
<1>8. BranchOk(mode, b)
  BY <1>4, <1>7 DEF BranchOk, StatesAreSound, RevisionsGrow, NotesAreNumbered
<1>9. C!ReconstructState(b) = C!InitialState
  BY <1>7 DEF C!ReconstructState, StatesOf
<1>10. C!ReconstructAnnotations(b) = {}
  BY <1>7 DEF C!ReconstructAnnotations, NotedOf
<1>11. C!RestoredSettings(b) = "auto"
  BY <1>6 DEF C!RestoredSettings
<1> QED BY <1>3, <1>4, <1>5, <1>8, <1>9, <1>10, <1>11 DEF b

LEMMA DiscardedIs ==
  /\ BranchOk(mode, C!Discarded)
  /\ C!ReconstructAnnotations(C!Discarded) = {} /\ C!RestoredSettings(C!Discarded) = "auto"
<1> DEFINE checkpoint == [revision |-> 1, source |-> <<1, 3>>, projected |-> <<1>>, dropped |-> {3}]
           s == [enabled |-> TRUE, revision |-> 1, checkpoint |-> checkpoint, outcome |-> "applied"]
           t == C!ResetProjectionState(s, "mismatch")
           b == C!Retried
           c == Append(b, C!StateEntry(s))
           d == Append(c, C!StateEntry(t))
<1>1. /\ checkpoint \in Checkpoints /\ SoundIn(mode, checkpoint) /\ checkpoint.revision = 1
  <2>1. <<1, 3>> \in Seq(Nat) /\ <<1>> \in Seq(Nat)
    OBVIOUS
  <2>2. C!Range(<<1, 3>>) = {1, 3} /\ C!Range(<<1>>) = {1}
    BY DEF C!Range
  <2>3. checkpoint \in Checkpoints
    BY <2>1 DEF Checkpoints
  <2>4. checkpoint.source = <<1, 3>> /\ checkpoint.projected = <<1>> /\ checkpoint.dropped = {3}
    OBVIOUS
  <2>5. SoundIn(mode, checkpoint)
    BY <2>2, <2>4 DEF SoundIn
  <2> QED BY <2>3, <2>5
<1> HIDE DEF checkpoint
<1>2. s \in ContextStates /\ s.revision = 1 /\ s.checkpoint = checkpoint
  BY <1>1 DEF ContextStates
<1> HIDE DEF s
<1>3. t \in ContextStates /\ t.revision = 1 + 1 /\ t.checkpoint = Absent
  BY <1>2, ResetIs
<1> HIDE DEF t
<1>4. /\ b \in Seq(ContextEntries) /\ Len(b) = 3 /\ DOMAIN b = 1..3
      /\ BranchOk(mode, b) /\ C!ReconstructState(b).revision = 0
      /\ C!ReconstructAnnotations(b) = {} /\ C!RestoredSettings(b) = "auto"
  BY RetriedIs DEF C!InitialState
<1> HIDE DEF b
<1>5. /\ BranchOk(mode, c) /\ C!ReconstructState(c) = s
      /\ C!ReconstructAnnotations(c) = {} /\ C!RestoredSettings(c) = "auto"
  <2>1. s.revision = C!ReconstructState(b).revision + 1
    BY <1>2, <1>4
  <2> QED BY <1>1, <1>2, <1>4, <2>1, PersistedInFull, StateIsNoNote
<1>6. c \in Seq(ContextEntries) /\ Len(c) = 4 /\ c[4] = C!StateEntry(s)
      /\ \A i \in 1..3 : c[i] = b[i]
  <2>1. C!StateEntry(s) \in ContextEntries
    BY <1>2 DEF C!StateEntry, ContextEntries, StateEntries
  <2> HIDE DEF c
  <2>2. c \in Seq(ContextEntries) /\ Len(c) = Len(b) + 1 /\ c[Len(b) + 1] = C!StateEntry(s)
        /\ \A i \in 1..Len(b) : c[i] = b[i]
    BY <1>4, <2>1, OneMore DEF c
  <2> QED BY <1>4, <2>2
<1> HIDE DEF c
<1>7. /\ BranchOk(mode, d)
      /\ C!ReconstructAnnotations(d) = {} /\ C!RestoredSettings(d) = "auto"
  <2>1. t.revision = C!ReconstructState(c).revision + 1
    BY <1>2, <1>3, <1>5
  <2> QED BY <1>3, <1>5, <2>1, PersistedInFull, StateIsNoNote
<1>8. d \in Seq(ContextEntries) /\ Len(d) = 5 /\ d[5] = C!StateEntry(t)
      /\ \A i \in 1..4 : d[i] = c[i]
  <2>1. C!StateEntry(t) \in ContextEntries
    BY <1>3 DEF C!StateEntry, ContextEntries, StateEntries
  <2> HIDE DEF d
  <2>2. d \in Seq(ContextEntries) /\ Len(d) = Len(c) + 1 /\ d[Len(c) + 1] = C!StateEntry(t)
        /\ \A i \in 1..Len(c) : d[i] = c[i]
    BY <1>6, <2>1, OneMore DEF d
  <2> QED BY <1>6, <2>2
<1> HIDE DEF d
<1>9. C!Discarded = d
  <2> DEFINE q == <<C!StateEntry(s), C!StateEntry(t)>>
  <2>1. C!Discarded = b \o q
    BY DEF C!Discarded, b, s, t, checkpoint
  <2>2. C!StateEntry(s) \in ContextEntries /\ C!StateEntry(t) \in ContextEntries
    BY <1>2, <1>3 DEF C!StateEntry, ContextEntries, StateEntries
  <2>3. q \in Seq(ContextEntries) /\ Len(q) = 2 /\ q[1] = C!StateEntry(s) /\ q[2] = C!StateEntry(t)
    BY <2>2
  <2> HIDE DEF q
  <2>4. /\ b \o q \in Seq(ContextEntries) /\ Len(b \o q) = 5
        /\ \A i \in 1..5 : (b \o q)[i] = IF i <= 3 THEN b[i] ELSE q[i - 3]
    <3>1. /\ b \o q \in Seq(ContextEntries) /\ Len(b \o q) = Len(b) + Len(q)
          /\ \A i \in 1..Len(b) + Len(q) : (b \o q)[i] = IF i <= Len(b) THEN b[i] ELSE q[i - Len(b)]
      BY <1>4, <2>3, ConcatProperties
    <3> QED BY <1>4, <2>3, <3>1
  <2>5. \A i \in 1..5 : (b \o q)[i] = d[i]
    <3> SUFFICES ASSUME NEW i \in 1..5 PROVE (b \o q)[i] = d[i]
      OBVIOUS
    <3>1. CASE i \in 1..3
      BY <1>6, <1>8, <2>4, <3>1
    <3>2. CASE i = 4
      <4>1. (b \o q)[4] = q[1]
        BY <2>4
      <4>2. d[4] = c[4]
        BY <1>8
      <4> QED BY <1>6, <2>3, <3>2, <4>1, <4>2
    <3>3. CASE i = 5
      <4>1. (b \o q)[5] = q[2]
        BY <2>4
      <4> QED BY <1>8, <2>3, <3>3, <4>1
    <3>4. i \in 1..3 \/ i = 4 \/ i = 5
      OBVIOUS
    <3> QED BY <3>1, <3>2, <3>3, <3>4
  <2> QED BY <1>8, <2>1, <2>4, <2>5, SeqEqual
<1> QED BY <1>7, <1>9

LEMMA ContextStarts == C!Init => ContextInv
<1> SUFFICES ASSUME C!Init PROVE ContextInv
  OBVIOUS
<1>1. /\ kind = <<"user", "failed", "assistant">> /\ lifecycleEpoch = 0
      /\ branch = C!Retried \/ branch = C!Discarded
      /\ raw = <<1, 3>> \/ raw = C!Rebuilt(branch)
      /\ live = C!ReconstructState(branch) /\ checkpointHistory = C!ReconstructHistory(branch)
      /\ settings = "auto" /\ annotations = {}
      /\ turnBaseline = Absent /\ mirror = Absent /\ seen = Absent /\ end = Absent /\ sent = Absent
  BY DEF C!Init
<1>2. /\ BranchOk(mode, branch) /\ C!ReconstructAnnotations(branch) = {}
      /\ C!RestoredSettings(branch) = "auto"
  BY <1>1, RetriedIs, DiscardedIs
<1>3. BranchInv
  BY <1>1, <1>2 DEF BranchInv, RestoredIn, C!RestoredSettings
<1>4. raw \in Seq(Nat)
  <2>1. C!Rebuilt(branch) \in Seq(Nat)
    BY <1>2, RebuiltIs DEF BranchOk
  <2>2. <<1, 3>> \in Seq(Nat)
    OBVIOUS
  <2> QED BY <1>1, <2>1, <2>2
<1>5. kind \in Seq({"user", "failed", "assistant", "summary"}) /\ lifecycleEpoch \in Nat
  BY <1>1
<1> QED BY <1>1, <1>3, <1>4, <1>5
        DEF ContextInv, MessagesInv, DocumentsInv, RequestInv, BaselineInv, EndInv

LEMMA ContextStep ==
  ASSUME ContextInv, [C!Next]_(C!vars) PROVE ContextInv'
<1>1. CASE C!UserMessage BY <1>1, UserMessageKeeps
<1>2. CASE C!ReadsMirror BY <1>2, ReadsMirrorKeeps
<1>3. CASE C!Annotate BY <1>3, AnnotateKeeps
<1>4. CASE \E a, b \in BOOLEAN : C!Hook(a, b) BY <1>4, TurnHookKeeps
<1>5. CASE \E a, b \in BOOLEAN : C!TurnEnd(a, b) BY <1>5, TurnEndKeeps
<1>6. CASE \E d \in C!Documents, form \in {"headers", "headerless", "malformed"} :
              \E blocks \in SUBSET C!Range(d.blocks) : C!WritesMirror(d, form, blocks)
  BY <1>6, WritesMirrorKeeps
<1>7. CASE \E n \in annotations : C!Resolve(n) BY <1>7, ResolveKeeps
<1>8. CASE \E k \in {"assistant", "failed"} : C!Answers(k) BY <1>8, TurnAnswersKeeps
<1>9. CASE \E b \in BOOLEAN : C!Switch(b) BY <1>9, SwitchKeeps
<1>10. CASE \E b \in BOOLEAN : C!SessionStart(b) BY <1>10, SessionStartKeeps
<1>11. CASE C!ResetProjection BY <1>11, ResetProjectionKeeps
<1>12. CASE C!Shutdown BY <1>12, ShutdownKeeps
<1>13. CASE C!AskCompact BY <1>13, AskCompactKeeps
<1>14. CASE C!SendCompact BY <1>14, SendCompactKeeps
<1>15. CASE \E r \in C!Reasons, a, b \in BOOLEAN : C!Compaction(r, a, b) BY <1>15, SummaryKeeps
<1>16. CASE \E v \in {"auto", "on", "off"} : C!ChangeSetting(v) BY <1>16, ChangeSettingKeeps
<1>17. CASE \E n \in 0..MaxContextEntries : C!Tree(n)
  BY <1>17, TreeKeeps
<1>18. CASE UNCHANGED C!vars
  <2>1. UNCHANGED <<mode, kind, branch, raw, turnPhase, live, checkpointHistory, settings, annotations,
                    lifecycleEpoch, mirrorStore, turnBaseline, mirror, seen, end, sent>>
    BY <1>18 DEF C!vars, C!session, C!extension, C!document
  <2>2. MessagesInv'
    BY <2>1 DEF ContextInv, MessagesInv
  <2> QED BY <2>1, <2>2, BranchRests, DocumentsRest, RequestRests, BaselineRests, EndRests DEF ContextInv
<1>19. C!Next => \/ C!UserMessage \/ C!ReadsMirror \/ C!Annotate
                 \/ \E a, b \in BOOLEAN : C!Hook(a, b)
                 \/ \E a, b \in BOOLEAN : C!TurnEnd(a, b)
                 \/ \E d \in C!Documents, form \in {"headers", "headerless", "malformed"} :
                       \E blocks \in SUBSET C!Range(d.blocks) : C!WritesMirror(d, form, blocks)
                 \/ \E n \in annotations : C!Resolve(n)
                 \/ \E k \in {"assistant", "failed"} : C!Answers(k)
                 \/ \E b \in BOOLEAN : C!Switch(b)
                 \/ \E b \in BOOLEAN : C!SessionStart(b)
                 \/ C!ResetProjection \/ C!Shutdown \/ C!AskCompact \/ C!SendCompact
                 \/ \E r \in C!Reasons, a, b \in BOOLEAN : C!Compaction(r, a, b)
                 \/ \E v \in {"auto", "on", "off"} : C!ChangeSetting(v)
                 \/ \E n \in 0..MaxContextEntries : C!Tree(n)
  BY DEF C!Next
<1> QED BY <1>1, <1>2, <1>3, <1>4, <1>5, <1>6, <1>7, <1>8, <1>9, <1>10, <1>11, <1>12, <1>13, <1>14,
           <1>15, <1>16, <1>17, <1>18, <1>19

THEOREM ContextInvariant == C!Spec => []ContextInv
<1>1. C!Init => ContextInv
  BY ContextStarts
<1>2. ContextInv /\ [C!Next]_(C!vars) => ContextInv'
  BY ContextStep
<1> QED BY <1>1, <1>2, PTL DEF C!Spec

(* Only the end of a turn makes an edit into the context, and only of the  *)
(* branch that it was made from.                                           *)
LEMMA EditFits ==
  ASSUME ContextInv, C!Next, live'.outcome = "applied", live'.checkpoint # live.checkpoint,
         end # Absent, end' = Absent
  PROVE  C!Prefix(live'.checkpoint, raw)
<1>1. PICK read, saved \in BOOLEAN : C!TurnEnd(read, saved)
  <2>1. ASSUME NEW k \in {"assistant", "failed"}, C!Answers(k) PROVE FALSE
    BY <2>1 DEF C!Answers
  <2>2. ASSUME NEW a, NEW b, C!Hook(a, b) PROVE FALSE
    BY <2>2 DEF C!Hook
  <2>3. ASSUME NEW d, NEW form, NEW blocks, C!WritesMirror(d, form, blocks) PROVE FALSE
    BY <2>3 DEF C!WritesMirror
  <2>4. ASSUME NEW n, C!Resolve(n) PROVE FALSE
    BY <2>4 DEF C!Resolve, C!document
  <2>5. ASSUME NEW b, C!Switch(b) \/ C!SessionStart(b) PROVE FALSE
    BY <2>5 DEF C!Switch, C!SessionStart, C!document
  <2>6. ASSUME NEW r, NEW a, NEW b, C!Compaction(r, a, b) PROVE FALSE
    BY <2>6 DEF C!Compaction, C!document
  <2>7. ASSUME NEW v, C!ChangeSetting(v) \/ C!Tree(v) PROVE FALSE
    BY <2>7 DEF C!ChangeSetting, C!Tree, C!document
  <2>8. ~C!UserMessage /\ ~C!ReadsMirror /\ ~C!Annotate
    BY DEF C!UserMessage, C!ReadsMirror, C!Annotate, C!document
  <2>9. ~C!ResetProjection /\ ~C!Shutdown /\ ~C!AskCompact /\ ~C!SendCompact
    BY DEF C!ResetProjection, C!Shutdown, C!AskCompact, C!SendCompact, C!document
  <2> QED BY <2>1, <2>2, <2>3, <2>4, <2>5, <2>6, <2>7, <2>8, <2>9 DEF C!Next
<1> DEFINE messages == C!ApplyContextDocument(mirror, end.baseline.doc)
           rejected == [live EXCEPT !.outcome = "rejected"]
<1>2. CASE C!NotPersisted
  BY <1>2 DEF C!NotPersisted
<1>3. CASE ~C!NotPersisted
  <2>1. /\ mirror # Absent /\ ~C!Discards(end)
        /\ IF messages = Absent THEN C!PersistOutcome(rejected) ELSE C!PersistFull(C!Accepted(messages))
    BY <1>1, <1>3 DEF C!TurnEnd
  <2>2. end.epoch = lifecycleEpoch
    BY <2>1 DEF C!Discards
  <2>3. CASE messages = Absent
    <3>1. live \in ContextStates
      BY LiveIs DEF ContextInv
    <3>2. live' = rejected
      BY <2>1, <2>3 DEF C!PersistOutcome, C!Persist
    <3>3. rejected.checkpoint = live.checkpoint
      BY <3>1 DEF ContextStates
    <3> QED BY <3>2, <3>3
  <2>4. CASE messages # Absent
    <3> HIDE DEF messages
    <3>1. live' = C!Accepted(messages)
      BY <2>1, <2>4 DEF C!PersistFull, C!Persist
    <3>2. C!Prefix(C!Accepted(messages).checkpoint, raw)
      BY <2>1, <2>2, <2>4, AcceptedIs DEF messages
    <3> QED BY <3>1, <3>2
  <2> QED BY <2>3, <2>4
<1> QED BY <1>2, <1>3

THEOREM EditsFitTheirBranch == C!Spec => C!EditFitsItsBranch
<1>1. ContextInv /\ [C!Next]_(C!vars) =>
         [live'.outcome = "applied" /\ live'.checkpoint # live.checkpoint /\ end # Absent /\ end' = Absent
            => C!Prefix(live'.checkpoint, raw)]_(C!vars)
  BY EditFits
<1> QED BY ContextInvariant, <1>1, PTL DEF C!Spec, C!EditFitsItsBranch
=============================================================================
