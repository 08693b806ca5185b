--------------------------- MODULE SessionHostProofs ---------------------------
(***************************************************************************)
(* Proofs about the delivery of results and the session that hosts it.     *)
(*                                                                         *)
(* First ResultDelivery, for every set of results and commands and any     *)
(* number of sessions: no result is lost or sent twice, the coordinator    *)
(* implements SerialDelivery, and, when no user turn waits in preflight,   *)
(* results come one turn at a time and only to an idle parent.             *)
(*                                                                         *)
(* Then SessionHost, which extends it, for every set of invocations and    *)
(* run directories, when no launch resumes a run that is live: a live run  *)
(* is the one its runId leads to, no run survives the shutdown of its      *)
(* session, and no result reaches a later session.                         *)
(***************************************************************************)
EXTENDS SessionHost, TLAPS, FiniteSetTheorems, SequenceTheorems, NaturalsInduction

-----------------------------------------------------------------------------
(* Records.  What an update of one or two fields of the closure gives.     *)

SameSession0(r, s) == s.accepting = r.accepting /\ s.generation = r.generation

LEMMA FreshClosure ==
  ASSUME NEW g \in Nat, NEW a \in BOOLEAN
  PROVE  /\ Fresh(g, a) \in Closures
         /\ Fresh(g, a).queued = <<>> /\ Fresh(g, a).accepting = a /\ ~Fresh(g, a).agentActive
         /\ Fresh(g, a).barriers = 0 /\ Fresh(g, a).generation = g /\ Fresh(g, a).delivering = None
BY DEF Fresh, Closures

LEMMA QueuedReplaced ==
  ASSUME NEW r \in Closures, NEW q \in Seq(Ids), NEW s, s = [r EXCEPT !.queued = q]
  PROVE  /\ s \in Closures /\ SameSession0(r, s) /\ s.queued = q
         /\ s.agentActive = r.agentActive /\ s.barriers = r.barriers /\ s.delivering = r.delivering
BY DEF Closures, SameSession0

LEMMA BarriersReplaced ==
  ASSUME NEW r \in Closures, NEW n \in Nat, NEW s, s = [r EXCEPT !.barriers = n]
  PROVE  /\ s \in Closures /\ SameSession0(r, s) /\ s.barriers = n
         /\ s.agentActive = r.agentActive /\ s.queued = r.queued /\ s.delivering = r.delivering
BY DEF Closures, SameSession0

LEMMA DeliveringReplaced ==
  ASSUME NEW r \in Closures, NEW d \in {None} \cup [id : Ids, started : BOOLEAN],
         NEW s, s = [r EXCEPT !.delivering = d]
  PROVE  /\ s \in Closures /\ SameSession0(r, s) /\ s.delivering = d
         /\ s.agentActive = r.agentActive /\ s.queued = r.queued /\ s.barriers = r.barriers
BY DEF Closures, SameSession0

LEMMA ActiveReplaced ==
  ASSUME NEW r \in Closures, NEW a \in BOOLEAN, NEW s, s = [r EXCEPT !.agentActive = a]
  PROVE  /\ s \in Closures /\ SameSession0(r, s) /\ s.agentActive = a
         /\ s.delivering = r.delivering /\ s.queued = r.queued /\ s.barriers = r.barriers
BY DEF Closures, SameSession0

(* agentStarted and the first half of agentSettled.                        *)
LEMMA StartedClosure ==
  ASSUME NEW r \in Closures
  PROVE  /\ AgentStarted(r) \in Closures /\ SameSession0(r, AgentStarted(r))
         /\ AgentStarted(r).agentActive
         /\ AgentStarted(r).queued = r.queued /\ AgentStarted(r).barriers = r.barriers
         /\ r.delivering = None => AgentStarted(r).delivering = None
         /\ r.delivering # None => /\ AgentStarted(r).delivering # None
                                   /\ AgentStarted(r).delivering.id = r.delivering.id
                                   /\ AgentStarted(r).delivering.started
<1> DEFINE d == IF r.delivering = None THEN None ELSE [r.delivering EXCEPT !.started = TRUE]
           s == [r EXCEPT !.agentActive = TRUE]
<1>1. r.delivering \in {None} \cup [id : Ids, started : BOOLEAN]
  BY DEF Closures
<1>2. CASE r.delivering = None
  <2>1. AgentStarted(r) = [s EXCEPT !.delivering = None]
    BY <1>2 DEF AgentStarted, Closures
  <2>2. s \in Closures /\ SameSession0(r, s) /\ s.agentActive /\ s.queued = r.queued /\ s.barriers = r.barriers
    BY ActiveReplaced
  <2> HIDE DEF s
  <2> QED BY <1>2, <2>1, <2>2, DeliveringReplaced DEF SameSession0
<1>3. CASE r.delivering # None
  <2> DEFINE e == [r.delivering EXCEPT !.started = TRUE]
  <2>1. AgentStarted(r) = [s EXCEPT !.delivering = e]
    BY <1>3 DEF AgentStarted, Closures
  <2>2. s \in Closures /\ SameSession0(r, s) /\ s.agentActive /\ s.queued = r.queued /\ s.barriers = r.barriers
    BY ActiveReplaced
  <2>3. e \in [id : Ids, started : BOOLEAN] /\ e.id = r.delivering.id /\ e.started
    BY <1>1, <1>3
  <2>4. e # None
    BY <2>3, DeliveryAssumption
  <2> HIDE DEF s, e
  <2>5. AgentStarted(r) \in Closures /\ SameSession0(s, AgentStarted(r))
        /\ AgentStarted(r).delivering = e /\ AgentStarted(r).agentActive = s.agentActive
        /\ AgentStarted(r).queued = s.queued /\ AgentStarted(r).barriers = s.barriers
    BY <2>1, <2>2, <2>3 DEF Closures, SameSession0
  <2> QED BY <1>3, <2>2, <2>3, <2>4, <2>5 DEF SameSession0
<1> QED BY <1>2, <1>3

(* The first half of agentSettled.                                         *)
LEMMA AfterwardsClosure ==
  ASSUME NEW r \in Closures
  PROVE  /\ Afterwards(r) \in Closures /\ SameSession0(r, Afterwards(r))
         /\ ~Afterwards(r).agentActive
         /\ Afterwards(r).queued = r.queued /\ Afterwards(r).barriers = r.barriers
         /\ Afterwards(r).delivering = IF Settles(r) THEN None ELSE r.delivering
<1> DEFINE s == [r EXCEPT !.agentActive = FALSE]
           d == IF Settles(r) THEN None ELSE r.delivering
<1>1. d \in {None} \cup [id : Ids, started : BOOLEAN]
  BY DEF Closures
<1>2. Afterwards(r) = [s EXCEPT !.delivering = d]
  BY DEF Afterwards, Closures
<1>3. s \in Closures /\ SameSession0(r, s) /\ ~s.agentActive /\ s.queued = r.queued /\ s.barriers = r.barriers
  BY ActiveReplaced
<1> HIDE DEF s
<1>4. d = IF Settles(r) THEN None ELSE r.delivering
  OBVIOUS
<1> HIDE DEF d
<1> QED BY <1>1, <1>2, <1>3, <1>4, DeliveringReplaced DEF SameSession0

-----------------------------------------------------------------------------
(* Sequences: the least element, and the queue behind an entry.            *)

LEMMA MinOfNats ==
  ASSUME NEW S, S \subseteq Nat, S # {}
  PROVE  Min(S) \in S /\ \A n \in S : Min(S) <= n
<1>1. IsWellFoundedOn(OpToRel(<, Nat), Nat)
  BY NatLessThanWellFounded
<1>2. PICK x \in S : \A y \in S : ~(<<y, x>> \in OpToRel(<, Nat))
  BY <1>1, WFMin, Zenon
<1>3. \A y \in S : x <= y
  <2> TAKE y \in S
  <2>1. ~(y < x)
    BY <1>2, Zenon DEF OpToRel
  <2> QED BY <2>1
<1> QED BY <1>2, <1>3 DEF Min

LEMMA Behind ==
  ASSUME NEW S, NEW q \in Seq(S), NEW n \in 1..Len(q)
  PROVE  /\ AfterHead(q, n) \in Seq(S)
         /\ Len(AfterHead(q, n)) = Len(q) - n
         /\ \A i \in 1..(Len(q) - n) : AfterHead(q, n)[i] = q[i + n]
<1>1. \A i \in (n + 1)..Len(q) : q[i] \in S
  BY ElementOfSeq
<1>2. n \in Nat /\ Len(q) \in Nat
  BY LenProperties
<1>3. /\ SubSeq(q, n + 1, Len(q)) \in Seq(S)
      /\ Len(SubSeq(q, n + 1, Len(q))) = IF n + 1 <= Len(q) THEN Len(q) - (n + 1) + 1 ELSE 0
      /\ \A i \in 1..(Len(q) - (n + 1) + 1) : SubSeq(q, n + 1, Len(q))[i] = q[n + 1 + i - 1]
  BY <1>1, <1>2, SubSeqProperties, n + 1 \in Int, Len(q) \in Int
<1> QED BY <1>2, <1>3 DEF AfterHead

LEMMA Members ==
  ASSUME NEW S, NEW q \in Seq(S)
  PROVE  /\ ToSet(q) \subseteq S
         /\ \A i \in 1..Len(q) : q[i] \in ToSet(q)
         /\ \A x : x \in ToSet(q) <=> \E i \in 1..Len(q) : x = q[i]
BY LenProperties, ElementOfSeq DEF ToSet

LEMMA AppendMembers ==
  ASSUME NEW S, NEW q \in Seq(S), NEW e \in S
  PROVE  ToSet(Append(q, e)) = ToSet(q) \cup {e}
<1>1. /\ Append(q, e) \in Seq(S) /\ Len(Append(q, e)) = Len(q) + 1
      /\ \A i \in 1..Len(q) : Append(q, e)[i] = q[i]
      /\ Append(q, e)[Len(q) + 1] = e
  BY AppendProperties
<1>2. Len(q) \in Nat /\ DOMAIN q = 1..Len(q) /\ DOMAIN Append(q, e) = 1..(Len(q) + 1)
  BY <1>1, LenProperties
<1>3. \A x : x \in ToSet(Append(q, e)) <=> x \in ToSet(q) \cup {e}
  <2> TAKE x
  <2>1. x \in ToSet(Append(q, e)) <=> \E i \in 1..(Len(q) + 1) : x = Append(q, e)[i]
    BY <1>2 DEF ToSet
  <2>2. x \in ToSet(q) <=> \E i \in 1..Len(q) : x = q[i]
    BY <1>2 DEF ToSet
  <2>3. \A i \in 1..(Len(q) + 1) : i \in 1..Len(q) \/ i = Len(q) + 1
    BY <1>2
  <2>4. /\ Len(q) + 1 \in 1..(Len(q) + 1)
        /\ \A i \in 1..Len(q) : i \in 1..(Len(q) + 1)
    BY <1>2
  <2> QED BY <1>1, <2>1, <2>2, <2>3, <2>4
<1> QED BY <1>3

LEMMA AppendInjection ==
  ASSUME NEW S, NEW q \in Seq(S), NEW e \in S, IsInjective(q), e \notin ToSet(q)
  PROVE  IsInjective(Append(q, e))
<1>1. /\ Append(q, e) \in Seq(S) /\ Len(Append(q, e)) = Len(q) + 1
      /\ \A i \in 1..Len(q) : Append(q, e)[i] = q[i]
      /\ Append(q, e)[Len(q) + 1] = e
  BY AppendProperties
<1>2. /\ Len(q) \in Nat /\ DOMAIN q = 1..Len(q)
      /\ DOMAIN Append(q, e) = 1..(Len(q) + 1)
  BY <1>1, LenProperties
<1>3. \A i \in 1..Len(q) : q[i] \in ToSet(q)
  BY Members
<1>4. \A i, j \in 1..Len(q) : q[i] = q[j] => i = j
  BY <1>2 DEF IsInjective
<1>5. \A i, j \in 1..(Len(q) + 1) : Append(q, e)[i] = Append(q, e)[j] => i = j
  BY <1>1, <1>2, <1>3, <1>4
<1> QED BY <1>2, <1>5 DEF IsInjective

(* What is left behind an entry of a queue without duplicates is without   *)
(* duplicates and without that entry.                                      *)
LEMMA BehindInjection ==
  ASSUME NEW S, NEW q \in Seq(S), NEW n \in 1..Len(q), IsInjective(q)
  PROVE  /\ IsInjective(AfterHead(q, n))
         /\ ToSet(AfterHead(q, n)) \subseteq ToSet(q) \ {q[n]}
         /\ \A x \in ToSet(q) : \/ x \in ToSet(AfterHead(q, n))
                                \/ \E i \in 1..n : x = q[i]
<1> DEFINE b == AfterHead(q, n)
<1>1. b \in Seq(S) /\ Len(b) = Len(q) - n /\ \A i \in 1..(Len(q) - n) : b[i] = q[i + n]
  BY Behind
<1> HIDE DEF b
<1>2. Len(q) \in Nat /\ n \in Nat /\ n <= Len(q) /\ DOMAIN q = 1..Len(q) /\ DOMAIN b = 1..(Len(q) - n)
  BY <1>1, LenProperties
<1>3. \A i, j \in 1..Len(q) : q[i] = q[j] => i = j
  BY <1>2 DEF IsInjective
<1>4. \A i \in 1..(Len(q) - n) : i + n \in 1..Len(q) /\ i + n # n
  BY <1>2
<1>5. IsInjective(b)
  <2>1. \A i, j \in 1..(Len(q) - n) : b[i] = b[j] => i = j
    BY <1>1, <1>2, <1>3, <1>4
  <2> QED BY <1>2, <2>1 DEF IsInjective
<1>6. ToSet(b) \subseteq ToSet(q) \ {q[n]}
  <2> SUFFICES ASSUME NEW x \in ToSet(b) PROVE x \in ToSet(q) /\ x # q[n]
    OBVIOUS
  <2>1. PICK i \in 1..(Len(q) - n) : x = q[i + n]
    BY <1>1, <1>2 DEF ToSet
  <2> DEFINE k == i + n
  <2>2. k \in 1..Len(q) /\ k # n
    BY <1>4
  <2>3. x = q[k]
    BY <2>1
  <2> HIDE DEF k
  <2> QED BY <2>2, <2>3, <1>3, Members
<1>7. ASSUME NEW x \in ToSet(q)
      PROVE  x \in ToSet(b) \/ \E i \in 1..n : x = q[i]
  <2>1. PICK k \in 1..Len(q) : x = q[k]
    BY Members
  <2>2. CASE k <= n
    BY <2>1, <2>2, <1>2
  <2>3. CASE k > n
    <3>1. k - n \in 1..(Len(q) - n) /\ (k - n) + n = k
      BY <2>3, <1>2
    <3>2. b[k - n] = x
      BY <3>1, <2>1, <1>1
    <3>3. b[k - n] \in ToSet(b)
      BY <3>1, <1>1, Members
    <3> QED BY <3>2, <3>3
  <2> QED BY <2>2, <2>3, <1>2
<1> QED BY <1>5, <1>6, <1>7 DEF b
-----------------------------------------------------------------------------
(* A flush sends nothing, or throws all of the queue away, or sends one    *)
(* entry after throwing away those before it.                              *)

Same(r, s) == SameSession0(r, s) /\ s.agentActive = r.agentActive /\ s.barriers = r.barriers

NothingFlushed(r) == co' = r /\ UNCHANGED <<thrown, sent, turns>>

AllThrew(r) ==
    /\ ~Blocked(r)
    /\ co' \in Closures /\ Same(r, co') /\ co'.queued = <<>> /\ co'.delivering = None
    /\ thrown \subseteq thrown' /\ thrown' \subseteq Ids /\ ToSet(r.queued) \subseteq thrown'
    /\ UNCHANGED <<sent, turns>>

OneSent(r, n) ==
    /\ ~Blocked(r)
    /\ co' \in Closures /\ Same(r, co')
    /\ co'.queued = AfterHead(r.queued, n)
    /\ co'.delivering = [id |-> r.queued[n], started |-> FALSE]
    /\ co'.delivering # None /\ co'.delivering.id = r.queued[n] /\ ~co'.delivering.started
    /\ thrown \subseteq thrown' /\ thrown' \subseteq Ids
    /\ ToSet(r.queued) \subseteq ToSet(co'.queued) \cup {r.queued[n]} \cup thrown'
    /\ sent' = Append(sent, r.queued[n])
    /\ turns' = Append(turns, r.queued[n])

LEMMA FlushCases ==
  ASSUME NEW r \in Closures, NEW bad \in SUBSET Ids, IsInjective(r.queued),
         thrown \subseteq Ids, FlushInto(r, bad)
  PROVE  \/ NothingFlushed(r)
         \/ AllThrew(r)
         \/ \E n \in 1..Len(r.queued) : OneSent(r, n)
<1> DEFINE q == r.queued
<1>1. q \in Seq(Ids) /\ Len(q) \in Nat /\ DOMAIN q = 1..Len(q) /\ ToSet(q) \subseteq Ids
  <2>1. q \in Seq(Ids) BY DEF Closures
  <2> HIDE DEF q
  <2> QED BY <2>1, LenProperties, Members
<1>2. CASE Blocked(r)
  BY <1>2 DEF FlushInto, Flush, Flushes, NothingFlushed
<1>3. CASE ~Blocked(r) /\ Sendable(r, bad) = {}
  <2>1. co' = [r EXCEPT !.queued = <<>>] /\ UNCHANGED <<sent, turns>>
    BY <1>3 DEF FlushInto, Flush, Flushes
  <2>2. co' \in Closures /\ Same(r, co') /\ co'.queued = <<>> /\ co'.delivering = r.delivering
    <3>1. <<>> \in Seq(Ids)
      BY EmptySeq
    <3> QED BY <2>1, <3>1 DEF Same, SameSession0, Closures
  <2>3. r.delivering = None
    BY <1>3 DEF Blocked
  <2>4. thrown' = thrown \cup ((ToSet(q) \ ToSet(co'.queued)) \cap bad)
    BY <1>3 DEF FlushInto
  <2>5. ToSet(co'.queued) = {}
    BY <2>2 DEF ToSet
  <2>6. ToSet(q) \subseteq bad
    BY <1>3 DEF Sendable, ToSet
  <2> QED BY <1>1, <1>3, <2>1, <2>2, <2>3, <2>4, <2>5, <2>6 DEF AllThrew
<1>4. CASE ~Blocked(r) /\ Sendable(r, bad) # {}
  <2> DEFINE n == Min(Sendable(r, bad))
             e == [id |-> q[n], started |-> FALSE]
             s == [r EXCEPT !.queued = AfterHead(q, n)]
  <2>1. n \in 1..Len(q) /\ q[n] \notin bad /\ \A i \in 1..(n - 1) : q[i] \in bad
    <3>1. Sendable(r, bad) \subseteq Nat
      BY <1>1 DEF Sendable
    <3>2. n \in Sendable(r, bad) /\ \A i \in Sendable(r, bad) : n <= i
      BY <3>1, <1>4, MinOfNats
    <3> HIDE DEF n
    <3>3. n \in 1..Len(q) /\ q[n] \notin bad
      BY <3>2, <1>1 DEF Sendable
    <3>4. ASSUME NEW i \in 1..(n - 1) PROVE q[i] \in bad
      <4>1. i \in DOMAIN q /\ ~(n <= i)
        BY <1>1, <3>3
      <4> QED BY <4>1, <3>2 DEF Sendable
    <3> QED BY <3>3, <3>4
  <2>2. /\ co' = [s EXCEPT !.delivering = e]
        /\ sent' = Append(sent, q[n]) /\ turns' = Append(turns, q[n])
        /\ thrown' = thrown \cup ((ToSet(q) \ ToSet(co'.queued)) \cap bad)
    BY <1>4 DEF FlushInto, Flush, Flushes, FirstSent, Closures
  <2> HIDE DEF n
  <2>3. q[n] \in Ids
    BY <1>1, <2>1, ElementOfSeq
  <2>4. e \in [id : Ids, started : BOOLEAN] /\ e.id = q[n] /\ ~e.started
    BY <2>3
  <2>5. e # None
    BY <2>4, DeliveryAssumption
  <2>6. AfterHead(q, n) \in Seq(Ids)
    <3> HIDE DEF q
    <3> QED BY <1>1, <2>1, Behind
  <2>7. s \in Closures /\ Same(r, s) /\ s.queued = AfterHead(q, n)
    BY <2>6, QueuedReplaced DEF Same
  <2>8. co' \in Closures /\ Same(r, co') /\ co'.queued = AfterHead(q, n) /\ co'.delivering = e
    <3>1. e \in {None} \cup [id : Ids, started : BOOLEAN]
      BY <2>4
    <3> HIDE DEF s, e, q
    <3>2. co' \in Closures /\ Same(s, co') /\ co'.queued = s.queued /\ co'.delivering = e
      BY <2>2, <2>7, <3>1 DEF Closures, Same, SameSession0
    <3> QED BY <3>2, <2>7 DEF Same, SameSession0
  <2>9. ToSet(q) \subseteq ToSet(co'.queued) \cup {q[n]} \cup thrown'
    <3> SUFFICES ASSUME NEW x \in ToSet(q), x \notin ToSet(co'.queued), x # q[n]
                 PROVE  x \in thrown'
      OBVIOUS
    <3>1. x \in ToSet(AfterHead(q, n)) \/ \E i \in 1..n : x = q[i]
      <4>1. IsInjective(q) OBVIOUS
      <4> HIDE DEF q
      <4> QED BY <1>1, <2>1, <4>1, BehindInjection
    <3>2. PICK i \in 1..n : x = q[i]
      BY <3>1, <2>8
    <3>3. i # n
      BY <3>2
    <3>4. i \in 1..(n - 1)
      BY <3>3, <2>1, <1>1
    <3>5. x \in bad
      BY <3>2, <3>4, <2>1
    <3> QED BY <3>5, <2>2
  <2>10. OneSent(r, n)
    BY <1>1, <1>4, <2>2, <2>4, <2>5, <2>8, <2>9 DEF OneSent
  <2> QED BY <2>1, <2>10
<1> QED BY <1>2, <1>3, <1>4
-----------------------------------------------------------------------------
(* The inductive invariant about results: each is fresh, waiting or sent,  *)
(* waiting once and sent once, and what was accepted is accounted for.     *)

Distinct(q, s, F) ==
    /\ IsInjective(q) /\ IsInjective(s)
    /\ ToSet(q) \cap ToSet(s) = {}
    /\ F \cap (ToSet(q) \cup ToSet(s)) = {}

Accounted(O, q, s, T) == O \subseteq ToSet(q) \cup ToSet(s) \cup T

ResultsInv == DTypeOK /\ Distinct(co.queued, sent, fresh) /\ NoResultLost

(* What a flush leaves: it moves the head of the queue to the host.        *)
FlushedFrom(r, F, O) ==
    /\ co' \in Closures /\ Same(r, co')
    /\ sent' \in Seq(Ids) /\ turns' \in Seq(Turns) /\ thrown' \subseteq Ids
    /\ Distinct(co'.queued, sent', F)
    /\ Accounted(O, co'.queued, sent', thrown')

LEMMA FlushKeeps ==
  ASSUME NEW r \in Closures, NEW bad \in SUBSET Ids, NEW F, NEW O,
         sent \in Seq(Ids), turns \in Seq(Turns), thrown \subseteq Ids,
         Distinct(r.queued, sent, F), Accounted(O, r.queued, sent, thrown),
         FlushInto(r, bad)
  PROVE  FlushedFrom(r, F, O)
<1> DEFINE q == r.queued
<1>1. q \in Seq(Ids) /\ IsInjective(q) /\ IsInjective(sent)
  BY DEF Closures, Distinct
<1>2. CASE NothingFlushed(r)
  BY <1>2 DEF NothingFlushed, FlushedFrom, Same, SameSession0
<1>3. CASE AllThrew(r)
  <2>1. ToSet(co'.queued) = {} /\ IsInjective(co'.queued)
    BY <1>3 DEF AllThrew, ToSet, IsInjective
  <2> QED BY <1>3, <2>1 DEF AllThrew, FlushedFrom, Distinct, Accounted
<1>4. ASSUME NEW n \in 1..Len(q), OneSent(r, n)
      PROVE  FlushedFrom(r, F, O)
  <2>1. q[n] \in Ids /\ q[n] \in ToSet(q) /\ q[n] \in Turns
    <3> HIDE DEF q
    <3> QED BY <1>1, ElementOfSeq, Members DEF Turns
  <2>2. /\ IsInjective(AfterHead(q, n))
        /\ ToSet(AfterHead(q, n)) \subseteq ToSet(q) \ {q[n]}
    <3> HIDE DEF q
    <3> QED BY <1>1, BehindInjection
  <2>3. q[n] \notin ToSet(sent)
    BY <2>1 DEF Distinct
  <2>4. /\ sent' \in Seq(Ids) /\ turns' \in Seq(Turns)
        /\ ToSet(sent') = ToSet(sent) \cup {q[n]} /\ IsInjective(sent')
    <3>1. sent' = Append(sent, q[n]) /\ turns' = Append(turns, q[n])
      BY <1>4 DEF OneSent
    <3> HIDE DEF q
    <3> QED BY <1>1, <2>1, <2>3, <3>1, AppendProperties, AppendMembers, AppendInjection
  <2>5. co'.queued = AfterHead(q, n)
    BY <1>4 DEF OneSent
  <2>6. Distinct(co'.queued, sent', F)
    BY <2>1, <2>2, <2>4, <2>5 DEF Distinct
  <2>7. Accounted(O, co'.queued, sent', thrown')
    <3>1. ToSet(q) \subseteq ToSet(co'.queued) \cup {q[n]} \cup thrown' /\ thrown \subseteq thrown'
      BY <1>4 DEF OneSent
    <3> QED BY <2>4, <3>1 DEF Accounted
  <2> QED BY <1>4, <2>4, <2>6, <2>7 DEF OneSent, FlushedFrom
<1> QED BY <1>1, <1>2, <1>3, <1>4, FlushCases

LEMMA ResultsInitially == DInit => ResultsInv
<1> SUFFICES ASSUME DInit PROVE ResultsInv
  OBVIOUS
<1>1. co \in Closures /\ co.queued = <<>>
  BY FreshClosure DEF DInit
<1>2. /\ ToSet(co.queued) = {} /\ ToSet(sent) = {} /\ IsInjective(co.queued) /\ IsInjective(sent)
  <2>1. sent = <<>>
    BY DEF DInit
  <2> QED BY <1>1, <2>1 DEF ToSet, IsInjective
<1>3. sent \in Seq(Ids) /\ turns \in Seq(Turns)
  BY EmptySeq DEF DInit
<1> QED BY <1>1, <1>2, <1>3 DEF DInit, ResultsInv, DTypeOK, Distinct, NoResultLost

LEMMA ResultsNext == ResultsInv /\ [DNext]_dvars => ResultsInv'
<1> SUFFICES ASSUME ResultsInv, [DNext]_dvars PROVE ResultsInv'
  OBVIOUS
<1> USE DEF ResultsInv
<1>0. co \in Closures /\ co.queued \in Seq(Ids) /\ co.generation \in Nat /\ co.barriers \in Nat
  BY DEF DTypeOK, Closures
<1>1. CASE StartSession
  <2>1. co' \in Closures /\ co'.queued = <<>>
    <3>1. co' = Fresh(co.generation + 1, TRUE) /\ co.generation + 1 \in Nat
      BY <1>0, <1>1 DEF StartSession
    <3> QED BY <3>1, FreshClosure
  <2>2. ToSet(co'.queued) = {} /\ IsInjective(co'.queued)
    BY <2>1 DEF ToSet, IsInjective
  <2> QED BY <1>1, <2>1, <2>2 DEF StartSession, DTypeOK, Distinct, NoResultLost
<1>2. CASE CloseSession
  <2>1. co' \in Closures /\ co'.queued = <<>>
    <3>1. co' = Fresh(co.generation + 1, FALSE) /\ co.generation + 1 \in Nat
      BY <1>0, <1>2 DEF CloseSession
    <3> QED BY <3>1, FreshClosure
  <2>2. ToSet(co'.queued) = {} /\ IsInjective(co'.queued)
    BY <2>1 DEF ToSet, IsInjective
  <2>3. turns' \in Seq(Turns)
    BY <1>2, EmptySeq DEF CloseSession
  <2> QED BY <1>2, <2>1, <2>2, <2>3 DEF CloseSession, DTypeOK, Distinct, NoResultLost
<1>3. ASSUME NEW id \in Ids, NEW bad \in SUBSET Ids, id \in fresh, Enqueue(id, bad)
      PROVE  ResultsInv'
  <2>1. CASE ~co.accepting
    BY <1>3, <2>1 DEF Enqueue, DTypeOK, Distinct, NoResultLost
  <2>2. CASE co.accepting
    <3> DEFINE q == Append(co.queued, id)
               r == [co EXCEPT !.queued = q]
    <3>1. /\ q \in Seq(Ids) /\ ToSet(q) = ToSet(co.queued) \cup {id} /\ IsInjective(q)
      <4>1. id \notin ToSet(co.queued) /\ IsInjective(co.queued)
        BY <1>3 DEF Distinct
      <4> QED BY <1>0, <4>1, AppendProperties, AppendMembers, AppendInjection
    <3> HIDE DEF q
    <3>2. r \in Closures /\ r.queued = q
      BY <1>0, <3>1 DEF Closures
    <3>3. FlushInto(r, bad) /\ fresh' = fresh \ {id} /\ offered' = offered \cup {id}
      BY <1>3, <2>2 DEF Enqueue, q
    <3> HIDE DEF r
    <3>4. Distinct(r.queued, sent, fresh') /\ Accounted(offered', r.queued, sent, thrown)
      BY <1>3, <3>1, <3>2, <3>3 DEF Distinct, Accounted, NoResultLost
    <3>5. FlushedFrom(r, fresh', offered')
      BY <3>2, <3>3, <3>4, FlushKeeps DEF DTypeOK
    <3> QED BY <1>3, <3>3, <3>5 DEF FlushedFrom, Enqueue, DTypeOK, NoResultLost, Accounted
  <2> QED BY <2>1, <2>2
<1>4. ASSUME co' \in Closures, co'.queued = co.queued, turns' \in Seq(Turns),
             parent' \in {None} \cup Turns, UNCHANGED <<hold, released, fresh, sent, thrown, offered>>
      PROVE  ResultsInv'
  BY <1>4 DEF DTypeOK, Distinct, NoResultLost
<1>5. CASE UserPrompts
  <2>1. User \in Turns BY DEF Turns
  <2>2. CASE UserPreflight
    <3>1. turns' = Append(turns, User) /\ turns \in Seq(Turns)
      BY <1>5, <2>2 DEF UserPrompts, DTypeOK
    <3>2. turns' \in Seq(Turns)
      BY <2>1, <3>1, AppendProperties
    <3> QED BY <1>4, <1>5, <2>2, <3>2 DEF UserPrompts, DTypeOK
  <2>3. CASE ~UserPreflight
    BY <1>0, <1>4, <1>5, <2>1, <2>3, StartedClosure DEF UserPrompts, DTypeOK
  <2> QED BY <2>2, <2>3
<1>6. CASE TurnStarts
  <2>1. turns \in Seq(Turns) /\ turns # <<>>
    BY <1>6 DEF TurnStarts, DTypeOK
  <2>2. turns' \in Seq(Turns) /\ parent' \in Turns
    BY <1>6, <2>1, HeadTailProperties DEF TurnStarts
  <2> QED BY <1>0, <1>4, <1>6, <2>2, StartedClosure DEF TurnStarts
<1>7. CASE TurnDropped
  <2>1. turns \in Seq(Turns) /\ turns # <<>>
    BY <1>7 DEF TurnDropped, DTypeOK
  <2>2. turns' \in Seq(Turns)
    BY <1>7, <2>1, HeadTailProperties DEF TurnDropped
  <2> QED BY <1>0, <1>4, <1>7, <2>2 DEF TurnDropped, DTypeOK
<1>8. ASSUME NEW bad \in SUBSET Ids, TurnSettles(bad)
      PROVE  ResultsInv'
  <2>1. Afterwards(co) \in Closures /\ Afterwards(co).queued = co.queued
    BY <1>0, AfterwardsClosure
  <2>2. FlushInto(Afterwards(co), bad)
    BY <1>8 DEF TurnSettles
  <2>3. FlushedFrom(Afterwards(co), fresh, offered)
    <3>1. Distinct(Afterwards(co).queued, sent, fresh) /\ Accounted(offered, Afterwards(co).queued, sent, thrown)
      BY <2>1 DEF NoResultLost, Accounted
    <3> QED BY <2>1, <2>2, <3>1, FlushKeeps DEF DTypeOK
  <2> QED BY <1>8, <2>3 DEF TurnSettles, FlushedFrom, DTypeOK, NoResultLost, Accounted
<1>9. ASSUME NEW c \in Commands, Hold(c)
      PROVE  ResultsInv'
  <2>1. co' \in Closures /\ co'.queued = co.queued
    BY <1>0, <1>9 DEF Hold, Closures
  <2>2. hold' \in [Commands -> {None} \cup Nat]
    BY <1>0, <1>9 DEF Hold, DTypeOK
  <2> QED BY <1>9, <2>1, <2>2 DEF Hold, DTypeOK, NoResultLost
<1>10. ASSUME NEW c \in Commands, NEW bad \in SUBSET Ids, ReleaseHold(c, bad)
       PROVE  ResultsInv'
  <2>1. CASE SameSession(co, hold[c])
    <3> DEFINE r == [co EXCEPT !.barriers = IF @ = 0 THEN 0 ELSE @ - 1]
    <3>1. r \in Closures /\ r.queued = co.queued
      BY <1>0 DEF Closures
    <3>2. FlushInto(r, bad)
      BY <1>10, <2>1 DEF ReleaseHold
    <3> HIDE DEF r
    <3>3. Distinct(r.queued, sent, fresh) /\ Accounted(offered, r.queued, sent, thrown)
      BY <3>1 DEF NoResultLost, Accounted
    <3>4. FlushedFrom(r, fresh, offered)
      BY <3>1, <3>2, <3>3, FlushKeeps DEF DTypeOK
    <3> QED BY <1>10, <3>4 DEF ReleaseHold, FlushedFrom, DTypeOK, NoResultLost, Accounted
  <2>2. CASE ~SameSession(co, hold[c])
    BY <1>10, <2>2 DEF ReleaseHold, DTypeOK, NoResultLost
  <2> QED BY <2>1, <2>2
<1>11. CASE UNCHANGED dvars
  BY <1>11 DEF dvars, DTypeOK, Distinct, NoResultLost
<1> QED BY <1>1, <1>2, <1>3, <1>5, <1>6, <1>7, <1>8, <1>9, <1>10, <1>11 DEF DNext, Host, Finishes

(* The inductive invariant holds in every reachable state.                 *)
THEOREM ResultsInvariant == DSpec => []ResultsInv
<1> QED BY ResultsInitially, ResultsNext, PTL DEF DSpec

(* The coordinator's types (result-delivery.ts).                           *)
THEOREM DeliveryTypes == DSpec => []DTypeOK
<1>1. ResultsInv => DTypeOK BY DEF ResultsInv
<1> QED BY ResultsInvariant, <1>1, PTL

(* What the session accepted waits, was sent or failed to be sent,         *)
(* whatever sends throw and whichever turns are dropped (enqueue, flush).  *)
THEOREM AcceptedIsNotLost == DSpec => []NoResultLost
<1>1. ResultsInv => NoResultLost BY DEF ResultsInv
<1> QED BY ResultsInvariant, <1>1, PTL

-----------------------------------------------------------------------------
(* The refinement of SerialDelivery: every step of the coordinator is one  *)
(* of the abstract steps, or none of them is visible.                      *)

TurnOf(r) == IF r.delivering = None THEN None ELSE r.delivering.id

SerialStep == [Serial!SNext]_(Serial!abstract)

(* A flush of r, which has the queue and the turn of co, hands over, gives *)
(* up or does nothing.                                                     *)
LEMMA FlushIsSerial ==
  ASSUME ResultsInv, NEW r \in Closures, NEW bad \in SUBSET Ids,
         r.queued = co.queued, r.delivering = co.delivering, FlushInto(r, bad)
  PROVE  SerialStep
<1>1. IsInjective(r.queued) /\ thrown \subseteq Ids
  BY DEF ResultsInv, Distinct, DTypeOK
<1>2. CASE NothingFlushed(r)
  BY <1>2 DEF NothingFlushed, SerialStep, Serial!abstract
<1>3. CASE AllThrew(r)
  <2>1. co.delivering = None /\ co'.delivering = None /\ co'.queued = <<>> /\ sent' = sent
    BY <1>3 DEF AllThrew, Blocked
  <2> QED BY <2>1 DEF SerialStep, Serial!SNext, Serial!GiveUpAll
<1>4. ASSUME NEW n \in 1..Len(r.queued), OneSent(r, n)
      PROVE  SerialStep
  <2>1. /\ co.delivering = None /\ co'.delivering # None
        /\ co'.delivering.id = co.queued[n]
        /\ co'.queued = SubSeq(co.queued, n + 1, Len(co.queued))
        /\ sent' = Append(sent, co.queued[n])
    BY <1>4 DEF OneSent, Blocked, AfterHead
  <2>2. Serial!HandOver(n)
    BY <2>1, <1>4 DEF Serial!HandOver
  <2> QED BY <2>2, <1>4 DEF SerialStep, Serial!SNext
<1> QED BY <1>1, <1>2, <1>3, <1>4, FlushCases

LEMMA ArrivalIsSerial ==
  ASSUME ResultsInv, NEW id \in Ids, NEW bad \in SUBSET Ids, id \in fresh, Enqueue(id, bad)
  PROVE  SerialStep
<1>1. co \in Closures /\ co.queued \in Seq(Ids) /\ thrown \subseteq Ids
  BY DEF ResultsInv, DTypeOK, Closures
<1>2. CASE ~co.accepting
  BY <1>2 DEF Enqueue, SerialStep, Serial!abstract
<1>3. CASE co.accepting
  <2> DEFINE q == Append(co.queued, id)
             r == [co EXCEPT !.queued = q]
  <2>1. id \notin ToSet(co.queued) /\ IsInjective(co.queued)
    BY DEF ResultsInv, Distinct
  <2>2. q \in Seq(Ids) /\ IsInjective(q)
    BY <1>1, <2>1, AppendProperties, AppendInjection
  <2>3. id \notin {co.queued[i] : i \in DOMAIN co.queued}
    BY <2>1 DEF ToSet
  <2> HIDE DEF q
  <2>4. r \in Closures /\ r.queued = q /\ r.delivering = co.delivering
    BY <1>1, <2>2 DEF Closures
  <2>5. FlushInto(r, bad)
    BY <1>3 DEF Enqueue, q
  <2> HIDE DEF r
  <2>6. CASE NothingFlushed(r)
    <3>1. co'.queued = Append(co.queued, id) /\ co'.delivering = co.delivering /\ sent' = sent
      BY <2>4, <2>6 DEF NothingFlushed, q
    <3>2. Serial!Accept(id)
      BY <2>3, <3>1 DEF Serial!Accept
    <3> QED BY <3>2 DEF SerialStep, Serial!SNext
  <2>7. CASE AllThrew(r)
    <3>1. co.delivering = None /\ co'.delivering = None /\ co'.queued = <<>> /\ sent' = sent
      BY <2>4, <2>7 DEF AllThrew, Blocked
    <3>2. Serial!AcceptAndHandOver(id)
      BY <2>3, <3>1 DEF Serial!AcceptAndHandOver
    <3> QED BY <3>2 DEF SerialStep, Serial!SNext
  <2>8. ASSUME NEW n \in 1..Len(r.queued), OneSent(r, n)
        PROVE  SerialStep
    <3>1. /\ co.delivering = None /\ co'.delivering # None
          /\ co'.delivering.id = q[n]
          /\ co'.queued = SubSeq(q, n + 1, Len(q))
          /\ sent' = Append(sent, q[n]) /\ n \in 1..Len(q)
      BY <2>4, <2>8 DEF OneSent, Blocked, AfterHead
    <3>2. Serial!AcceptAndHandOver(id)
      BY <2>3, <3>1 DEF Serial!AcceptAndHandOver, q
    <3> QED BY <3>2 DEF SerialStep, Serial!SNext
  <2>9. IsInjective(r.queued)
    BY <2>2, <2>4
  <2> QED BY <1>1, <2>4, <2>5, <2>6, <2>7, <2>8, <2>9, FlushCases
<1> QED BY <1>2, <1>3

LEMMA EndOfTurnIsSerial ==
  ASSUME ResultsInv, NEW bad \in SUBSET Ids, TurnSettles(bad)
  PROVE  SerialStep
<1> DEFINE r == Afterwards(co)
<1>1. co \in Closures /\ thrown \subseteq Ids /\ IsInjective(co.queued)
  BY DEF ResultsInv, DTypeOK, Distinct
<1>2. /\ r \in Closures /\ r.queued = co.queued
      /\ r.delivering = IF Settles(co) THEN None ELSE co.delivering
  BY <1>1, AfterwardsClosure
<1>3. FlushInto(r, bad)
  BY DEF TurnSettles
<1> HIDE DEF r
<1>4. CASE ~Settles(co)
  BY <1>2, <1>3, <1>4, FlushIsSerial
<1>5. CASE Settles(co)
  <2>1. co.delivering # None /\ co.delivering.id # None /\ r.delivering = None
    BY <1>1, <1>2, <1>5, DeliveryAssumption DEF Settles, Closures
  <2>2. CASE NothingFlushed(r)
    <3>1. co'.queued = co.queued /\ co'.delivering = None /\ sent' = sent
      BY <1>2, <2>1, <2>2 DEF NothingFlushed
    <3>2. Serial!CloseTurn
      BY <2>1, <3>1 DEF Serial!CloseTurn
    <3> QED BY <3>2 DEF SerialStep, Serial!SNext
  <2>3. CASE AllThrew(r)
    <3>1. co'.delivering = None /\ co'.queued = <<>> /\ sent' = sent
      BY <2>3 DEF AllThrew
    <3>2. Serial!CloseAndHandOver
      BY <2>1, <3>1 DEF Serial!CloseAndHandOver
    <3> QED BY <3>2 DEF SerialStep, Serial!SNext
  <2>4. ASSUME NEW n \in 1..Len(r.queued), OneSent(r, n)
        PROVE  SerialStep
    <3>1. /\ co'.delivering # None
          /\ co'.delivering.id = co.queued[n]
          /\ co'.queued = SubSeq(co.queued, n + 1, Len(co.queued))
          /\ sent' = Append(sent, co.queued[n]) /\ n \in 1..Len(co.queued)
      BY <1>2, <2>4 DEF OneSent, AfterHead
    <3>2. Serial!CloseAndHandOver
      BY <2>1, <3>1 DEF Serial!CloseAndHandOver
    <3> QED BY <3>2 DEF SerialStep, Serial!SNext
  <2>5. IsInjective(r.queued)
    BY <1>1, <1>2
  <2> QED BY <1>1, <1>2, <1>3, <2>2, <2>3, <2>4, <2>5, FlushCases
<1> QED BY <1>4, <1>5

LEMMA StepIsSerial == ResultsInv /\ [DNext]_dvars => SerialStep
<1> SUFFICES ASSUME ResultsInv, [DNext]_dvars PROVE SerialStep
  OBVIOUS
<1>0. co \in Closures /\ co.generation \in Nat
  BY DEF ResultsInv, DTypeOK, Closures
<1>1. CASE StartSession \/ CloseSession
  <2>1. co'.queued = <<>> /\ co'.delivering = None /\ sent' = sent
    BY <1>1 DEF StartSession, CloseSession, Fresh
  <2> QED BY <2>1 DEF SerialStep, Serial!SNext, Serial!NewSession
<1>2. ASSUME NEW id \in Ids, Finishes(id) PROVE SerialStep
  BY <1>2, ArrivalIsSerial DEF Finishes
<1>3. ASSUME co'.queued = co.queued, TurnOf(co') = TurnOf(co), sent' = sent
      PROVE  SerialStep
  BY <1>3 DEF SerialStep, Serial!abstract, TurnOf
<1>4. TurnOf(AgentStarted(co)) = TurnOf(co) /\ AgentStarted(co).queued = co.queued
  BY <1>0, StartedClosure DEF TurnOf
<1>5. CASE UserPrompts \/ TurnStarts
  BY <1>3, <1>4, <1>5 DEF UserPrompts, TurnStarts
<1>6. CASE TurnDropped \/ UNCHANGED dvars
  BY <1>3, <1>6 DEF TurnDropped, dvars
<1>7. ASSUME NEW bad \in SUBSET Ids, TurnSettles(bad) PROVE SerialStep
  BY <1>7, EndOfTurnIsSerial
<1>8. ASSUME NEW c \in Commands, Hold(c) PROVE SerialStep
  <2>1. co'.queued = co.queued /\ co'.delivering = co.delivering /\ sent' = sent
    BY <1>0, <1>8 DEF Hold, Closures
  <2> QED BY <1>3, <2>1 DEF TurnOf
<1>9. ASSUME NEW c \in Commands, NEW bad \in SUBSET Ids, ReleaseHold(c, bad) PROVE SerialStep
  <2>1. CASE SameSession(co, hold[c])
    <3> DEFINE r == [co EXCEPT !.barriers = IF @ = 0 THEN 0 ELSE @ - 1]
    <3>1. r \in Closures /\ r.queued = co.queued /\ r.delivering = co.delivering
      BY <1>0 DEF Closures
    <3>2. FlushInto(r, bad)
      BY <1>9, <2>1 DEF ReleaseHold
    <3> HIDE DEF r
    <3> QED BY <3>1, <3>2, FlushIsSerial
  <2>2. CASE ~SameSession(co, hold[c])
    BY <1>3, <1>9, <2>2 DEF ReleaseHold
  <2> QED BY <2>1, <2>2
<1> QED BY <1>1, <1>2, <1>5, <1>6, <1>7, <1>8, <1>9 DEF DNext, Host

(* The coordinator implements SerialDelivery: accepted results are handed  *)
(* over in order, one turn at a time, each at most once.                   *)
THEOREM DeliveryIsSerial == DSpec => ImplementsSerialDelivery
<1>1. DInit => Serial!SInit
  <2> SUFFICES ASSUME DInit PROVE Serial!SInit
    OBVIOUS
  <2>1. co.queued = <<>> /\ co.delivering = None /\ sent = <<>>
    BY DEF DInit, Fresh
  <2> QED BY <2>1 DEF Serial!SInit
<1>2. ResultsInv /\ [DNext]_dvars => [Serial!SNext]_(Serial!abstract)
  BY StepIsSerial DEF SerialStep
<1> QED BY <1>1, <1>2, ResultsInvariant, PTL DEF DSpec, ImplementsSerialDelivery, Serial!SSpec

-----------------------------------------------------------------------------
(* The inductive invariant about holds: the barrier counts the commands    *)
(* that hold the open session, and no hold is of a session to come.        *)

HoldOK(r, h, done) ==
    /\ \A c \in Commands : h[c] # None => h[c] <= r.generation
    /\ \A c \in done : h[c] # None
    /\ ~r.accepting => \A c \in Commands : h[c] # r.generation
    /\ LET held == {c \in Commands \ done : h[c] = r.generation} IN
       IsFiniteSet(held) /\ r.barriers = Cardinality(held)

HoldInv == HoldOK(co, hold, released)

LEMMA HoldsInitially == DInit => HoldInv
<1> SUFFICES ASSUME DInit PROVE HoldInv
  OBVIOUS
<1>1. co.generation = 0 /\ co.barriers = 0 /\ \A c \in Commands : hold[c] = None
  BY DEF DInit, Fresh
<1>2. None # 0
  BY DeliveryAssumption
<1>3. {c \in Commands \ released : hold[c] = co.generation} = {}
  BY <1>1, <1>2
<1>4. released = {}
  BY DEF DInit
<1> QED BY <1>1, <1>2, <1>3, <1>4, FS_EmptySet DEF HoldInv, HoldOK

LEMMA HoldsNext == ResultsInv /\ HoldInv /\ [DNext]_dvars => HoldInv'
<1> SUFFICES ASSUME ResultsInv, HoldInv, [DNext]_dvars PROVE HoldInv'
  OBVIOUS
<1>0. /\ co \in Closures /\ co.generation \in Nat /\ co.barriers \in Nat
      /\ hold \in [Commands -> {None} \cup Nat] /\ released \subseteq Commands
      /\ thrown \subseteq Ids /\ IsInjective(co.queued) /\ co.queued \in Seq(Ids)
  BY DEF ResultsInv, DTypeOK, Closures, Distinct
<1>1. CASE StartSession \/ CloseSession
  <2>1. /\ co'.generation = co.generation + 1 /\ co'.barriers = 0
        /\ hold' = hold /\ released' = released
    BY <1>1 DEF StartSession, CloseSession, Fresh
  <2>2. \A c \in Commands : hold[c] # None => hold[c] \in Nat /\ hold[c] <= co.generation
    BY <1>0 DEF HoldInv, HoldOK
  <2>3. \A c \in Commands : hold'[c] # co'.generation
    <3> SUFFICES ASSUME NEW c \in Commands, hold[c] = co.generation + 1 PROVE FALSE
      BY <2>1
    <3>1. hold[c] # None
      BY <1>0, DeliveryAssumption
    <3> QED BY <1>0, <2>2, <3>1
  <2>4. {c \in Commands \ released' : hold'[c] = co'.generation} = {}
    BY <2>3
  <2>5. \A c \in Commands : hold'[c] # None => hold'[c] <= co'.generation
    BY <1>0, <2>1, <2>2
  <2> QED BY <2>1, <2>3, <2>4, <2>5, FS_EmptySet DEF HoldInv, HoldOK
<1>2. ASSUME NEW r \in Closures, Same(co, r), NEW bad \in SUBSET Ids, FlushInto(r, bad),
             r.queued \in Seq(Ids), IsInjective(r.queued)
      PROVE  co'.generation = co.generation /\ co'.accepting = co.accepting /\ co'.barriers = co.barriers
  <2>1. Same(r, co')
    BY <1>0, <1>2, FlushCases DEF NothingFlushed, AllThrew, OneSent, Same, SameSession0
  <2> QED BY <1>2, <2>1 DEF Same, SameSession0
<1>3. ASSUME co'.generation = co.generation, co'.accepting = co.accepting, co'.barriers = co.barriers,
             hold' = hold, released' = released
      PROVE  HoldInv'
  BY <1>3 DEF HoldInv, HoldOK
<1>4. ASSUME NEW id \in Ids, NEW bad \in SUBSET Ids, id \in fresh, Enqueue(id, bad)
      PROVE  HoldInv'
  <2>1. CASE ~co.accepting
    BY <1>3, <1>4, <2>1 DEF Enqueue
  <2>2. CASE co.accepting
    <3> DEFINE q == Append(co.queued, id)
               r == [co EXCEPT !.queued = q]
    <3>1. q \in Seq(Ids) /\ IsInjective(q)
      <4>1. id \notin ToSet(co.queued)
        BY <1>4 DEF ResultsInv, Distinct
      <4> QED BY <1>0, <4>1, AppendProperties, AppendInjection
    <3>2. FlushInto(r, bad)
      BY <1>4, <2>2 DEF Enqueue
    <3> HIDE DEF q
    <3>3. r \in Closures /\ r.queued = q /\ Same(co, r)
      BY <1>0, <3>1 DEF Closures, Same, SameSession0
    <3> HIDE DEF r
    <3> QED BY <1>2, <1>3, <1>4, <3>1, <3>2, <3>3 DEF Enqueue
  <2> QED BY <2>1, <2>2
<1>5. CASE UserPrompts \/ TurnStarts \/ TurnDropped \/ UNCHANGED dvars
  BY <1>0, <1>3, <1>5, StartedClosure DEF UserPrompts, TurnStarts, TurnDropped, dvars, SameSession0
<1>6. ASSUME NEW bad \in SUBSET Ids, TurnSettles(bad)
      PROVE  HoldInv'
  <2>1. /\ Afterwards(co) \in Closures /\ SameSession0(co, Afterwards(co))
        /\ Afterwards(co).queued = co.queued /\ Afterwards(co).barriers = co.barriers
    BY <1>0, AfterwardsClosure
  <2>2. FlushInto(Afterwards(co), bad)
    BY <1>6 DEF TurnSettles
  <2>3. SameSession0(Afterwards(co), co') /\ co'.barriers = Afterwards(co).barriers
    BY <1>0, <2>1, <2>2, FlushCases DEF NothingFlushed, AllThrew, OneSent, Same, SameSession0
  <2> QED BY <1>3, <1>6, <2>1, <2>3 DEF SameSession0, TurnSettles
<1>7. ASSUME NEW c \in Commands, Hold(c)
      PROVE  HoldInv'
  <2> DEFINE held == {d \in Commands \ released : hold[d] = co.generation}
             next == {d \in Commands \ released' : hold'[d] = co'.generation}
  <2>1. /\ co'.generation = co.generation /\ co'.accepting /\ co'.barriers = co.barriers + 1
        /\ hold' = [hold EXCEPT ![c] = co.generation] /\ released' = released /\ hold[c] = None
    BY <1>0, <1>7 DEF Hold, Closures
  <2>2. c \notin released /\ c \notin held
    BY <1>0, <2>1, DeliveryAssumption DEF HoldInv, HoldOK
  <2>3. next = held \cup {c}
    BY <1>0, <2>1, <2>2
  <2>4. IsFiniteSet(held) /\ co.barriers = Cardinality(held)
    BY DEF HoldInv, HoldOK
  <2>5. IsFiniteSet(next) /\ co'.barriers = Cardinality(next)
    BY <2>1, <2>2, <2>3, <2>4, FS_AddElement
  <2>6. /\ \A d \in Commands : hold'[d] # None => hold'[d] <= co'.generation
        /\ \A d \in released' : hold'[d] # None
    BY <1>0, <2>1, <2>2 DEF HoldInv, HoldOK
  <2> QED BY <2>1, <2>5, <2>6 DEF HoldInv, HoldOK
<1>8. ASSUME NEW c \in Commands, NEW bad \in SUBSET Ids, ReleaseHold(c, bad)
      PROVE  HoldInv'
  <2> DEFINE held == {d \in Commands \ released : hold[d] = co.generation}
             next == {d \in Commands \ released' : hold'[d] = co'.generation}
  <2>0. /\ hold[c] # None /\ c \notin released /\ released' = released \cup {c} /\ hold' = hold
        /\ IsFiniteSet(held) /\ co.barriers = Cardinality(held)
    BY <1>8 DEF ReleaseHold, HoldInv, HoldOK
  <2>1. CASE SameSession(co, hold[c])
    <3> DEFINE b == IF co.barriers = 0 THEN 0 ELSE co.barriers - 1
               r == [co EXCEPT !.barriers = b]
    <3>1. c \in held /\ co.accepting
      BY <2>0, <2>1 DEF SameSession
    <3>2. IsFiniteSet(held \ {c}) /\ Cardinality(held \ {c}) = co.barriers - 1
      <4> HIDE DEF held
      <4> QED BY <2>0, <3>1, FS_RemoveElement
    <3>3. Cardinality(held \ {c}) \in Nat
      BY <3>2, FS_CardinalityType
    <3>4. b = Cardinality(held \ {c})
      BY <1>0, <3>2, <3>3
    <3>5. FlushInto(r, bad)
      BY <1>0, <1>8, <2>1 DEF ReleaseHold, Closures
    <3> HIDE DEF b
    <3>6. /\ r \in Closures /\ r.barriers = b /\ SameSession0(co, r) /\ r.queued = co.queued
      BY <1>0, <3>3, <3>4 DEF Closures, SameSession0
    <3> HIDE DEF r
    <3>7. SameSession0(r, co') /\ co'.barriers = r.barriers
      BY <1>0, <3>5, <3>6, FlushCases DEF NothingFlushed, AllThrew, OneSent, Same, SameSession0
    <3>8. next = held \ {c}
      BY <2>0, <3>6, <3>7 DEF SameSession0
    <3> QED BY <2>0, <3>1, <3>2, <3>4, <3>6, <3>7, <3>8 DEF SameSession0, HoldInv, HoldOK
  <2>2. CASE ~SameSession(co, hold[c])
    <3>1. co' = co
      BY <1>8, <2>2 DEF ReleaseHold
    <3>2. c \notin held
      BY <2>2 DEF SameSession, HoldInv, HoldOK
    <3>3. next = held
      BY <2>0, <3>1, <3>2
    <3> QED BY <2>0, <3>1, <3>3 DEF HoldInv, HoldOK
  <2> QED BY <2>1, <2>2
<1> QED BY <1>1, <1>4, <1>5, <1>6, <1>7, <1>8 DEF DNext, Host, Finishes

-----------------------------------------------------------------------------
(* The inductive invariant about turns, when no user turn waits: the host  *)
(* has at most the turn of the result being delivered, and the coordinator *)
(* knows whether a turn runs.                                              *)

TurnOK(r, p, asked) ==
    /\ p # None <=> r.agentActive
    /\ ~r.accepting => p = None /\ asked = <<>>
    /\ asked # <<>> => /\ p = None /\ r.delivering # None /\ ~r.delivering.started
                      /\ asked = <<r.delivering.id>>
    /\ p \in Ids => r.delivering # None /\ r.delivering.started /\ r.delivering.id = p

TurnInv == TurnOK(co, parent, turns)

LEMMA FlushKeepsTurns ==
  ASSUME NEW r \in Closures, NEW bad \in SUBSET Ids, NEW p, thrown \subseteq Ids,
         IsInjective(r.queued), TurnOK(r, p, turns), FlushInto(r, bad)
  PROVE  TurnOK(co', p, turns')
<1>1. CASE NothingFlushed(r)
  BY <1>1 DEF NothingFlushed, TurnOK
<1>2. None \notin Ids
  BY DeliveryAssumption
<1>3. CASE AllThrew(r)
  BY <1>2, <1>3 DEF AllThrew, Blocked, TurnOK, Same, SameSession0
<1>4. ASSUME NEW n \in 1..Len(r.queued), OneSent(r, n)
      PROVE  TurnOK(co', p, turns')
  <2>1. /\ r.accepting /\ ~r.agentActive /\ r.delivering = None
        /\ co'.accepting /\ ~co'.agentActive
    BY <1>4 DEF OneSent, Blocked, Same, SameSession0, Closures
  <2>2. p = None /\ turns = <<>>
    BY <2>1 DEF TurnOK
  <2>3. turns' = <<co'.delivering.id>>
    BY <1>4, <2>2 DEF OneSent
  <2> QED BY <1>2, <1>4, <2>1, <2>2, <2>3 DEF OneSent, TurnOK
<1> QED BY <1>1, <1>3, <1>4, FlushCases

LEMMA TurnsNext ==
  ASSUME UserPreflight = FALSE, ResultsInv, TurnInv, [DNext]_dvars
  PROVE  TurnInv'
<1>0. /\ co \in Closures /\ thrown \subseteq Ids /\ IsInjective(co.queued) /\ co.queued \in Seq(Ids)
      /\ turns \in Seq(Turns)
  BY DEF ResultsInv, DTypeOK, Closures, Distinct
<1>1. CASE StartSession
  <2>1. /\ ~co'.agentActive /\ co'.accepting /\ parent' = parent /\ turns' = turns /\ ~co.accepting
    BY <1>1 DEF StartSession, Fresh
  <2> QED BY <2>1, DeliveryAssumption DEF TurnInv, TurnOK
<1>2. CASE CloseSession
  <2>1. /\ ~co'.agentActive /\ parent' = None /\ turns' = <<>>
    BY <1>2 DEF CloseSession, Fresh
  <2> QED BY <2>1, DeliveryAssumption DEF TurnInv, TurnOK
<1>3. ASSUME NEW id \in Ids, NEW bad \in SUBSET Ids, id \in fresh, Enqueue(id, bad)
      PROVE  TurnInv'
  <2>1. CASE ~co.accepting
    BY <1>3, <2>1 DEF Enqueue, TurnInv
  <2>2. CASE co.accepting
    <3> DEFINE q == Append(co.queued, id)
               r == [co EXCEPT !.queued = q]
    <3>1. q \in Seq(Ids) /\ IsInjective(q)
      <4>1. id \notin ToSet(co.queued)
        BY <1>3 DEF ResultsInv, Distinct
      <4> QED BY <1>0, <4>1, AppendProperties, AppendInjection
    <3>2. FlushInto(r, bad) /\ parent' = parent
      BY <1>3, <2>2 DEF Enqueue
    <3> HIDE DEF q
    <3>3. /\ r \in Closures /\ r.queued = q /\ r.accepting = co.accepting
          /\ r.agentActive = co.agentActive /\ r.delivering = co.delivering
      BY <1>0, <3>1 DEF Closures
    <3> HIDE DEF r
    <3>4. TurnOK(r, parent, turns)
      BY <3>3 DEF TurnInv, TurnOK
    <3> QED BY <1>0, <3>1, <3>2, <3>3, <3>4, FlushKeepsTurns DEF TurnInv
  <2> QED BY <2>1, <2>2
<1>4. CASE UserPrompts
  <2>1. /\ turns = <<>> /\ turns' = turns /\ parent' = User /\ co' = AgentStarted(co) /\ co.accepting
    BY <1>4 DEF UserPrompts
  <2>2. User # None /\ User \notin Ids
    BY DeliveryAssumption
  <2>3. co'.agentActive /\ co'.accepting
    BY <1>0, <2>1, StartedClosure DEF SameSession0
  <2> QED BY <2>1, <2>2, <2>3 DEF TurnInv, TurnOK
<1>5. CASE TurnStarts
  <2>1. /\ turns # <<>> /\ parent' = Head(turns) /\ turns' = Tail(turns) /\ co' = AgentStarted(co)
    BY <1>5 DEF TurnStarts
  <2>2. /\ co.delivering # None /\ turns = <<co.delivering.id>> /\ co.accepting
    BY <2>1 DEF TurnInv, TurnOK
  <2>3. parent' = co.delivering.id /\ turns' = <<>>
    BY <2>1, <2>2
  <2>4. parent' # None
    BY <1>0, <2>2, <2>3, DeliveryAssumption DEF Closures
  <2>5. /\ co'.agentActive /\ co'.accepting
        /\ co'.delivering # None /\ co'.delivering.id = co.delivering.id /\ co'.delivering.started
    BY <1>0, <2>1, <2>2, StartedClosure DEF SameSession0
  <2> QED BY <2>3, <2>4, <2>5 DEF TurnInv, TurnOK
<1>6. CASE TurnDropped
  <2>1. /\ turns # <<>> /\ parent' = parent /\ turns' = Tail(turns) /\ co' = co
    BY <1>6 DEF TurnDropped
  <2>2. turns = <<co.delivering.id>>
    BY <2>1 DEF TurnInv, TurnOK
  <2>3. turns' = <<>>
    BY <2>1, <2>2
  <2> QED BY <2>1, <2>3 DEF TurnInv, TurnOK
<1>7. ASSUME NEW bad \in SUBSET Ids, TurnSettles(bad)
      PROVE  TurnInv'
  <2> DEFINE r == Afterwards(co)
  <2>1. /\ r \in Closures /\ SameSession0(co, r) /\ ~r.agentActive
        /\ r.queued = co.queued
    BY <1>0, AfterwardsClosure
  <2>2. FlushInto(r, bad) /\ parent # None /\ parent' = None
    BY <1>7 DEF TurnSettles
  <2> HIDE DEF r
  <2>3. TurnOK(r, None, turns)
    BY <2>1, <2>2, DeliveryAssumption DEF TurnInv, TurnOK
  <2> QED BY <1>0, <2>1, <2>2, <2>3, FlushKeepsTurns DEF TurnInv
<1>8. ASSUME NEW c \in Commands, Hold(c)
      PROVE  TurnInv'
  <2>1. /\ co'.agentActive = co.agentActive /\ co'.accepting = co.accepting
        /\ co'.delivering = co.delivering /\ parent' = parent /\ turns' = turns
    BY <1>0, <1>8 DEF Hold, Closures
  <2> QED BY <2>1 DEF TurnInv, TurnOK
<1>9. ASSUME NEW c \in Commands, NEW bad \in SUBSET Ids, ReleaseHold(c, bad)
      PROVE  TurnInv'
  <2>1. CASE SameSession(co, hold[c])
    <3> DEFINE r == [co EXCEPT !.barriers = IF @ = 0 THEN 0 ELSE @ - 1]
    <3>1. /\ r \in Closures /\ SameSession0(co, r) /\ r.queued = co.queued
          /\ r.agentActive = co.agentActive /\ r.delivering = co.delivering
      BY <1>0, SMTT(30) DEF Closures, SameSession0
    <3>2. FlushInto(r, bad) /\ parent' = parent
      BY <1>9, <2>1 DEF ReleaseHold
    <3> HIDE DEF r
    <3>3. TurnOK(r, parent, turns)
      BY <3>1 DEF TurnInv, TurnOK, SameSession0
    <3> QED BY <1>0, <3>1, <3>2, <3>3, FlushKeepsTurns DEF TurnInv
  <2>2. CASE ~SameSession(co, hold[c])
    BY <1>9, <2>2 DEF ReleaseHold, TurnInv
  <2> QED BY <2>1, <2>2
<1>10. CASE UNCHANGED dvars
  BY <1>10 DEF dvars, TurnInv
<1> QED BY <1>1, <1>2, <1>3, <1>4, <1>5, <1>6, <1>7, <1>8, <1>9, <1>10 DEF DNext, Host, Finishes

LEMMA TurnsInitially == DInit => TurnInv
<1> SUFFICES ASSUME DInit PROVE TurnInv
  OBVIOUS
<1>1. ~co.agentActive /\ co.delivering = None
  BY DEF DInit, Fresh
<1>2. parent = None /\ turns = <<>>
  BY DEF DInit
<1> QED BY <1>1, <1>2, DeliveryAssumption DEF TurnInv, TurnOK

(* The three parts together.                                               *)
DeliveryInv == ResultsInv /\ HoldInv /\ TurnInv

THEOREM DeliveryInvariant ==
  ASSUME UserPreflight = FALSE
  PROVE  DSpec => []DeliveryInv
<1>1. DInit => DeliveryInv
  BY ResultsInitially, HoldsInitially, TurnsInitially DEF DeliveryInv
<1>2. DeliveryInv /\ [DNext]_dvars => DeliveryInv'
  BY ResultsNext, HoldsNext, TurnsNext DEF DeliveryInv
<1> QED BY <1>1, <1>2, PTL DEF DSpec

LEMMA AtMostOneTurn == ResultsInv /\ TurnInv => OneTurnAtATime
<1> SUFFICES ASSUME ResultsInv, TurnInv PROVE OneTurnAtATime
  OBVIOUS
<1>1. PICK x : OpenTurns \subseteq {x}
  <2>1. CASE turns = <<>>
    <3>1. ToSet(turns) = {}
      BY <2>1 DEF ToSet
    <3> QED BY <3>1 DEF OpenTurns
  <2>2. CASE turns # <<>>
    <3>1. parent = None /\ turns = <<co.delivering.id>> /\ None \notin Ids
      BY <2>2, DeliveryAssumption DEF TurnInv, TurnOK
    <3>2. ToSet(turns) = {co.delivering.id}
      BY <3>1 DEF ToSet
    <3> QED BY <3>1, <3>2 DEF OpenTurns
  <2> QED BY <2>1, <2>2
<1>2. Cardinality(OpenTurns) <= 1
  <2>1. IsFiniteSet({x}) /\ Cardinality({x}) = 1
    BY FS_Singleton
  <2>2. Cardinality(OpenTurns) <= Cardinality({x})
    BY <1>1, <2>1, FS_Subset
  <2> QED BY <2>1, <2>2
<1> QED BY <1>2 DEF OneTurnAtATime, ResultsInv, Distinct

(* One model turn per result: never are two results with the host, and no  *)
(* result is sent twice, provided no user turn waits for its start while   *)
(* the parent is idle (agentStarted does not say whose turn it is).        *)
THEOREM OneTurnPerResult ==
  ASSUME UserPreflight = FALSE
  PROVE  DSpec => []OneTurnAtATime
<1>1. DeliveryInv => OneTurnAtATime
  BY AtMostOneTurn DEF DeliveryInv
<1> QED BY DeliveryInvariant, <1>1, PTL

(* A flush that sends found the parent idle and delivery not held.         *)
LEMMA SendsWhenFree ==
  ASSUME NEW r \in Closures, NEW bad \in SUBSET Ids, FlushInto(r, bad), sent' # sent
  PROVE  r.accepting /\ ~r.agentActive /\ r.barriers = 0
BY DEF FlushInto, Flushes, Blocked, Closures

LEMMA SendIsIdle ==
  ASSUME DeliveryInv, HoldInv', [DNext]_dvars, sent' # sent
  PROVE  parent' = None /\ Holding' = {} /\ co.accepting
<1>0. /\ co \in Closures /\ co.barriers \in Nat /\ thrown \subseteq Ids
      /\ IsInjective(co.queued) /\ co.queued \in Seq(Ids)
  BY DEF DeliveryInv, ResultsInv, DTypeOK, Closures, Distinct
<1>1. co'.barriers = 0 => Holding' = {}
  BY FS_EmptySet DEF HoldInv, HoldOK, Holding
<1>2. ~co.agentActive => parent = None
  BY DEF DeliveryInv, TurnInv, TurnOK
<1>3. ASSUME NEW id \in Ids, NEW bad \in SUBSET Ids, id \in fresh, Enqueue(id, bad)
      PROVE  parent' = None /\ co'.barriers = 0 /\ co.accepting
  <2> DEFINE q == Append(co.queued, id)
             r == [co EXCEPT !.queued = q]
  <2>1. co.accepting /\ FlushInto(r, bad) /\ parent' = parent
    BY <1>3 DEF Enqueue
  <2>2. q \in Seq(Ids) /\ IsInjective(q)
    <3>1. id \notin ToSet(co.queued)
      BY <1>3 DEF DeliveryInv, ResultsInv, Distinct
    <3> QED BY <1>0, <3>1, AppendProperties, AppendInjection
  <2> HIDE DEF q
  <2>3. r \in Closures /\ r.queued = q /\ r.agentActive = co.agentActive
    BY <1>0, <2>2 DEF Closures
  <2> HIDE DEF r
  <2>4. ~r.agentActive /\ r.barriers = 0
    BY <2>1, <2>3, SendsWhenFree
  <2>5. co'.barriers = r.barriers
    BY <1>0, <2>1, <2>2, <2>3, FlushCases DEF NothingFlushed, AllThrew, OneSent, Same
  <2> QED BY <1>2, <2>1, <2>3, <2>4, <2>5
<1>4. ASSUME NEW bad \in SUBSET Ids, TurnSettles(bad)
      PROVE  parent' = None /\ co'.barriers = 0 /\ co.accepting
  <2> DEFINE r == Afterwards(co)
  <2>1. r \in Closures /\ r.accepting = co.accepting /\ r.queued = co.queued
    BY <1>0, AfterwardsClosure DEF SameSession0
  <2>2. FlushInto(r, bad) /\ parent' = None
    BY <1>4 DEF TurnSettles
  <2> HIDE DEF r
  <2>3. r.accepting /\ r.barriers = 0
    BY <2>1, <2>2, SendsWhenFree
  <2>4. co'.barriers = r.barriers
    BY <1>0, <2>1, <2>2, FlushCases DEF NothingFlushed, AllThrew, OneSent, Same
  <2> QED BY <2>1, <2>2, <2>3, <2>4
<1>5. ASSUME NEW c \in Commands, NEW bad \in SUBSET Ids, ReleaseHold(c, bad)
      PROVE  parent' = None /\ co'.barriers = 0 /\ co.accepting
  <2> DEFINE r == [co EXCEPT !.barriers = IF @ = 0 THEN 0 ELSE @ - 1]
  <2>1. FlushInto(r, bad) /\ parent' = parent
    BY <1>5 DEF ReleaseHold
  <2>2. /\ r \in Closures /\ r.accepting = co.accepting /\ r.queued = co.queued
        /\ r.agentActive = co.agentActive
    BY <1>0 DEF Closures
  <2> HIDE DEF r
  <2>3. r.accepting /\ ~r.agentActive /\ r.barriers = 0
    BY <2>1, <2>2, SendsWhenFree
  <2>4. co'.barriers = r.barriers
    BY <1>0, <2>1, <2>2, FlushCases DEF NothingFlushed, AllThrew, OneSent, Same
  <2> QED BY <1>2, <2>1, <2>2, <2>3, <2>4
<1> QED BY <1>1, <1>3, <1>4, <1>5
        DEF DNext, Host, Finishes, StartSession, CloseSession, UserPrompts, TurnStarts, TurnDropped, Hold, dvars

(* A result is sent only to an idle parent, while no handler of the open   *)
(* session holds delivery, whatever releases arrive late from earlier      *)
(* sessions (hold, flush).                                                 *)
THEOREM SentToIdleParentOnly ==
  ASSUME UserPreflight = FALSE
  PROVE  DSpec => SentOnlyWhenIdle
<1>1. DeliveryInv /\ DeliveryInv' /\ [DNext]_dvars
      => [sent' # sent => parent' = None /\ Holding' = {} /\ co.accepting]_dvars
  BY SendIsIdle DEF DeliveryInv
<1> QED BY DeliveryInvariant, <1>1, PTL DEF DSpec, SentOnlyWhenIdle


-----------------------------------------------------------------------------
(* What the coordinator's events do to its session and its queue.          *)

(* A flush sends only what waits, and the session stays what it is.        *)
LEMMA FlushSendsWaiting ==
  ASSUME NEW r \in Closures, NEW bad \in SUBSET Ids, IsInjective(r.queued),
         thrown \subseteq Ids, sent \in Seq(Ids), FlushInto(r, bad)
  PROVE  /\ co'.accepting = r.accepting /\ co'.generation = r.generation
         /\ ToSet(co'.queued) \subseteq ToSet(r.queued)
         /\ sent' # sent => sent'[Len(sent')] \in ToSet(r.queued)
<1> DEFINE q == r.queued
<1>1. q \in Seq(Ids) /\ IsInjective(q)
  BY DEF Closures
<1>2. CASE NothingFlushed(r)
  BY <1>2 DEF NothingFlushed
<1>3. CASE AllThrew(r)
  <2>1. ToSet(co'.queued) = {}
    BY <1>3 DEF AllThrew, ToSet
  <2> QED BY <1>3, <2>1 DEF AllThrew, Same, SameSession0
<1>4. ASSUME NEW n \in 1..Len(q), OneSent(r, n)
      PROVE  /\ co'.accepting = r.accepting /\ co'.generation = r.generation
             /\ ToSet(co'.queued) \subseteq ToSet(q)
             /\ sent'[Len(sent')] \in ToSet(q)
  <2>1. /\ sent' = Append(sent, q[n]) /\ co'.queued = AfterHead(q, n)
        /\ co'.accepting = r.accepting /\ co'.generation = r.generation
    BY <1>4 DEF OneSent, Same, SameSession0
  <2> HIDE DEF q
  <2>2. ToSet(AfterHead(q, n)) \subseteq ToSet(q)
    BY <1>1, BehindInjection
  <2>3. q[n] \in Ids /\ q[n] \in ToSet(q)
    BY <1>1, ElementOfSeq, Members
  <2>4. sent'[Len(sent')] = q[n]
    BY <2>1, <2>3, AppendProperties
  <2> QED BY <2>1, <2>2, <2>3, <2>4
<1> QED BY <1>2, <1>3, <1>4, FlushCases

(* The events of the host leave the session alone.                         *)
LEMMA HostSendsWaiting ==
  ASSUME ResultsInv, Host
  PROVE  /\ co'.accepting = co.accepting /\ co'.generation = co.generation
         /\ ToSet(co'.queued) \subseteq ToSet(co.queued)
         /\ sent' # sent => sent'[Len(sent')] \in ToSet(co.queued)
<1>0. /\ co \in Closures /\ thrown \subseteq Ids /\ sent \in Seq(Ids) /\ IsInjective(co.queued)
  BY DEF ResultsInv, DTypeOK, Distinct
<1>1. CASE UserPrompts \/ TurnStarts \/ TurnDropped
  <2>1. /\ AgentStarted(co).accepting = co.accepting /\ AgentStarted(co).generation = co.generation
        /\ AgentStarted(co).queued = co.queued
    BY <1>0, StartedClosure DEF SameSession0
  <2>2. (co' = co \/ co' = AgentStarted(co)) /\ sent' = sent
    BY <1>1 DEF UserPrompts, TurnStarts, TurnDropped
  <2> QED BY <2>1, <2>2
<1>2. ASSUME NEW bad \in SUBSET Ids, TurnSettles(bad)
      PROVE  /\ co'.accepting = co.accepting /\ co'.generation = co.generation
             /\ ToSet(co'.queued) \subseteq ToSet(co.queued)
             /\ sent' # sent => sent'[Len(sent')] \in ToSet(co.queued)
  <2> DEFINE r == Afterwards(co)
  <2>1. r \in Closures /\ r.accepting = co.accepting /\ r.generation = co.generation /\ r.queued = co.queued
    BY <1>0, AfterwardsClosure DEF SameSession0
  <2>2. FlushInto(r, bad)
    BY <1>2 DEF TurnSettles
  <2> HIDE DEF r
  <2> QED BY <1>0, <2>1, <2>2, FlushSendsWaiting
<1>3. ASSUME NEW c \in Commands, Hold(c)
      PROVE  /\ co'.accepting = co.accepting /\ co'.generation = co.generation
             /\ co'.queued = co.queued /\ sent' = sent
  BY <1>0, <1>3 DEF Hold, Closures
<1>4. ASSUME NEW c \in Commands, NEW bad \in SUBSET Ids, ReleaseHold(c, bad)
      PROVE  /\ co'.accepting = co.accepting /\ co'.generation = co.generation
             /\ ToSet(co'.queued) \subseteq ToSet(co.queued)
             /\ sent' # sent => sent'[Len(sent')] \in ToSet(co.queued)
  <2>1. CASE SameSession(co, hold[c])
    <3> DEFINE r == [co EXCEPT !.barriers = IF @ = 0 THEN 0 ELSE @ - 1]
    <3>1. /\ r \in Closures /\ r.accepting = co.accepting /\ r.generation = co.generation
          /\ r.queued = co.queued
      BY <1>0 DEF Closures
    <3>2. FlushInto(r, bad)
      BY <1>4, <2>1 DEF ReleaseHold
    <3> HIDE DEF r
    <3> QED BY <1>0, <3>1, <3>2, FlushSendsWaiting
  <2>2. CASE ~SameSession(co, hold[c])
    BY <1>4, <2>2 DEF ReleaseHold
  <2> QED BY <2>1, <2>2
<1> QED BY <1>1, <1>2, <1>3, <1>4 DEF Host

(* An arrival may join the queue of an open session, and be sent at once.  *)
LEMMA ArrivalSendsWaiting ==
  ASSUME ResultsInv, NEW id \in Ids, Finishes(id)
  PROVE  /\ co'.accepting = co.accepting /\ co'.generation = co.generation
         /\ ToSet(co'.queued) \subseteq ToSet(co.queued) \cup {id}
         /\ sent' # sent => sent'[Len(sent')] \in ToSet(co.queued) \cup {id}
         /\ ~co.accepting => co' = co /\ sent' = sent
<1>0. /\ co \in Closures /\ thrown \subseteq Ids /\ sent \in Seq(Ids) /\ IsInjective(co.queued)
      /\ co.queued \in Seq(Ids)
  BY DEF ResultsInv, DTypeOK, Distinct, Closures
<1>1. PICK bad \in SUBSET Ids : id \in fresh /\ Enqueue(id, bad)
  BY DEF Finishes
<1>2. CASE ~co.accepting
  BY <1>1, <1>2 DEF Enqueue
<1>3. CASE co.accepting
  <2> DEFINE q == Append(co.queued, id)
             r == [co EXCEPT !.queued = q]
  <2>1. id \notin ToSet(co.queued)
    BY <1>1 DEF ResultsInv, Distinct
  <2>2. q \in Seq(Ids) /\ IsInjective(q) /\ ToSet(q) = ToSet(co.queued) \cup {id}
    BY <1>0, <2>1, AppendProperties, AppendMembers, AppendInjection
  <2>3. FlushInto(r, bad)
    BY <1>1, <1>3 DEF Enqueue
  <2> HIDE DEF q
  <2>4. /\ r \in Closures /\ r.queued = q /\ r.accepting = co.accepting
        /\ r.generation = co.generation
    BY <1>0, <2>2 DEF Closures
  <2> HIDE DEF r
  <2> QED BY <1>0, <1>3, <2>2, <2>3, <2>4, FlushSendsWaiting
<1> QED BY <1>2, <1>3

-----------------------------------------------------------------------------
(* The inductive invariant.  A run is live until its callbacks have run.   *)

HTypes ==
    /\ life \in [Ids -> Lives]
    /\ runId \in [Ids -> RunIds \cup {None}]
    /\ born \in [Ids -> Nat \cup {None}]
    /\ pending \in [RunIds -> Ids \cup {None}]
    /\ liveRuns \in [RunIds -> Ids \cup {None}]
    /\ aborted \subseteq Ids /\ inflight \subseteq Ids
    /\ closing \in BOOLEAN

Unfinished(id) == life[id] \in {"running", "settling"}

(* Two live runs have different directories, so that the callbacks of one  *)
(* delete nothing of another.                                              *)
DirectoriesApart ==
    /\ \A id \in Ids : Unfinished(id) => runId[id] \in RunIds
    /\ \A a, b \in Ids : Unfinished(a) /\ Unfinished(b) /\ runId[a] = runId[b] => a = b

(* While the session closes it is shut for results, and awaits every run.  *)
ShutdownAwaitsAll == closing => ~co.accepting /\ Running \subseteq inflight

(* What runs, and what waits to be sent, is of the open session.           *)
OfThisSession ==
    /\ \A id \in Running : co.accepting => born[id] = co.generation
    /\ \A id \in ToSet(co.queued) : Settled(id) /\ born[id] = co.generation

HostInv ==
    /\ HTypes /\ DirectoriesApart /\ LiveRunIsReachable
    /\ ShutdownAwaitsAll /\ ClosedMeansQuiet /\ OfThisSession

LEMMA HostInitially == HInit => ResultsInv /\ HostInv
<1> SUFFICES ASSUME HInit PROVE ResultsInv /\ HostInv
  OBVIOUS
<1>1. ResultsInv
  BY ResultsInitially DEF HInit
<1>2. Running = {} /\ \A id \in Ids : ~Unfinished(id)
  BY DEF HInit, Running, Unfinished
<1>3. ToSet(co.queued) = {}
  BY DEF HInit, DInit, Fresh, ToSet
<1>4. HTypes
  BY DEF HInit, HTypes, Lives
<1> QED BY <1>1, <1>2, <1>3, <1>4
        DEF HInit, HostInv, DirectoriesApart, LiveRunIsReachable, ShutdownAwaitsAll, ClosedMeansQuiet,
            OfThisSession

(* Every step of the session is a step of its coordinator or leaves it be. *)
LEMMA HostStepsAreDelivery == [HNext]_vars => [DNext]_dvars
BY DEF HNext, vars, Launch, RunEnds, Unregister, KillRun, ShutdownBegins, ShutdownEnds, SessionBegins,
       HostSteps, DNext

LEMMA HostNext ==
  ASSUME ReuseLive = FALSE, ResultsInv, HostInv, [HNext]_vars
  PROVE  HostInv'
<1> USE DEF HostInv
<1>0. co \in Closures /\ co.accepting \in BOOLEAN /\ ToSet(co.queued) \subseteq Ids
  <2>1. co \in Closures /\ co.queued \in Seq(Ids) /\ co.accepting \in BOOLEAN
    BY DEF ResultsInv, DTypeOK, Closures
  <2> QED BY <2>1, Members
<1>1. ASSUME NEW id \in Ids, NEW r \in RunIds, Launch(id, r)
      PROVE  HostInv'
  <2>1. /\ life[id] = "unlaunched" /\ co.accepting /\ co' = co
        /\ life' = [life EXCEPT ![id] = "running"] /\ runId' = [runId EXCEPT ![id] = r]
        /\ born' = [born EXCEPT ![id] = co.generation]
        /\ pending' = [pending EXCEPT ![r] = id] /\ liveRuns' = [liveRuns EXCEPT ![r] = id]
        /\ UNCHANGED <<aborted, closing, inflight>>
    BY <1>1 DEF Launch, dvars
  <2>2. \A a \in Ids : Unfinished(a) => runId[a] # r /\ a # id
    BY <1>1, <2>1 DEF Launch, MayUse, Unfinished
  <2>3. /\ \A a \in Ids : a # id => life'[a] = life[a] /\ runId'[a] = runId[a] /\ born'[a] = born[a]
        /\ life'[id] = "running" /\ runId'[id] = r /\ born'[id] = co.generation
    BY <2>1 DEF HTypes
  <2>4. ~closing
    BY <2>1 DEF ShutdownAwaitsAll
  <2>5. HTypes'
    <3>1. co.generation \in Nat
      BY <1>0 DEF Closures
    <3> QED BY <2>1, <3>1 DEF HTypes, Lives
  <2>6. DirectoriesApart'
    BY <2>2, <2>3 DEF DirectoriesApart, Unfinished
  <2>7. Running' = Running \cup {id}
    BY <2>1, <2>3 DEF Running
  <2>8. LiveRunIsReachable'
    <3> SUFFICES ASSUME NEW a \in Running' PROVE liveRuns'[runId'[a]] = a /\ pending'[runId'[a]] = a
      BY DEF LiveRunIsReachable
    <3>1. CASE a = id
      BY <2>1, <2>3, <3>1 DEF HTypes
    <3>2. CASE a # id
      <4>1. a \in Running /\ runId'[a] = runId[a] /\ runId[a] # r /\ runId[a] \in RunIds
        BY <2>2, <2>3, <2>7, <3>2 DEF Running, Unfinished, DirectoriesApart
      <4>2. liveRuns[runId[a]] = a /\ pending[runId[a]] = a
        BY <2>4, <4>1 DEF LiveRunIsReachable
      <4> QED BY <2>1, <4>1, <4>2 DEF HTypes
    <3> QED BY <3>1, <3>2
  <2>9. OfThisSession'
    <3>1. \A a \in ToSet(co.queued) : a # id
      BY <2>1 DEF OfThisSession, Settled
    <3>2. \A a \in Running' : born'[a] = co.generation
      BY <2>1, <2>3, <2>7 DEF OfThisSession, Running
    <3>3. \A a \in ToSet(co.queued) : life'[a] = life[a] /\ born'[a] = born[a]
      BY <1>0, <2>3, <3>1
    <3> QED BY <2>1, <3>2, <3>3 DEF OfThisSession, Settled
  <2> QED BY <2>1, <2>4, <2>5, <2>6, <2>8, <2>9 DEF ShutdownAwaitsAll, ClosedMeansQuiet
<1>2. ASSUME NEW id \in Ids, RunEnds(id)
      PROVE  HostInv'
  <2>1. /\ life[id] = "running" /\ life' = [life EXCEPT ![id] = "settling"]
        /\ UNCHANGED <<runId, born, pending, liveRuns, aborted, closing, inflight>>
        /\ Finishes(id)
    BY <1>2 DEF RunEnds
  <2>2. /\ co'.accepting = co.accepting /\ co'.generation = co.generation
        /\ ToSet(co'.queued) \subseteq ToSet(co.queued) \cup {id}
        /\ ~co.accepting => co' = co
    BY <2>1, ArrivalSendsWaiting
  <2>3. /\ \A a \in Ids : a # id => life'[a] = life[a]
        /\ life'[id] = "settling" /\ id \in Running
    BY <2>1 DEF HTypes, Running
  <2>4. HTypes'
    BY <2>1 DEF HTypes, Lives
  <2>5. DirectoriesApart'
    <3>1. \A a \in Ids : Unfinished(a)' => Unfinished(a)
      BY <2>1, <2>3 DEF Unfinished
    <3> QED BY <2>1, <3>1 DEF DirectoriesApart
  <2>6. Running' = Running \ {id}
    BY <2>3 DEF Running
  <2>7. LiveRunIsReachable'
    BY <2>1, <2>6 DEF LiveRunIsReachable
  <2>8. ShutdownAwaitsAll' /\ ClosedMeansQuiet'
    BY <2>1, <2>2, <2>6 DEF ShutdownAwaitsAll, ClosedMeansQuiet
  <2>9. OfThisSession'
    <3>1. \A a \in Running' : co'.accepting => born'[a] = co'.generation
      BY <2>1, <2>2, <2>6 DEF OfThisSession
    <3>2. ASSUME NEW a \in ToSet(co'.queued)
          PROVE  Settled(a)' /\ born'[a] = co'.generation
      <4>1. CASE a \in ToSet(co.queued)
        <5>1. Settled(a) /\ born[a] = co.generation /\ a \in Ids
          BY <1>0, <4>1 DEF OfThisSession
        <5> QED BY <2>1, <2>2, <2>3, <5>1 DEF Settled
      <4>2. CASE a \notin ToSet(co.queued)
        <5>1. a = id /\ co.accepting
          BY <2>2, <3>2, <4>2
        <5> QED BY <2>1, <2>2, <2>3, <5>1 DEF OfThisSession, Settled
      <4> QED BY <4>1, <4>2
    <3> QED BY <3>1, <3>2 DEF OfThisSession
  <2> QED BY <2>4, <2>5, <2>7, <2>8, <2>9
<1>3. ASSUME NEW id \in Ids, Unregister(id)
      PROVE  HostInv'
  <2>1. /\ life[id] = "settling" /\ life' = [life EXCEPT ![id] = "settled"] /\ co' = co
        /\ pending' = [pending EXCEPT ![runId[id]] = None]
        /\ liveRuns' = [liveRuns EXCEPT ![runId[id]] = None]
        /\ UNCHANGED <<runId, born, aborted, closing, inflight>>
    BY <1>3 DEF Unregister, Deleted, dvars
  <2>2. /\ \A a \in Ids : a # id => life'[a] = life[a]
        /\ life'[id] = "settled"
    BY <2>1 DEF HTypes
  <2>3. Running' = Running
    BY <2>1, <2>2 DEF Running
  <2>4. HTypes'
    BY <2>1 DEF HTypes, Lives
  <2>5. DirectoriesApart'
    <3>1. \A a \in Ids : Unfinished(a)' => Unfinished(a)
      BY <2>1, <2>2 DEF Unfinished
    <3> QED BY <2>1, <3>1 DEF DirectoriesApart
  <2>6. LiveRunIsReachable'
    <3> SUFFICES ASSUME NEW a \in Running, ~closing
                 PROVE  liveRuns'[runId[a]] = a /\ pending'[runId[a]] = a
      BY <2>1, <2>3 DEF LiveRunIsReachable
    <3>1. a # id /\ runId[a] # runId[id] /\ runId[a] \in RunIds
      BY <2>1 DEF Running, DirectoriesApart, Unfinished
    <3>2. liveRuns[runId[a]] = a /\ pending[runId[a]] = a
      BY DEF LiveRunIsReachable
    <3> QED BY <2>1, <3>1, <3>2 DEF HTypes
  <2>7. OfThisSession'
    <3>1. \A a \in ToSet(co.queued) : Settled(a)'
      BY <1>0, <2>2 DEF OfThisSession, Settled
    <3> QED BY <2>1, <2>3, <3>1 DEF OfThisSession
  <2> QED BY <2>1, <2>3, <2>4, <2>5, <2>6, <2>7 DEF ShutdownAwaitsAll, ClosedMeansQuiet
<1>4. ASSUME NEW r \in RunIds, KillRun(r)
      PROVE  HostInv'
  <2>1. /\ liveRuns[r] # None /\ aborted' = aborted \cup {liveRuns[r]} /\ co' = co
        /\ UNCHANGED <<life, runId, born, pending, liveRuns, closing, inflight>>
    BY <1>4 DEF KillRun, dvars
  <2>2. HTypes'
    BY <2>1 DEF HTypes
  <2> QED BY <2>1, <2>2
          DEF DirectoriesApart, Unfinished, LiveRunIsReachable, Running, ShutdownAwaitsAll, ClosedMeansQuiet,
              OfThisSession, Settled
<1>5. CASE ShutdownBegins
  <2>1. /\ ~closing /\ closing' /\ inflight' = Awaited /\ aborted' = aborted \cup Running
        /\ pending' = [r \in RunIds |-> None] /\ liveRuns' = [r \in RunIds |-> None]
        /\ UNCHANGED <<life, runId, born>>
    BY <1>5 DEF ShutdownBegins, Aborts
  <2>2. ~co'.accepting /\ ToSet(co'.queued) = {}
    BY <1>5 DEF ShutdownBegins, CloseSession, Fresh, ToSet
  <2>3. Running' = Running
    BY <2>1 DEF Running
  <2>4. Running \subseteq Awaited /\ Awaited \subseteq Ids
    <3>1. Awaited \subseteq Ids
      BY DEF Awaited, HTypes
    <3>2. ASSUME NEW id \in Running PROVE id \in Awaited
      <4>1. id \in Ids /\ runId[id] \in RunIds
        BY DEF Running, DirectoriesApart, Unfinished
      <4>2. pending[runId[id]] = id
        BY <2>1 DEF LiveRunIsReachable
      <4> QED BY <4>1, <4>2, DeliveryAssumption DEF Awaited
    <3> QED BY <3>1, <3>2
  <2>5. HTypes'
    BY <2>1, <2>4 DEF HTypes, Running
  <2>6. DirectoriesApart'
    BY <2>1 DEF DirectoriesApart, Unfinished
  <2> QED BY <2>1, <2>2, <2>3, <2>4, <2>5, <2>6
          DEF LiveRunIsReachable, ShutdownAwaitsAll, ClosedMeansQuiet, OfThisSession
<1>6. CASE ShutdownEnds
  <2>1. /\ closing /\ closing' = FALSE /\ inflight' = {} /\ co' = co
        /\ UNCHANGED <<life, runId, born, pending, liveRuns, aborted>>
        /\ \A id \in inflight : Settled(id)
    BY <1>6 DEF ShutdownEnds, dvars
  <2>2. Running = {} /\ Running' = {}
    BY <2>1 DEF Running, ShutdownAwaitsAll, Settled
  <2>3. HTypes'
    BY <2>1 DEF HTypes
  <2>4. DirectoriesApart'
    BY <2>1 DEF DirectoriesApart, Unfinished
  <2> QED BY <2>1, <2>2, <2>3, <2>4
          DEF LiveRunIsReachable, ShutdownAwaitsAll, ClosedMeansQuiet, OfThisSession, Settled
<1>7. CASE SessionBegins
  <2>1. /\ ~closing /\ ~co.accepting
        /\ UNCHANGED <<life, runId, born, pending, liveRuns, aborted, closing, inflight>>
    BY <1>7 DEF SessionBegins, StartSession, hvars
  <2>2. Running = {} /\ Running' = {}
    BY <2>1 DEF ClosedMeansQuiet, Running
  <2>3. ToSet(co'.queued) = {}
    BY <1>7 DEF SessionBegins, StartSession, Fresh, ToSet
  <2>4. HTypes' /\ DirectoriesApart'
    BY <2>1 DEF HTypes, DirectoriesApart, Unfinished
  <2> QED BY <2>1, <2>2, <2>3, <2>4 DEF LiveRunIsReachable, ShutdownAwaitsAll, ClosedMeansQuiet, OfThisSession
<1>8. CASE HostSteps
  <2>1. UNCHANGED <<life, runId, born, pending, liveRuns, aborted, closing, inflight>>
    BY <1>8 DEF HostSteps, hvars
  <2>2. /\ co'.accepting = co.accepting /\ co'.generation = co.generation
        /\ ToSet(co'.queued) \subseteq ToSet(co.queued)
    BY <1>8, HostSendsWaiting DEF HostSteps
  <2>3. HTypes' /\ DirectoriesApart' /\ Running' = Running
    BY <2>1 DEF HTypes, DirectoriesApart, Unfinished, Running
  <2> QED BY <2>1, <2>2, <2>3
          DEF LiveRunIsReachable, ShutdownAwaitsAll, ClosedMeansQuiet, OfThisSession, Settled
<1>9. CASE UNCHANGED vars
  <2>1. co' = co /\ UNCHANGED <<life, runId, born, pending, liveRuns, aborted, closing, inflight>>
    BY <1>9 DEF vars, dvars, hvars
  <2> QED BY <2>1
          DEF HTypes, DirectoriesApart, Unfinished, LiveRunIsReachable, Running, ShutdownAwaitsAll,
              ClosedMeansQuiet, OfThisSession, Settled
<1> QED BY <1>1, <1>2, <1>3, <1>4, <1>5, <1>6, <1>7, <1>8, <1>9 DEF HNext

(* Every invocation whose result is sent belongs to the open session.      *)
LEMMA SendsItsOwn ==
  ASSUME ResultsInv, HostInv, [HNext]_vars, sent' # sent
  PROVE  born[sent'[Len(sent')]] = co.generation
<1>1. CASE HostSteps
  <2>1. sent'[Len(sent')] \in ToSet(co.queued)
    BY <1>1, HostSendsWaiting DEF HostSteps
  <2> QED BY <2>1 DEF HostInv, OfThisSession
<1>2. ASSUME NEW id \in Ids, RunEnds(id)
      PROVE  born[sent'[Len(sent')]] = co.generation
  <2>1. /\ sent'[Len(sent')] \in ToSet(co.queued) \cup {id}
        /\ co.accepting
    BY <1>2, ArrivalSendsWaiting DEF RunEnds
  <2>2. born[id] = co.generation
    BY <1>2, <2>1 DEF RunEnds, HostInv, OfThisSession, Running
  <2> QED BY <2>1, <2>2 DEF HostInv, OfThisSession
<1> QED BY <1>1, <1>2
        DEF HNext, Launch, Unregister, KillRun, ShutdownBegins, CloseSession, ShutdownEnds, SessionBegins,
            StartSession, vars, dvars

-----------------------------------------------------------------------------
(* The theorems.  ReuseLive = FALSE: no launch is given the runId of a run *)
(* that is live, which nothing in the code looks at.                       *)

(* The inductive invariant, the coordinator's included.                    *)
THEOREM HostInvariant ==
  ASSUME ReuseLive = FALSE
  PROVE  HSpec => [](ResultsInv /\ HostInv)
<1>1. ResultsInv /\ HostInv /\ [HNext]_vars => (ResultsInv /\ HostInv)'
  BY HostNext, HostStepsAreDelivery, ResultsNext
<1> QED BY HostInitially, <1>1, PTL DEF HSpec

(* The types of the host and its coordinator.                              *)
THEOREM HostTypes ==
  ASSUME ReuseLive = FALSE
  PROVE  HSpec => []HTypeOK
<1>1. ResultsInv /\ HostInv => HTypeOK
  BY DEF ResultsInv, HostInv, HTypes, HTypeOK
<1> QED BY HostInvariant, <1>1, PTL

(* A live run of the open session is the one that its runId leads to, for  *)
(* /kill-workflow and for the shutdown (trackRun, registerLiveUi).         *)
THEOREM RunsAreReachable ==
  ASSUME ReuseLive = FALSE
  PROVE  HSpec => []LiveRunIsReachable
<1>1. ResultsInv /\ HostInv => LiveRunIsReachable
  BY DEF HostInv
<1> QED BY HostInvariant, <1>1, PTL

(* When session_shutdown has returned, every run of the session is over.   *)
THEOREM ShutdownIsQuiet ==
  ASSUME ReuseLive = FALSE
  PROVE  HSpec => []ClosedMeansQuiet
<1>1. ResultsInv /\ HostInv => ClosedMeansQuiet
  BY DEF HostInv
<1> QED BY HostInvariant, <1>1, PTL

(* No result of an earlier session is sent into a later one.               *)
THEOREM ResultsStayHome ==
  ASSUME ReuseLive = FALSE
  PROVE  HSpec => NoForeignResult
<1>1. ResultsInv /\ HostInv /\ [HNext]_vars
      => [sent' # sent => born[sent'[Len(sent')]] = co.generation]_vars
  BY SendsItsOwn
<1> QED BY HostInvariant, <1>1, PTL DEF HSpec, NoForeignResult

(* The session's coordinator is the one of ResultDelivery: no step of the  *)
(* extension goes around it, so that everything proved of it holds here.   *)
THEOREM HostUsesDelivery == HSpec => DSpec
<1>1. HInit => DInit
  BY DEF HInit
<1> QED BY <1>1, HostStepsAreDelivery, PTL DEF HSpec, DSpec
=============================================================================
