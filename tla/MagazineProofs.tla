----------------------------- MODULE MagazineProofs -----------------------------
(***************************************************************************)
(* Proofs about Magazine, for every set of processes and sessions and every*)
(* size of a queue: no draft is in two queues unless a fork copied it, a   *)
(* revision names one queue, drafts leave a queue deliberately, and order  *)
(* mode moves the grabbed entry only.                                      *)
(***************************************************************************)
EXTENDS Magazine, TLAPS, SequenceTheorems

-----------------------------------------------------------------------------
(* The operations on queues: what they keep of order, members and          *)
(* uniqueness.                                                             *)

LEMMA Members ==
  ASSUME NEW S, NEW q \in Seq(S), NEW x
  PROVE  x \in ToSet(q) <=> Contains(q, x)
BY DEF ToSet, Contains

(* Push: the new entry is last; only the oldest of a full queue goes.      *)
LEMMA PushProperties ==
  ASSUME NEW S, NEW q \in Seq(S), NEW e \in S, Len(q) <= MAGAZINE_MAX
  PROVE  /\ Push(q, e) \in Seq(S)
         /\ Len(Push(q, e)) <= MAGAZINE_MAX
         /\ Contains(Push(q, e), e)
         /\ \A x : Contains(Push(q, e), x) => x = e \/ Contains(q, x)
         /\ \A x : Contains(q, x) =>
               Contains(Push(q, e), x) \/ (x = q[1] /\ Len(q) = MAGAZINE_MAX)
         /\ IsInjective(q) /\ ~Contains(q, e) => IsInjective(Push(q, e))
<1> USE MagazineAssumption
<1>1. CASE Len(q) = MAGAZINE_MAX
  <2>1. q # <<>>
    BY <1>1
  <2> DEFINE t == Tail(q)
  <2>2. /\ t \in Seq(S) /\ Len(t) = Len(q) - 1
        /\ \A i \in 1..Len(t) : t[i] = q[i + 1]
    BY <2>1, HeadTailProperties
  <2> HIDE DEF t
  <2>3. /\ Append(t, e) \in Seq(S) /\ Len(Append(t, e)) = Len(q)
        /\ \A i \in 1..Len(t) : Append(t, e)[i] = q[i + 1]
        /\ Append(t, e)[Len(q)] = e
    BY <2>2, AppendProperties
  <2>4. Push(q, e) = Append(t, e)
    BY <1>1 DEF Push, t
  <2> DEFINE a == Append(t, e)
  <2>5. /\ a \in Seq(S) /\ Len(a) = Len(q) /\ a[Len(q)] = e
        /\ \A i \in 1..(Len(q) - 1) : a[i] = q[i + 1]
    BY <2>2, <2>3
  <2> HIDE DEF a
  <2>6. Contains(a, e) /\ \A x : Contains(a, x) => x = e \/ Contains(q, x)
    BY <2>1, <2>5, <1>1 DEF Contains
  <2>7. ASSUME NEW x, Contains(q, x) PROVE Contains(a, x) \/ x = q[1]
    <3>1. PICK i \in 1..Len(q) : q[i] = x
      BY <2>7 DEF Contains
    <3>2. CASE i = 1
      BY <3>1, <3>2
    <3>3. CASE i # 1
      <4>1. i - 1 \in 1..(Len(q) - 1) /\ i - 1 \in 1..Len(a) /\ a[i - 1] = q[i - 1 + 1]
        BY <2>5, <3>3
      <4> QED BY <3>1, <4>1 DEF Contains
    <3> QED BY <3>2, <3>3
  <2>8. ASSUME IsInjective(q), ~Contains(q, e) PROVE IsInjective(a)
    <3>1. \A i \in 1..Len(q) : q[i] # e
      BY <2>8 DEF Contains
    <3>2. DOMAIN q = 1..Len(q) /\ DOMAIN a = 1..Len(q)
      BY <2>5
    <3>3. \A i, j \in 1..Len(q) : q[i] = q[j] => i = j
      BY <2>8, <3>2 DEF IsInjective
    <3>4. ASSUME NEW i \in 1..Len(q), NEW j \in 1..Len(q), a[i] = a[j] PROVE i = j
      <4>1. i # Len(q) => a[i] = q[i + 1] /\ i + 1 \in 1..Len(q)
        BY <2>5
      <4>2. j # Len(q) => a[j] = q[j + 1] /\ j + 1 \in 1..Len(q)
        BY <2>5
      <4> QED BY <2>5, <3>1, <3>3, <3>4, <4>1, <4>2
    <3> QED BY <3>2, <3>4 DEF IsInjective
  <2> QED BY <1>1, <2>4, <2>5, <2>6, <2>7, <2>8 DEF a
<1>2. CASE Len(q) # MAGAZINE_MAX
  <2> DEFINE a == Append(q, e)
  <2>1. /\ a \in Seq(S) /\ Len(a) = Len(q) + 1 /\ a[Len(q) + 1] = e
        /\ \A i \in 1..Len(q) : a[i] = q[i]
    BY AppendProperties
  <2>2. Push(q, e) = a
    BY <1>2 DEF Push
  <2> HIDE DEF a
  <2>3. Contains(a, e) /\ \A x : Contains(a, x) <=> x = e \/ Contains(q, x)
    BY <2>1 DEF Contains
  <2>4. ASSUME IsInjective(q), ~Contains(q, e) PROVE IsInjective(a)
    <3>1. \A i \in 1..Len(q) : q[i] # e
      BY <2>4 DEF Contains
    <3>2. DOMAIN q = 1..Len(q) /\ DOMAIN a = 1..(Len(q) + 1)
      BY <2>1
    <3> QED BY <2>1, <2>4, <3>1, <3>2 DEF IsInjective
  <2> QED BY <1>2, <2>1, <2>2, <2>3, <2>4
<1> QED BY <1>1, <1>2

(* removeAt: the others keep their order.                                  *)
LEMMA RemoveAtElements ==
  ASSUME NEW S, NEW q \in Seq(S), NEW i \in 1..Len(q)
  PROVE  /\ RemoveAt(q, i) \in Seq(S) /\ Len(RemoveAt(q, i)) = Len(q) - 1
         /\ \A k \in 1..(Len(q) - 1) : RemoveAt(q, i)[k] = IF k < i THEN q[k] ELSE q[k + 1]
<1> DEFINE a == SubSeq(q, 1, i - 1)
           b == SubSeq(q, i + 1, Len(q))
<1>1. a \in Seq(S) /\ Len(a) = i - 1 /\ \A k \in 1..(i - 1) : a[k] = q[k]
  <2>1. \A k \in 1..(i - 1) : k \in 1..Len(q)
    OBVIOUS
  <2>2. /\ SubSeq(q, 1, i - 1) \in Seq(S)
        /\ Len(SubSeq(q, 1, i - 1)) = IF 1 <= i - 1 THEN i - 1 - 1 + 1 ELSE 0
        /\ \A k \in 1..(i - 1 - 1 + 1) : SubSeq(q, 1, i - 1)[k] = q[1 + k - 1]
    BY <2>1, SubSeqProperties
  <2> QED BY <2>2
<1>2. b \in Seq(S) /\ Len(b) = Len(q) - i /\ \A k \in 1..(Len(q) - i) : b[k] = q[i + k]
  <2>1. \A k \in (i + 1)..Len(q) : k \in 1..Len(q)
    OBVIOUS
  <2>2. /\ SubSeq(q, i + 1, Len(q)) \in Seq(S)
        /\ Len(SubSeq(q, i + 1, Len(q))) = IF i + 1 <= Len(q) THEN Len(q) - (i + 1) + 1 ELSE 0
        /\ \A k \in 1..(Len(q) - (i + 1) + 1) : SubSeq(q, i + 1, Len(q))[k] = q[i + 1 + k - 1]
    BY <2>1, SubSeqProperties
  <2> QED BY <2>2
<1>3. RemoveAt(q, i) = a \o b
  BY DEF RemoveAt
<1> HIDE DEF a, b
<1>4. /\ a \o b \in Seq(S) /\ Len(a \o b) = Len(a) + Len(b)
      /\ \A k \in 1..(Len(a) + Len(b)) : (a \o b)[k] = IF k <= Len(a) THEN a[k] ELSE b[k - Len(a)]
  BY <1>1, <1>2, ConcatProperties
<1>5. ASSUME NEW k \in 1..(Len(q) - 1) PROVE (a \o b)[k] = IF k < i THEN q[k] ELSE q[k + 1]
  <2>1. CASE k < i
    BY <1>1, <1>2, <1>4, <2>1
  <2>2. CASE ~(k < i)
    <3>1. (a \o b)[k] = b[k - (i - 1)] /\ k - (i - 1) \in 1..(Len(q) - i)
      BY <1>1, <1>2, <1>4, <2>2
    <3> QED BY <1>2, <2>2, <3>1
  <2> QED BY <2>1, <2>2
<1> QED BY <1>1, <1>2, <1>3, <1>4, <1>5

LEMMA RemoveAtProperties ==
  ASSUME NEW S, NEW q \in Seq(S), NEW i \in 1..Len(q), IsInjective(q)
  PROVE  /\ RemoveAt(q, i) \in Seq(S) /\ Len(RemoveAt(q, i)) = Len(q) - 1
         /\ IsInjective(RemoveAt(q, i))
         /\ \A x : Contains(RemoveAt(q, i), x) <=> Contains(q, x) /\ x # q[i]
<1> DEFINE r == RemoveAt(q, i)
<1>1. /\ r \in Seq(S) /\ Len(r) = Len(q) - 1
      /\ \A k \in 1..(Len(q) - 1) : r[k] = IF k < i THEN q[k] ELSE q[k + 1]
  BY RemoveAtElements
<1> HIDE DEF r
<1>2. \A j, k \in 1..Len(q) : q[j] = q[k] => j = k
  BY DEF IsInjective
<1>3. IsInjective(r)
  <2>1. ASSUME NEW j \in 1..(Len(q) - 1), NEW k \in 1..(Len(q) - 1), r[j] = r[k] PROVE j = k
    <3> DEFINE from(n) == IF n < i THEN n ELSE n + 1
    <3>1. from(j) \in 1..Len(q) /\ from(k) \in 1..Len(q) /\ r[j] = q[from(j)] /\ r[k] = q[from(k)]
      BY <1>1
    <3>2. from(j) = from(k)
      BY <1>2, <2>1, <3>1
    <3> QED BY <3>2
  <2>2. DOMAIN r = 1..(Len(q) - 1)
    BY <1>1
  <2> QED BY <2>1, <2>2 DEF IsInjective
<1>4. ASSUME NEW x, Contains(r, x) PROVE Contains(q, x) /\ x # q[i]
  <2>1. PICK k \in 1..Len(r) : r[k] = x
    BY <1>4 DEF Contains
  <2>2. CASE k < i
    BY <1>1, <1>2, <2>1, <2>2 DEF Contains
  <2>3. CASE ~(k < i)
    <3>1. k + 1 \in 1..Len(q) /\ r[k] = q[k + 1] /\ k + 1 # i
      BY <1>1, <2>1, <2>3
    <3> QED BY <1>2, <2>1, <3>1 DEF Contains
  <2> QED BY <2>2, <2>3
<1>5. ASSUME NEW x, Contains(q, x), x # q[i] PROVE Contains(r, x)
  <2>1. PICK k \in 1..Len(q) : q[k] = x
    BY <1>5 DEF Contains
  <2>2. CASE k < i
    <3>1. k \in 1..Len(r) /\ r[k] = q[k]
      BY <1>1, <2>2
    <3> QED BY <2>1, <3>1 DEF Contains
  <2>3. CASE k > i
    <3>1. k - 1 \in 1..Len(r) /\ r[k - 1] = q[k - 1 + 1]
      BY <1>1, <2>3
    <3> QED BY <2>1, <3>1 DEF Contains
  <2> QED BY <1>5, <2>1, <2>2, <2>3
<1> QED BY <1>1, <1>3, <1>4, <1>5 DEF r

(* moveEntry: the entry at `from` is at its new place, the others keep     *)
(* their order, and nothing is moved when the places coincide.             *)
Moved(q, from, to) == InsertAt(RemoveAt(q, from), to, q[from])

LEMMA MoveElements ==
  ASSUME NEW S, NEW q \in Seq(S), NEW i \in 1..Len(q), NEW j \in 1..Len(q)
  PROVE  /\ Moved(q, i, j) \in Seq(S) /\ Len(Moved(q, i, j)) = Len(q)
         /\ Moved(q, i, j)[j] = q[i]
         /\ \A k \in 1..Len(q) : k < j => Moved(q, i, j)[k] = IF k < i THEN q[k] ELSE q[k + 1]
         /\ \A k \in 1..Len(q) : k > j => Moved(q, i, j)[k] = IF k - 1 < i THEN q[k - 1] ELSE q[k]
<1> DEFINE m == Moved(q, i, j)
           r == RemoveAt(q, i)
           e == q[i]
           a == SubSeq(r, 1, j - 1)
           c == SubSeq(r, j, Len(r))
<1> HIDE DEF m, r, e
<1>1. /\ r \in Seq(S) /\ Len(r) = Len(q) - 1 /\ e \in S
      /\ \A k \in 1..(Len(q) - 1) : r[k] = IF k < i THEN q[k] ELSE q[k + 1]
  <2>1. e \in S BY DEF e
  <2> QED BY <2>1, RemoveAtElements DEF r
<1>2. a \in Seq(S) /\ Len(a) = j - 1 /\ \A k \in 1..(j - 1) : a[k] = r[k]
  <2>1. \A k \in 1..(j - 1) : r[k] \in S
    BY <1>1
  <2>2. /\ SubSeq(r, 1, j - 1) \in Seq(S)
        /\ Len(SubSeq(r, 1, j - 1)) = IF 1 <= j - 1 THEN j - 1 - 1 + 1 ELSE 0
        /\ \A k \in 1..(j - 1 - 1 + 1) : SubSeq(r, 1, j - 1)[k] = r[1 + k - 1]
    BY <2>1, SubSeqProperties
  <2> QED BY <2>2
<1>3. c \in Seq(S) /\ Len(c) = Len(q) - j /\ \A k \in 1..(Len(q) - j) : c[k] = r[j + k - 1]
  <2>1. \A k \in j..Len(r) : r[k] \in S
    BY <1>1
  <2>2. /\ SubSeq(r, j, Len(r)) \in Seq(S)
        /\ Len(SubSeq(r, j, Len(r))) = IF j <= Len(r) THEN Len(r) - j + 1 ELSE 0
        /\ \A k \in 1..(Len(r) - j + 1) : SubSeq(r, j, Len(r))[k] = r[j + k - 1]
    BY <1>1, <2>1, SubSeqProperties
  <2> QED BY <1>1, <2>2
<1> DEFINE b == a \o <<e>>
<1>4. /\ b \in Seq(S) /\ Len(b) = j /\ b[j] = e /\ \A k \in 1..(j - 1) : b[k] = r[k]
  <2> HIDE DEF a
  <2>1. <<e>> \in Seq(S) /\ Len(<<e>>) = 1 /\ <<e>>[1] = e
    BY <1>1
  <2>2. /\ a \o <<e>> \in Seq(S) /\ Len(a \o <<e>>) = Len(a) + 1
        /\ \A k \in 1..(Len(a) + 1) : (a \o <<e>>)[k] = IF k <= Len(a) THEN a[k] ELSE <<e>>[k - Len(a)]
    BY <1>2, <2>1, ConcatProperties
  <2>3. b \in Seq(S) /\ Len(b) = j
    <3>1. Len(b) = Len(a) + 1 BY <2>2
    <3>2. b \in Seq(S) BY <2>2
    <3> HIDE DEF b
    <3> QED BY <1>2, <3>1, <3>2
  <2>4. \A k \in 1..j : b[k] = IF k <= j - 1 THEN a[k] ELSE <<e>>[k - (j - 1)]
    BY <1>2, <2>2
  <2> HIDE DEF b
  <2>5. b[j] = e
    <3>1. j \in 1..j /\ ~(j <= j - 1) /\ j - (j - 1) = 1 OBVIOUS
    <3>2. b[j] = <<e>>[j - (j - 1)] BY <2>4, <3>1
    <3> QED BY <2>1, <3>1, <3>2
  <2> QED BY <1>2, <2>3, <2>4, <2>5
<1>5. m = b \o c
  BY DEF Moved, InsertAt, m, r, e
<1> HIDE DEF a, b, c
<1>6. /\ m \in Seq(S) /\ Len(m) = Len(b) + Len(c)
      /\ \A k \in 1..(Len(b) + Len(c)) : m[k] = IF k <= Len(b) THEN b[k] ELSE c[k - Len(b)]
  <2>1. /\ b \o c \in Seq(S) /\ Len(b \o c) = Len(b) + Len(c)
        /\ \A k \in 1..(Len(b) + Len(c)) : (b \o c)[k] = IF k <= Len(b) THEN b[k] ELSE c[k - Len(b)]
    BY <1>3, <1>4, ConcatProperties
  <2> QED BY <1>5, <2>1
<1>7. Len(m) = Len(q) /\ m[j] = e
  BY <1>3, <1>4, <1>6
<1>8. ASSUME NEW k \in 1..Len(q), k < j PROVE m[k] = IF k < i THEN q[k] ELSE q[k + 1]
  <2>1. m[k] = r[k] /\ k \in 1..(Len(q) - 1)
    BY <1>3, <1>4, <1>6, <1>8
  <2> QED BY <1>1, <2>1
<1>9. ASSUME NEW k \in 1..Len(q), k > j PROVE m[k] = IF k - 1 < i THEN q[k - 1] ELSE q[k]
  <2>1. m[k] = c[k - j] /\ k - j \in 1..(Len(q) - j)
    BY <1>3, <1>4, <1>6, <1>9
  <2>2. c[k - j] = r[k - 1] /\ k - 1 \in 1..(Len(q) - 1)
    BY <1>3, <1>9, <2>1
  <2>3. r[k - 1] = IF k - 1 < i THEN q[k - 1] ELSE q[k - 1 + 1]
    BY <1>1, <2>2
  <2> QED BY <2>1, <2>2, <2>3
<1> QED BY <1>6, <1>7, <1>8, <1>9 DEF m, e

LEMMA MoveProperties ==
  ASSUME NEW S, NEW q \in Seq(S), NEW i \in 1..Len(q), NEW to \in Int, IsInjective(q)
  PROVE  /\ Move(q, i, to) \in Seq(S) /\ Len(Move(q, i, to)) = Len(q)
         /\ IsInjective(Move(q, i, to))
         /\ \A x : Contains(Move(q, i, to), x) <=> Contains(q, x)
         /\ Move(q, i, to) # q => IndexOf(Move(q, i, to), q[i]) # IndexOf(q, q[i])
<1> DEFINE j == Within(q, to)
           m == Move(q, i, to)
<1>1. j \in 1..Len(q)
  BY DEF Within
<1>2. m = Moved(q, i, j)
  BY DEF Move, Moved
<1> HIDE DEF j, m
<1>3. /\ m \in Seq(S) /\ Len(m) = Len(q)
      /\ m[j] = q[i]
      /\ \A k \in 1..Len(q) : k < j => m[k] = IF k < i THEN q[k] ELSE q[k + 1]
      /\ \A k \in 1..Len(q) : k > j => m[k] = IF k - 1 < i THEN q[k - 1] ELSE q[k]
  BY <1>1, <1>2, MoveElements
<1> DEFINE from(k) == IF k = j THEN i
                      ELSE IF k < j THEN (IF k < i THEN k ELSE k + 1)
                      ELSE (IF k - 1 < i THEN k - 1 ELSE k)
           at(k) == IF k = i THEN j
                    ELSE IF k < i THEN (IF k < j THEN k ELSE k + 1)
                    ELSE (IF k - 1 < j THEN k - 1 ELSE k)
<1>4. \A k \in 1..Len(q) : from(k) \in 1..Len(q) /\ m[k] = q[from(k)]
  BY <1>1, <1>3
<1>5. \A k \in 1..Len(q) : at(k) \in 1..Len(q) /\ from(at(k)) = k
  BY <1>1
<1>6. \A k, n \in 1..Len(q) : from(k) = from(n) => k = n
  BY <1>1
<1> HIDE DEF from, at
<1>7. \A k, n \in 1..Len(q) : q[k] = q[n] => k = n
  BY DEF IsInjective
<1>8. \A k, n \in 1..Len(q) : m[k] = m[n] => k = n
  BY <1>4, <1>6, <1>7
<1>9. IsInjective(m)
  BY <1>3, <1>8 DEF IsInjective
<1>10. ASSUME NEW x PROVE Contains(m, x) <=> Contains(q, x)
  <2>1. ASSUME NEW k \in 1..Len(q), q[k] = x PROVE Contains(m, x)
    <3>1. m[at(k)] = x /\ at(k) \in 1..Len(m)
      BY <1>3, <1>4, <1>5, <2>1
    <3> QED BY <3>1 DEF Contains
  <2>2. ASSUME NEW k \in 1..Len(m), m[k] = x PROVE Contains(q, x)
    BY <1>3, <1>4, <2>2 DEF Contains
  <2> QED BY <2>1, <2>2 DEF Contains
<1>11. ASSUME m # q PROVE IndexOf(m, q[i]) # IndexOf(q, q[i])
  <2>1. IndexOf(q, q[i]) = i
    BY <1>7 DEF IndexOf
  <2>2. IndexOf(m, q[i]) = j
    BY <1>1, <1>3, <1>8 DEF IndexOf
  <2>3. CASE i = j
    <3>1. \A k \in 1..Len(q) : m[k] = q[k]
      <4>1. \A k \in 1..Len(q) : from(k) = k
        BY <1>1, <2>3 DEF from
      <4> QED BY <1>4, <4>1
    <3>2. m = q
      BY <1>3, <3>1, SeqEqual
    <3> QED BY <1>11, <3>2
  <2> QED BY <2>1, <2>2, <2>3
<1> QED BY <1>3, <1>9, <1>10, <1>11 DEF m

-----------------------------------------------------------------------------
(* The inductive invariant.                                                *)

Rows == [queue : Seq(Drafts), revision : Int]

OrderDialogs == [at : {"order"}, cursor : Drafts \cup {None}, index : Nat \ {0}, grabbed : BOOLEAN]

Dialogs ==
    {NoDialog} \cup [at : {"browser"}] \cup [at : {"entry"}, id : Drafts]
    \cup [at : {"clear"}, seen : Seq(Drafts), again : BOOLEAN]
    \cup OrderDialogs
    \cup [at : {"recover"}, source : Sessions, revision : Int, seen : Seq(Drafts)]

Types ==
    /\ rows \in [Sessions -> Rows] /\ view \in [Procs -> Rows]
    /\ files \in SUBSET Sessions
    /\ life \in [Procs -> {"off", "starting", "open", "closed"}]
    /\ session \in [Procs -> Sessions \cup {None}] /\ parent \in [Procs -> Sessions \cup {None}]
    /\ dialog \in [Procs -> Dialogs]
    /\ editor \in Drafts \cup {None}
    /\ entries \in 0..MaxEntries /\ starts \in 0..MaxStarts /\ forked \in SUBSET Drafts

Bounded(row) == Len(row.queue) <= MAGAZINE_MAX /\ row.revision \in -1..MaxRevision

(* A row holds drafts that were made, each once; before its first          *)
(* transaction it is not there.                                            *)
RowInv(s) ==
    /\ Bounded(rows[s])
    /\ rows[s].revision = -1 => rows[s] = NoRow
    /\ IsInjective(rows[s].queue)
    /\ \A e \in Drafts : InRow(s, e) => e <= entries

Sharing ==
    \A s, t \in Sessions, e \in Drafts : s # t /\ InRow(s, e) /\ InRow(t, e) => e \in forked

(* What a process saw of a row is the row or an earlier state of it.       *)
Saw(s, revision, queue) ==
    /\ rows[s].revision # -1
    /\ revision <= rows[s].revision
    /\ revision = rows[s].revision => queue = rows[s].queue

ViewInv(p) ==
    /\ Bounded(view[p])
    /\ life[p] \in {"starting", "open"} => session[p] \in Sessions
    /\ life[p] = "open" => Saw(session[p], view[p].revision, view[p].queue)

DialogInv(p) ==
    /\ dialog[p].at # "none" => life[p] \in {"open", "closed"}
    /\ dialog[p].at = "recover" =>
          /\ dialog[p].source # session[p]
          /\ Saw(dialog[p].source, dialog[p].revision, dialog[p].seen)

MInv ==
    /\ Types
    /\ \A s \in Sessions : RowInv(s)
    /\ Sharing
    /\ \A p \in Procs : ViewInv(p) /\ DialogInv(p)

-----------------------------------------------------------------------------
(* Steps by their effect on the rows.                                      *)

(* A row stays or goes to a later revision.                                *)
Grows == \A s \in Sessions : rows'[s] = rows[s] \/ rows'[s].revision > rows[s].revision

RowsStep ==
    /\ rows' \in [Sessions -> Rows]
    /\ \A s \in Sessions : RowInv(s)'
    /\ Sharing'
    /\ Grows

(* What the actor's closure shows afterwards.                              *)
Shown(p) ==
    /\ view' \in [Procs -> Rows]
    /\ \A q \in Procs \ {p} : view'[q] = view[q]
    /\ Bounded(view'[p])
    /\ life[p] = "open" => Saw(session[p], view[p].revision, view[p].queue)'

LEMMA SawStays ==
  ASSUME MInv, Grows, rows' \in [Sessions -> Rows], NEW s \in Sessions, NEW n \in Int, NEW q, Saw(s, n, q)
  PROVE  Saw(s, n, q)'
<1>1. rows[s].revision \in Int /\ rows'[s].revision \in Int /\ rows[s].revision >= -1
  BY DEF MInv, Types, Rows, RowInv, Bounded
<1>2. rows'[s] = rows[s] \/ rows'[s].revision > rows[s].revision
  BY DEF Grows
<1> QED BY <1>1, <1>2 DEF Saw

(* The invariant of the processes that do not take the step.               *)
LEMMA StepKeepsInv ==
  ASSUME MInv, NEW p \in Procs, Types', RowsStep, ViewInv(p)', DialogInv(p)',
         \A q \in Procs \ {p} : /\ view'[q] = view[q] /\ life'[q] = life[q]
                                /\ session'[q] = session[q] /\ dialog'[q] = dialog[q]
  PROVE  MInv'
<1>1. ASSUME NEW q \in Procs \ {p} PROVE ViewInv(q)' /\ DialogInv(q)'
  <2>1. ViewInv(q) /\ DialogInv(q) /\ view[q].revision \in Int
    BY DEF MInv, Types, Rows
  <2>2. ViewInv(q)'
    <3>1. life[q] = "open" => Saw(session[q], view[q].revision, view[q].queue)'
      BY <2>1, SawStays DEF ViewInv, RowsStep
    <3> QED BY <2>1, <3>1 DEF ViewInv
  <2>3. DialogInv(q)'
    <3>1. CASE dialog[q].at = "recover"
      <4>1. dialog[q].source \in Sessions /\ dialog[q].revision \in Int
        BY <3>1 DEF MInv, Types, Dialogs, OrderDialogs, NoDialog
      <4>2. Saw(dialog[q].source, dialog[q].revision, dialog[q].seen)'
        BY <2>1, <3>1, <4>1, SawStays DEF DialogInv, RowsStep
      <4> QED BY <2>1, <3>1, <4>2 DEF DialogInv
    <3>2. CASE dialog[q].at # "recover"
      BY <2>1, <3>2 DEF DialogInv
    <3> QED BY <3>1, <3>2
  <2> QED BY <2>2, <2>3
<1>2. \A q \in Procs : ViewInv(q)' /\ DialogInv(q)'
  BY <1>1
<1> QED BY <1>2 DEF MInv, RowsStep

LEMMA RowsRest ==
  ASSUME MInv, UNCHANGED <<rows, entries>>, forked \subseteq forked'
  PROVE  RowsStep
<1>1. ASSUME NEW s \in Sessions PROVE RowInv(s)'
  BY DEF MInv, RowInv, Bounded, InRow
<1>2. Sharing'
  BY DEF MInv, Sharing, InRow
<1> QED BY <1>1, <1>2 DEF RowsStep, Grows, MInv, Types

LEMMA ViewRests ==
  ASSUME MInv, NEW p \in Procs, RowsStep, view' = view, life' = life, session' = session
  PROVE  Shown(p)
<1>1. ViewInv(p) /\ view[p].revision \in Int /\ view' \in [Procs -> Rows]
  BY DEF MInv, Types, Rows
<1>2. life[p] = "open" => Saw(session[p], view[p].revision, view[p].queue)'
  BY <1>1, SawStays DEF ViewInv, RowsStep
<1> QED BY <1>1, <1>2 DEF Shown, ViewInv

LEMMA Refreshes ==
  ASSUME MInv, NEW p \in Procs, life[p] = "open", UNCHANGED <<rows, session>>,
         view' = [view EXCEPT ![p] = rows[session[p]]]
  PROVE  Shown(p)
<1>1. session[p] \in Sessions /\ rows[session[p]].revision # -1
  BY DEF MInv, ViewInv, Saw
<1>2. rows[session[p]] \in Rows /\ Bounded(rows[session[p]])
  BY <1>1 DEF MInv, Types, RowInv
<1>3. view' \in [Procs -> Rows] /\ view'[p] = rows[session[p]] /\ \A q \in Procs \ {p} : view'[q] = view[q]
  BY <1>2 DEF MInv, Types
<1>4. rows[session[p]].revision \in Int
  BY <1>2 DEF Rows
<1> QED BY <1>1, <1>2, <1>3, <1>4 DEF Shown, Saw

(* The row of an open process is there.                                    *)
LEMMA OpenRow ==
  ASSUME MInv, NEW p \in Procs, life[p] = "open"
  PROVE  /\ session[p] \in Sessions /\ rows[session[p]] # NoRow
         /\ Row(session[p]) = rows[session[p]] /\ Queue(p) = rows[session[p]].queue
         /\ Queue(p) \in Seq(Drafts) /\ Len(Queue(p)) <= MAGAZINE_MAX /\ IsInjective(Queue(p))
         /\ rows[session[p]].revision \in Nat
<1>1. session[p] \in Sessions /\ rows[session[p]].revision # -1
  BY DEF MInv, ViewInv, Saw
<1>2. rows[session[p]] # NoRow
  BY <1>1 DEF NoRow
<1>3. rows[session[p]] \in Rows /\ RowInv(session[p])
  BY <1>1 DEF MInv, Types
<1> QED BY <1>1, <1>2, <1>3 DEF Row, Queue, Rows, RowInv, Bounded

(* commitMutation: every draft of the new queue was in the row or is new.  *)
LEMMA Commits ==
  ASSUME MInv, NEW p \in Procs, Writable(p), NEW q \in Seq(Drafts), Commit(p, q),
         Len(q) <= MAGAZINE_MAX, IsInjective(q), UNCHANGED <<life, session, forked>>,
         entries' \in Nat, entries' >= entries,
         \A e \in Drafts : Contains(q, e) =>
             \/ InRow(session[p], e)
             \/ e <= entries' /\ e > entries
  PROVE  RowsStep /\ Shown(p)
<1>0. PICK s \in Sessions : s = session[p]
  BY OpenRow DEF Writable
<1> DEFINE row == [queue |-> q, revision |-> rows[s].revision + 1]
<1>1. Row(s) = rows[s] /\ rows[s].revision \in Nat
  BY <1>0, OpenRow DEF Writable
<1>2. /\ row \in Rows /\ row.queue = q /\ row.revision = rows[s].revision + 1
      /\ row.revision <= MaxRevision
      /\ rows' = [rows EXCEPT ![s] = row] /\ view' = [view EXCEPT ![p] = row]
  BY <1>0, <1>1 DEF Commit, Rows
<1> HIDE DEF row
<1>3. /\ rows' \in [Sessions -> Rows] /\ rows'[s] = row
      /\ \A t \in Sessions \ {s} : rows'[t] = rows[t]
      /\ view' \in [Procs -> Rows] /\ view'[p] = row /\ \A r \in Procs \ {p} : view'[r] = view[r]
  BY <1>2 DEF MInv, Types
<1>4. Grows
  BY <1>1, <1>2, <1>3 DEF Grows
<1>5. Bounded(row) /\ row.revision # -1
  BY <1>1, <1>2 DEF Bounded
<1>6. entries \in Nat /\ \A t \in Sessions, e \in Drafts : InRow(t, e) => e <= entries
  BY DEF MInv, Types, RowInv
<1>7. ASSUME NEW t \in Sessions PROVE RowInv(t)'
  <2>1. CASE t = s
    <3>1. ASSUME NEW e \in Drafts, InRow(s, e)' PROVE e <= entries'
      <4>1. e \in Int /\ Contains(q, e)
        BY <1>2, <1>3, <3>1, MagazineAssumption DEF InRow, Drafts
      <4>2. InRow(s, e) => e <= entries
        BY <1>6
      <4> QED BY <1>0, <1>6, <4>1, <4>2
    <3> QED BY <1>2, <1>3, <1>5, <2>1, <3>1 DEF RowInv
  <2>2. CASE t # s
    <3>1. RowInv(t) /\ rows'[t] = rows[t]
      BY <1>3, <2>2 DEF MInv
    <3>2. \A e \in Drafts : InRow(t, e)' => e <= entries'
      BY <1>6, <3>1 DEF InRow, Drafts
    <3>3. Bounded(rows'[t]) /\ (rows'[t].revision = -1 => rows'[t] = NoRow) /\ IsInjective(rows'[t].queue)
      BY <3>1 DEF RowInv
    <3> QED BY <3>2, <3>3 DEF RowInv, Bounded
  <2> QED BY <2>1, <2>2
<1>8. Sharing'
  <2>1. ASSUME NEW t \in Sessions, t # s, NEW e \in Drafts, InRow(s, e)', InRow(t, e)' PROVE e \in forked
    <3>1. InRow(t, e) /\ e <= entries /\ Contains(q, e)
      BY <1>2, <1>3, <1>6, <2>1 DEF InRow
    <3>2. InRow(s, e)
      <4>1. e \in Int BY MagazineAssumption DEF Drafts
      <4>2. ~(e > entries) BY <1>6, <3>1, <4>1
      <4> QED BY <1>0, <3>1, <4>2
    <3> QED BY <1>1, <2>1, <3>1, <3>2 DEF MInv, Sharing
  <2>2. ASSUME NEW t \in Sessions, NEW u \in Sessions, t # s, u # s, t # u, NEW e \in Drafts, InRow(t, e)', InRow(u, e)'
        PROVE  e \in forked
    <3>1. InRow(t, e) /\ InRow(u, e)
      BY <1>3, <2>2 DEF InRow
    <3> QED BY <2>2, <3>1 DEF MInv, Sharing
  <2> QED BY <2>1, <2>2 DEF Sharing
<1>9. Saw(session[p], view[p].revision, view[p].queue)'
  BY <1>0, <1>2, <1>3, <1>5 DEF Saw, Rows
<1> QED BY <1>3, <1>4, <1>5, <1>7, <1>8, <1>9 DEF RowsStep, Shown

LEMMA Adopts ==
  ASSUME MInv, NEW p \in Procs, Writable(p), Adopt(p), UNCHANGED <<session, entries, forked>>
  PROVE  rows' = rows /\ RowsStep /\ Shown(p)
<1>1. session[p] \in Sessions /\ Row(session[p]) = rows[session[p]]
  BY OpenRow DEF Writable
<1>2. rows' = rows
  BY <1>1 DEF Adopt, MInv, Types
<1>3. view' = [view EXCEPT ![p] = rows[session[p]]]
  BY <1>1 DEF Adopt
<1> QED BY <1>2, <1>3, RowsRest, Refreshes DEF Writable

-----------------------------------------------------------------------------
(* Commands.                                                               *)

LEMMA CommandKeepsInv ==
  ASSUME MInv, NEW p \in Procs, UNCHANGED <<around, forked>>, RowsStep, Shown(p),
         entries' \in 0..MaxEntries, editor' \in Drafts \cup {None},
         NEW d \in Dialogs, dialog' = [dialog EXCEPT ![p] = d],
         d.at # "none" => life[p] \in {"open", "closed"},
         d.at = "recover" => d.source # session[p] /\ Saw(d.source, d.revision, d.seen)'
  PROVE  MInv'
<1>1. dialog' \in [Procs -> Dialogs] /\ dialog'[p] = d /\ \A q \in Procs \ {p} : dialog'[q] = dialog[q]
  BY DEF MInv, Types
<1>2. Types'
  BY <1>1 DEF MInv, Types, around, RowsStep, Shown
<1>3. ViewInv(p)'
  BY DEF MInv, ViewInv, Shown, around
<1>4. DialogInv(p)'
  BY <1>1 DEF DialogInv, around
<1>5. \A q \in Procs \ {p} : /\ view'[q] = view[q] /\ life'[q] = life[q]
                             /\ session'[q] = session[q] /\ dialog'[q] = dialog[q]
  BY <1>1 DEF Shown, around
<1> QED BY <1>2, <1>3, <1>4, <1>5, StepKeepsInv

(* Whoever is in a dialog has started; its dialog is of a known form.      *)
LEMMA InDialog ==
  ASSUME MInv, NEW p \in Procs
  PROVE  /\ dialog[p] \in Dialogs
         /\ dialog[p].at # "none" => life[p] \in {"open", "closed"}
         /\ dialog[p].at = "entry" => dialog[p].id \in Drafts
         /\ dialog[p].at = "recover" => dialog[p].source \in Sessions /\ dialog[p].revision \in Int
         /\ dialog[p].at = "order" => dialog[p] \in OrderDialogs
<1>1. dialog[p] \in Dialogs /\ DialogInv(p)
  BY DEF MInv, Types
<1>2. dialog[p].at = "entry" => dialog[p].id \in Drafts
  BY <1>1 DEF Dialogs, OrderDialogs, NoDialog
<1>3. dialog[p].at = "recover" => dialog[p].source \in Sessions /\ dialog[p].revision \in Int
  BY <1>1 DEF Dialogs, OrderDialogs, NoDialog
<1>4. dialog[p].at = "order" => dialog[p] \in OrderDialogs
  BY <1>1 DEF Dialogs, OrderDialogs, NoDialog
<1> QED BY <1>1, <1>2, <1>3, <1>4 DEF DialogInv

LEMMA PlainDialogs ==
  /\ NoDialog \in Dialogs /\ NoDialog.at = "none"
  /\ [at |-> "browser"] \in Dialogs /\ [at |-> "browser"].at = "browser"
BY DEF Dialogs, OrderDialogs, NoDialog

(* Steps of a dialog that leave rows and drafts alone.                     *)
LEMMA TalkKeepsInv ==
  ASSUME MInv, NEW p \in Procs, UNCHANGED <<around, rows, entries, forked>>, editor' \in Drafts \cup {None},
         \/ view' = view
         \/ life[p] = "open" /\ view' = [view EXCEPT ![p] = rows[session[p]]],
         NEW d \in Dialogs, dialog' = [dialog EXCEPT ![p] = d],
         d.at # "none" => life[p] \in {"open", "closed"},
         d.at = "recover" => d.source # session[p] /\ Saw(d.source, d.revision, d.seen)'
  PROVE  MInv'
<1>1. RowsStep
  BY RowsRest
<1>2. Shown(p)
  BY <1>1, ViewRests, Refreshes DEF around
<1>3. entries' \in 0..MaxEntries
  BY DEF MInv, Types
<1> QED BY <1>1, <1>2, <1>3, CommandKeepsInv

LEMMA FoundAt ==
  ASSUME NEW S, NEW q \in Seq(S), NEW e, Contains(q, e)
  PROVE  IndexOf(q, e) \in 1..Len(q) /\ q[IndexOf(q, e)] = e
BY DEF Contains, IndexOf

(* A transaction that removes one draft.                                   *)
LEMMA Removes ==
  ASSUME MInv, NEW p \in Procs, Writable(p), NEW i \in 1..Len(Queue(p)),
         Commit(p, RemoveAt(Queue(p), i)), UNCHANGED <<life, session, entries, forked>>
  PROVE  RowsStep /\ Shown(p)
<1> DEFINE q == Queue(p)
           r == RemoveAt(q, i)
<1>1. /\ q \in Seq(Drafts) /\ Len(q) <= MAGAZINE_MAX /\ IsInjective(q) /\ q = rows[session[p]].queue
  BY OpenRow DEF Writable
<1> HIDE DEF q
<1>2. /\ r \in Seq(Drafts) /\ Len(r) <= MAGAZINE_MAX /\ IsInjective(r)
      /\ \A e : Contains(r, e) => Contains(q, e)
  <2>1. i \in 1..Len(q) BY DEF q
  <2> QED BY <1>1, <2>1, RemoveAtProperties, MagazineAssumption
<1>3. \A e \in Drafts : Contains(r, e) => InRow(session[p], e)
  BY <1>1, <1>2 DEF InRow
<1>4. Commit(p, r) BY DEF q
<1>5. entries' \in Nat /\ entries' >= entries BY DEF MInv, Types
<1> HIDE DEF r
<1> QED BY <1>2, <1>3, <1>4, <1>5, Commits

LEMMA PopsTo ==
  ASSUME MInv, NEW p \in Procs, Writable(p), NEW i \in 1..Len(Queue(p)), PopTo(p, i),
         UNCHANGED <<around, entries, forked>>
  PROVE  RowsStep /\ Shown(p) /\ editor' \in Drafts
<1>1. editor' \in Drafts
  BY OpenRow DEF PopTo, Writable
<1>2. CASE Commit(p, RemoveAt(Queue(p), i))
  BY <1>1, <1>2, Removes DEF around
<1>3. CASE UNCHANGED <<rows, view>>
  BY <1>1, <1>3, RowsRest, ViewRests DEF around
<1> QED BY <1>1, <1>2, <1>3 DEF PopTo

LEMMA PopKeepsInv ==
  ASSUME MInv, NEW p \in Procs, Pop(p)
  PROVE  MInv'
<1>e. entries' = entries => entries' \in 0..MaxEntries
  BY DEF MInv, Types
<1>1. ASSUME NEW n \in 1..MAGAZINE_MAX, PopNth(p, n) PROVE MInv'
  <2>1. RowsStep /\ Shown(p) /\ editor' \in Drafts \cup {None}
    <3>1. Writable(p) /\ UNCHANGED <<around, entries, forked>>
      BY <1>1 DEF PopNth
    <3>2. CASE n \in DOMAIN Queue(p)
      <4>1. n \in 1..Len(Queue(p)) /\ PopTo(p, n)
        BY <1>1, <3>1, <3>2, OpenRow DEF PopNth, Writable
      <4> QED BY <3>1, <4>1, PopsTo
    <3>3. CASE n \notin DOMAIN Queue(p)
      BY <1>1, <3>1, <3>3, Adopts DEF PopNth, around
    <3> QED BY <3>2, <3>3
  <2>2. dialog' = [dialog EXCEPT ![p] = NoDialog]
    BY <1>1 DEF PopNth, MInv, Types
  <2> QED BY <1>1, <1>e, <2>1, <2>2, PlainDialogs, CommandKeepsInv DEF PopNth
<1>2. ASSUME RestoreEntry(p) PROVE MInv'
  <2>0. UNCHANGED <<around, entries, forked>> /\ dialog[p].at = "entry"
    BY <1>2 DEF RestoreEntry
  <2>1. RowsStep /\ Shown(p) /\ editor' \in Drafts \cup {None}
    <3>1. CASE Writable(p) /\ Contains(Queue(p), dialog[p].id)
      <4>1. IndexOf(Queue(p), dialog[p].id) \in 1..Len(Queue(p))
        BY <3>1, OpenRow, FoundAt DEF Writable
      <4>2. PopTo(p, IndexOf(Queue(p), dialog[p].id))
        BY <1>2, <3>1 DEF RestoreEntry
      <4> QED BY <2>0, <3>1, <4>1, <4>2, PopsTo
    <3>2. CASE Writable(p) /\ ~Contains(Queue(p), dialog[p].id)
      BY <1>2, <2>0, <3>2, Adopts DEF RestoreEntry, around
    <3>3. CASE ~Writable(p)
      BY <1>2, <2>0, <3>3, RowsRest, ViewRests DEF RestoreEntry, around
    <3> QED BY <3>1, <3>2, <3>3
  <2>2. dialog' = [dialog EXCEPT ![p] = NoDialog]
    BY <1>2 DEF RestoreEntry, Closes
  <2> QED BY <1>e, <2>0, <2>1, <2>2, PlainDialogs, CommandKeepsInv
<1> QED BY <1>1, <1>2 DEF Pop

LEMMA StashKeepsInv ==
  ASSUME MInv, NEW p \in Procs, Stash(p), editor' = None
  PROVE  MInv'
<1> DEFINE q == Queue(p)
           e == entries + 1
<1>1. /\ q \in Seq(Drafts) /\ Len(q) <= MAGAZINE_MAX /\ IsInjective(q) /\ q = rows[session[p]].queue
      /\ session[p] \in Sessions
  BY OpenRow DEF Stash, Writable
<1>2. e \in Drafts /\ entries \in Nat /\ entries' = e /\ e \in 0..MaxEntries
  BY MagazineAssumption DEF Stash, MInv, Types, Drafts
<1>3. ~Contains(q, e)
  <2>1. \A x \in Drafts : Contains(q, x) => x <= entries
    BY <1>1 DEF MInv, RowInv, InRow
  <2> QED BY <1>2, <2>1
<1> HIDE DEF q, e
<1>4. /\ Push(q, e) \in Seq(Drafts) /\ Len(Push(q, e)) <= MAGAZINE_MAX /\ IsInjective(Push(q, e))
      /\ \A x : Contains(Push(q, e), x) => x = e \/ Contains(q, x)
  BY <1>1, <1>2, <1>3, PushProperties
<1>5. \A x \in Drafts : Contains(Push(q, e), x) => InRow(session[p], x) \/ (x <= entries' /\ x > entries)
  BY <1>1, <1>2, <1>4 DEF InRow, e
<1>6. Commit(p, Push(q, e)) /\ UNCHANGED <<around, dialog, forked>> /\ Writable(p)
  BY DEF Stash, q, e
<1>7. entries' \in Nat /\ entries' >= entries
  BY <1>2 DEF e
<1>8. RowsStep /\ Shown(p)
  BY <1>4, <1>5, <1>6, <1>7, Commits DEF around
<1>9. dialog' = [dialog EXCEPT ![p] = NoDialog]
  BY <1>6 DEF Stash, MInv, Types
<1> QED BY <1>2, <1>6, <1>8, <1>9, PlainDialogs, CommandKeepsInv

LEMMA BrowserKeepsInv ==
  ASSUME MInv, NEW p \in Procs, BrowserRound(p) \/ BrowserFails(p), editor' = None
  PROVE  MInv'
<1>1. CASE BrowserRound(p)
  <2> DEFINE shown == rows[session[p]].queue
  <2>1. /\ life[p] = "open" /\ view' = [view EXCEPT ![p] = rows[session[p]]]
        /\ UNCHANGED <<around, rows, entries, forked>>
    BY <1>1 DEF BrowserRound, InSync, Writable
  <2>2. shown \in Seq(Drafts)
    BY <2>1, OpenRow
  <2>3. PICK d : /\ dialog' = [dialog EXCEPT ![p] = d]
                 /\ \/ d = NoDialog
                    \/ \E e \in ToSet(shown) : d = [at |-> "entry", id |-> e]
                    \/ d = [at |-> "clear", seen |-> shown, again |-> dialog[p] # NoDialog]
    BY <1>1 DEF BrowserRound, Closes, Shows
  <2>4. d \in Dialogs /\ d.at # "recover"
    <3>1. ASSUME NEW e \in ToSet(shown), d = [at |-> "entry", id |-> e] PROVE d \in Dialogs /\ d.at # "recover"
      <4>1. e \in Drafts BY <2>2 DEF ToSet
      <4> QED BY <3>1, <4>1 DEF Dialogs
    <3>2. ASSUME d = [at |-> "clear", seen |-> shown, again |-> dialog[p] # NoDialog]
          PROVE  d \in Dialogs /\ d.at # "recover"
      <4> DEFINE again == (dialog[p] # NoDialog)
      <4>1. again \in BOOLEAN OBVIOUS
      <4>2. d = [at |-> "clear", seen |-> shown, again |-> again] BY <3>2
      <4> HIDE DEF again, shown
      <4> QED BY <2>2, <4>1, <4>2 DEF Dialogs
    <3> QED BY <2>3, <3>1, <3>2, PlainDialogs
  <2> HIDE DEF shown
  <2> QED BY <2>1, <2>3, <2>4, TalkKeepsInv
<1>2. CASE BrowserFails(p)
  BY <1>2, PlainDialogs, TalkKeepsInv DEF BrowserFails, Closes
<1> QED BY <1>1, <1>2

LEMMA DeleteKeepsInv ==
  ASSUME MInv, NEW p \in Procs, DeleteEntry(p), editor' = None
  PROVE  MInv'
<1>1. /\ UNCHANGED <<around, entries, forked>> /\ life[p] \in {"open", "closed"}
      /\ dialog' = [dialog EXCEPT ![p] = [at |-> "browser"]]
  BY InDialog DEF DeleteEntry, Shows
<1>2. RowsStep /\ Shown(p)
  <2>1. CASE Writable(p) /\ Contains(Queue(p), dialog[p].id) /\ Commit(p, RemoveAt(Queue(p), IndexOf(Queue(p), dialog[p].id)))
    <3>1. IndexOf(Queue(p), dialog[p].id) \in 1..Len(Queue(p))
      BY <2>1, OpenRow, FoundAt DEF Writable
    <3> QED BY <1>1, <2>1, <3>1, Removes DEF around
  <2>2. CASE Writable(p) /\ Adopt(p)
    BY <1>1, <2>2, Adopts DEF around
  <2>3. CASE UNCHANGED <<rows, view>>
    BY <1>1, <2>3, RowsRest, ViewRests DEF around
  <2> QED BY <2>1, <2>2, <2>3 DEF DeleteEntry
<1>3. entries' \in 0..MaxEntries
  BY <1>1 DEF MInv, Types
<1> QED BY <1>1, <1>2, <1>3, PlainDialogs, CommandKeepsInv

LEMMA ClearKeepsInv ==
  ASSUME MInv, NEW p \in Procs, ConfirmClear(p), editor' = None
  PROVE  MInv'
<1>1. /\ UNCHANGED <<around, entries, forked>> /\ dialog' = [dialog EXCEPT ![p] = NoDialog]
  BY DEF ConfirmClear, Closes
<1>e. entries' \in 0..MaxEntries /\ entries' \in Nat /\ entries' >= entries
  BY <1>1 DEF MInv, Types
<1>2. RowsStep /\ Shown(p)
  <2>1. CASE Writable(p) /\ Commit(p, <<>>)
    <3> DEFINE q == <<>>
    <3>1. q \in Seq(Drafts) /\ Len(q) <= MAGAZINE_MAX /\ IsInjective(q) /\ \A e \in Drafts : ~Contains(q, e)
      BY MagazineAssumption DEF IsInjective, Contains
    <3>2. Commit(p, q)
      BY <2>1
    <3> HIDE DEF q
    <3> QED BY <1>1, <1>e, <2>1, <3>1, <3>2, Commits DEF around
  <2>2. CASE Writable(p) /\ Adopt(p)
    BY <1>1, <2>2, Adopts DEF around
  <2>3. CASE UNCHANGED <<rows, view>>
    BY <1>1, <2>3, RowsRest, ViewRests DEF around
  <2> QED BY <2>1, <2>2, <2>3 DEF ConfirmClear
<1> QED BY <1>1, <1>e, <1>2, PlainDialogs, CommandKeepsInv

(* Leaving a dialog, or going back to the browser.                         *)
LEMMA LeaveKeepsInv ==
  ASSUME MInv, NEW p \in Procs, editor' = None,
         LeaveEntry(p) \/ DeclineClear(p) \/ Escape(p) \/ DeclineRecovery(p)
  PROVE  MInv'
<1>1. /\ UNCHANGED <<around, rows, view, entries, forked>>
      /\ \/ dialog' = [dialog EXCEPT ![p] = NoDialog]
         \/ dialog' = [dialog EXCEPT ![p] = [at |-> "browser"]]
  BY DEF LeaveEntry, DeclineClear, Escape, DeclineRecovery, Shows, Closes
<1>2. life[p] \in {"open", "closed"}
  BY InDialog DEF LeaveEntry, DeclineClear, Escape, DeclineRecovery
<1> QED BY <1>1, <1>2, PlainDialogs, TalkKeepsInv

-----------------------------------------------------------------------------
(* Order mode.                                                             *)

(* The cursor stays on its entry while it is there, and a grab ends with   *)
(* the entry.                                                              *)
LEMMA Reconciled ==
  ASSUME NEW q \in Seq(Drafts), NEW d \in OrderDialogs
  PROVE  /\ Reconcile(q, d) \in OrderDialogs
         /\ Reconcile(q, d).grabbed => d.grabbed /\ Reconcile(q, d).cursor = d.cursor
         /\ Reconcile(q, d).cursor # None => Reconcile(q, d).index \in 1..Len(q)
<1> DEFINE x == Reconcile(q, d)
<1>1. CASE q = <<>>
  <2> DEFINE g == FALSE
             i == 1
             c == None
  <2>1. x = [d EXCEPT !.cursor = c, !.index = i, !.grabbed = g]
    BY <1>1 DEF Reconcile
  <2>b. g = FALSE /\ g \in BOOLEAN /\ i \in Nat \ {0} /\ c = None /\ c \in Drafts \cup {None}
    OBVIOUS
  <2> HIDE DEF g, i, c, x
  <2>2. x \in OrderDialogs /\ x.cursor = None /\ x.grabbed = FALSE
    BY <2>1, <2>b DEF OrderDialogs
  <2> QED BY <2>2 DEF x
<1>2. CASE q # <<>> /\ Contains(q, d.cursor)
  <2> DEFINE i == IndexOf(q, d.cursor)
  <2>1. i \in 1..Len(q)
    BY <1>2, FoundAt
  <2>2. x = [d EXCEPT !.index = i]
    BY <1>2 DEF Reconcile
  <2> HIDE DEF i, x
  <2>3. x \in OrderDialogs /\ x.cursor = d.cursor /\ x.grabbed = d.grabbed /\ x.index = i
    BY <2>1, <2>2 DEF OrderDialogs
  <2> QED BY <2>1, <2>3 DEF x
<1>3. CASE q # <<>> /\ ~Contains(q, d.cursor)
  <2> DEFINE i == IF d.index <= Len(q) THEN d.index ELSE Len(q)
             c == q[i]
             g == FALSE
  <2>1. x = [d EXCEPT !.index = i, !.cursor = c, !.grabbed = g]
    BY <1>3 DEF Reconcile
  <2>2. i \in 1..Len(q) /\ c \in Drafts /\ g = FALSE /\ g \in BOOLEAN
    BY <1>3 DEF OrderDialogs
  <2>b. i \in Nat \ {0} /\ c \in Drafts \cup {None}
    BY <2>2
  <2> HIDE DEF g, i, c, x
  <2>3. x \in OrderDialogs /\ x.index = i /\ x.grabbed = FALSE
    BY <2>1, <2>2, <2>b DEF OrderDialogs
  <2> QED BY <2>2, <2>3 DEF x
<1> QED BY <1>1, <1>2, <1>3

LEMMA OpenOrderKeepsInv ==
  ASSUME MInv, NEW p \in Procs, OpenOrder(p), editor' = None
  PROVE  MInv'
<1>1. UNCHANGED <<around, rows, entries, forked>>
  BY DEF OpenOrder
<1>2. CASE dialog' = [dialog EXCEPT ![p] = NoDialog]
  BY <1>1, <1>2, PlainDialogs, TalkKeepsInv DEF OpenOrder, InSync, Writable
<1>3. CASE InSync(p) /\ Contains(rows[session[p]].queue, dialog[p].id)
  <2> DEFINE q == rows[session[p]].queue
             d == [at |-> "order", cursor |-> dialog[p].id, index |-> IndexOf(q, dialog[p].id), grabbed |-> TRUE]
  <2>1. /\ life[p] = "open" /\ view' = [view EXCEPT ![p] = rows[session[p]]]
        /\ dialog' = [dialog EXCEPT ![p] = d]
    BY <1>3 DEF OpenOrder, Shows, InSync, Writable
  <2>2. q \in Seq(Drafts)
    BY <2>1, OpenRow
  <2>3. IndexOf(q, dialog[p].id) \in 1..Len(q)
    BY <1>3, <2>2, FoundAt
  <2>4. dialog[p].id \in Drafts
    BY InDialog DEF OpenOrder
  <2>5. d \in Dialogs /\ d.at = "order"
    BY <2>2, <2>3, <2>4 DEF Dialogs, OrderDialogs
  <2> HIDE DEF d
  <2> QED BY <1>1, <2>1, <2>5, TalkKeepsInv
<1> QED BY <1>2, <1>3 DEF OpenOrder, Closes

LEMMA KeysKeepInv ==
  ASSUME MInv, NEW p \in Procs, Repaint(p) \/ Enter(p), editor' = None
  PROVE  MInv'
<1>1. /\ UNCHANGED <<around, rows, view, entries, forked>> /\ dialog[p] \in OrderDialogs
      /\ life[p] \in {"open", "closed"}
  BY InDialog DEF Repaint, Enter
<1>2. view[p].queue \in Seq(Drafts)
  BY DEF MInv, Types, Rows
<1> DEFINE r == Reconcile(view[p].queue, dialog[p])
<1>3. r \in OrderDialogs
  BY <1>1, <1>2, Reconciled
<1>4. PICK d \in OrderDialogs : dialog' = [dialog EXCEPT ![p] = d]
  <2>1. CASE Repaint(p)
    BY <1>3, <2>1 DEF Repaint, Shows
  <2>2. CASE Enter(p)
    <3>1. [r EXCEPT !.grabbed = ~@] \in OrderDialogs
      <4> HIDE DEF r
      <4> QED BY <1>3 DEF OrderDialogs
    <3> QED BY <1>3, <2>2, <3>1 DEF Enter, Shows
  <2> QED BY <2>1, <2>2
<1>5. d \in Dialogs /\ d.at # "recover"
  BY DEF Dialogs, OrderDialogs
<1> QED BY <1>1, <1>4, <1>5, TalkKeepsInv

(* moveById: the entry is moved in the row that the transaction finds.     *)
LEMMA MovesById ==
  ASSUME MInv, NEW p \in Procs, NEW e \in Drafts, NEW delta \in Int, MoveById(p, e, delta),
         UNCHANGED <<around, entries, forked>>
  PROVE  RowsStep /\ Shown(p)
<1> DEFINE q == Queue(p)
           moved == IF Contains(q, e) THEN Move(q, IndexOf(q, e), IndexOf(q, e) + delta) ELSE q
<1>1. CASE Writable(p) /\ Commit(p, moved)
  <2>1. q \in Seq(Drafts) /\ Len(q) <= MAGAZINE_MAX /\ IsInjective(q) /\ q = rows[session[p]].queue
    BY <1>1, OpenRow DEF Writable
  <2> HIDE DEF q
  <2>2. /\ moved \in Seq(Drafts) /\ Len(moved) <= MAGAZINE_MAX /\ IsInjective(moved)
        /\ \A x : Contains(moved, x) <=> Contains(q, x)
    <3>1. CASE Contains(q, e)
      <4>1. IndexOf(q, e) \in 1..Len(q)
        BY <2>1, <3>1, FoundAt
      <4>2. IndexOf(q, e) + delta \in Int
        BY <4>1
      <4> QED BY <2>1, <3>1, <4>1, <4>2, MoveProperties
    <3>2. CASE ~Contains(q, e)
      BY <2>1, <3>2
    <3> QED BY <3>1, <3>2
  <2>3. entries' \in Nat /\ entries' >= entries
    BY DEF MInv, Types
  <2> HIDE DEF moved
  <2>4. \A x \in Drafts : Contains(moved, x) => InRow(session[p], x)
    BY <2>1, <2>2 DEF InRow
  <2> QED BY <1>1, <2>2, <2>3, <2>4, Commits DEF around
<1>2. CASE Writable(p) /\ Adopt(p)
  BY <1>2, Adopts DEF around
<1>3. CASE UNCHANGED <<rows, view>>
  BY <1>3, RowsRest, ViewRests DEF around
<1> QED BY <1>1, <1>2, <1>3 DEF MoveById

LEMMA ArrowKeepsInv ==
  ASSUME MInv, NEW p \in Procs, NEW delta \in Int, Arrow(p, delta), editor' = None
  PROVE  MInv'
<1> DEFINE shown == view[p].queue
           d == Reconcile(shown, dialog[p])
           to == IF d.index + delta \in DOMAIN shown THEN d.index + delta ELSE d.index
<1>1. /\ UNCHANGED <<around, entries, forked>> /\ dialog[p] \in OrderDialogs
      /\ life[p] \in {"open", "closed"}
  BY InDialog DEF Arrow
<1>2. shown \in Seq(Drafts)
  BY DEF MInv, Types, Rows
<1>3. d \in OrderDialogs /\ (d.cursor # None => d.index \in 1..Len(shown))
  BY <1>1, <1>2, Reconciled
<1>e. entries' \in 0..MaxEntries
  BY <1>1 DEF MInv, Types
<1>4. \A x \in OrderDialogs : x \in Dialogs /\ x.at # "recover"
  BY DEF Dialogs, OrderDialogs
<1>5. CASE d.cursor = None
  BY <1>1, <1>3, <1>4, <1>5, TalkKeepsInv DEF Arrow, Shows
<1>6. CASE d.cursor # None /\ d.grabbed
  <2>1. MoveById(p, d.cursor, delta) /\ dialog' = [dialog EXCEPT ![p] = Reconcile(view'[p].queue, d)]
    BY <1>6 DEF Arrow, Shows
  <2>2. d.cursor \in Drafts
    BY <1>3, <1>6 DEF OrderDialogs
  <2> HIDE DEF d
  <2>3. RowsStep /\ Shown(p)
    BY <1>1, <2>1, <2>2, MovesById
  <2>4. view'[p].queue \in Seq(Drafts)
    BY <2>3 DEF Shown, Rows
  <2>5. Reconcile(view'[p].queue, d) \in OrderDialogs
    BY <1>3, <2>4, Reconciled
  <2> QED BY <1>1, <1>e, <1>4, <2>1, <2>3, <2>5, CommandKeepsInv
<1>7. CASE d.cursor # None /\ ~d.grabbed
  <2>1. /\ dialog' = [dialog EXCEPT ![p] = [d EXCEPT !.index = to, !.cursor = shown[to]]]
        /\ UNCHANGED <<rows, view>>
    BY <1>7 DEF Arrow, Shows
  <2>2. to \in 1..Len(shown) /\ shown[to] \in Drafts
    BY <1>2, <1>3, <1>7
  <2> DEFINE c == shown[to]
  <2>b. to \in Nat \ {0} /\ c \in Drafts
    BY <1>2, <2>2
  <2> HIDE DEF d, to, c
  <2>3. [d EXCEPT !.index = to, !.cursor = c] \in OrderDialogs
    BY <1>3, <2>b DEF OrderDialogs
  <2> QED BY <1>1, <1>4, <2>1, <2>3, TalkKeepsInv DEF c
<1> QED BY <1>5, <1>6, <1>7

-----------------------------------------------------------------------------
(* Recovery.                                                               *)

LEMMA OpenRecoveryKeepsInv ==
  ASSUME MInv, NEW p \in Procs, NEW s \in Sessions, OpenRecovery(p, s), editor' = None
  PROVE  MInv'
<1>1. /\ life[p] = "open" /\ view' = [view EXCEPT ![p] = rows[session[p]]]
      /\ UNCHANGED <<around, rows, entries, forked>> /\ dialog[p] = NoDialog
  BY DEF OpenRecovery, InSync, Writable
<1>2. CASE dialog' = dialog
  <2>1. dialog' = [dialog EXCEPT ![p] = NoDialog]
    BY <1>1, <1>2 DEF MInv, Types
  <2> QED BY <1>1, <2>1, PlainDialogs, TalkKeepsInv
<1>3. CASE Recoverable(s, session[p]) /\
           Shows(p, [at |-> "recover", source |-> s, revision |-> rows[s].revision, seen |-> rows[s].queue])
  <2>0. PICK d : d = [at |-> "recover", source |-> s, revision |-> rows[s].revision, seen |-> rows[s].queue]
    OBVIOUS
  <2>1. rows[s] \in Rows /\ RowInv(s)
    BY DEF MInv, Types
  <2>2. d \in Dialogs /\ d.at = "recover" /\ d.source = s /\ d.revision = rows[s].revision /\ d.seen = rows[s].queue
    BY <2>0, <2>1 DEF Dialogs, Rows
  <2>3. s # session[p] /\ rows[s].revision # -1
    BY <1>3, <2>1 DEF Recoverable, Row, RowInv, NoRow
  <2>4. dialog' = [dialog EXCEPT ![p] = d]
    BY <1>3, <2>0 DEF Shows
  <2>5. Saw(d.source, d.revision, d.seen)'
    <3>1. Saw(s, rows[s].revision, rows[s].queue)
      BY <2>1, <2>3 DEF Saw, Rows
    <3> QED BY <1>1, <2>2, <3>1 DEF Saw
  <2> QED BY <1>1, <2>2, <2>3, <2>4, <2>5, TalkKeepsInv
<1> QED BY <1>2, <1>3 DEF OpenRecovery

(* recoverInto moves a queue: the source is left empty, the target was.    *)
LEMMA Recovers ==
  ASSUME MInv, NEW p \in Procs, life[p] = "open", NEW src \in Sessions, src # session[p],
         NEW filled, filled = [queue |-> Row(src).queue, revision |-> Row(session[p]).revision + 1],
         filled.revision <= MaxRevision, Row(src).revision < MaxRevision, Row(session[p]).queue = <<>>,
         rows' = [rows EXCEPT ![session[p]] = filled, ![src] = Drained(@)],
         view' = [view EXCEPT ![p] = filled], UNCHANGED <<session, entries, forked>>
  PROVE  RowsStep /\ Shown(p)
<1>0. PICK s \in Sessions : s = session[p] /\ Row(s) = rows[s] /\ rows[s].revision \in Nat
  BY OpenRow
<1>1. /\ rows[src] \in Rows /\ RowInv(src) /\ rows[src].revision \in Int /\ rows[src].revision >= -1
      /\ Row(src).queue = rows[src].queue /\ rows[src].queue \in Seq(Drafts)
      /\ rows[src].revision + 1 <= MaxRevision
  <2>1. rows[src] \in Rows /\ RowInv(src)
    BY DEF MInv, Types
  <2>2. rows[src].revision \in Int /\ rows[src].revision >= -1 /\ rows[src].queue \in Seq(Drafts)
    BY <2>1 DEF RowInv, Bounded, Rows
  <2>3. CASE rows[src] = NoRow
    <3>1. Row(src) = [queue |-> <<>>, revision |-> 0] /\ rows[src].queue = <<>> /\ rows[src].revision = -1
      BY <2>3 DEF Row, NoRow
    <3>2. Row(src).queue = <<>>
      BY <3>1
    <3> QED BY <2>1, <2>2, <3>1, <3>2, MagazineAssumption
  <2>4. CASE rows[src] # NoRow
    BY <2>1, <2>2, <2>4, MagazineAssumption DEF Row
  <2> QED BY <2>1, <2>2, <2>3, <2>4
<1> DEFINE drained == Drained(rows[src])
<1>2. /\ drained \in Rows /\ drained.queue = <<>> /\ drained.revision = rows[src].revision + 1
      /\ Bounded(drained) /\ drained.revision # -1
  BY <1>1, MagazineAssumption DEF Drained, Rows, Bounded
<1>3. /\ filled \in Rows /\ filled.queue = rows[src].queue /\ filled.revision = rows[s].revision + 1
      /\ Bounded(filled) /\ filled.revision # -1
  BY <1>0, <1>1 DEF Rows, Bounded, RowInv
<1> HIDE DEF drained
<1>4. /\ rows' \in [Sessions -> Rows] /\ rows'[s] = filled /\ rows'[src] = drained
      /\ \A t \in Sessions \ {s, src} : rows'[t] = rows[t]
      /\ view' \in [Procs -> Rows] /\ view'[p] = filled /\ \A q \in Procs \ {p} : view'[q] = view[q]
  <2>1. rows' = [rows EXCEPT ![s] = filled, ![src] = drained]
    BY <1>0 DEF drained
  <2> QED BY <1>0, <1>2, <1>3, <2>1 DEF MInv, Types
<1>5. Grows
  BY <1>0, <1>1, <1>2, <1>3, <1>4 DEF Grows
<1>6. \A e \in Drafts : ~InRow(src, e)' /\ (InRow(s, e)' <=> InRow(src, e))
  BY <1>2, <1>3, <1>4 DEF InRow, Contains
<1>7. \A t \in Sessions \ {s, src}, e \in Drafts : InRow(t, e)' <=> InRow(t, e)
  BY <1>4 DEF InRow
<1>8. ASSUME NEW t \in Sessions PROVE RowInv(t)'
  <2>1. \A e \in Drafts : InRow(t, e)' => e <= entries'
    BY <1>6, <1>7 DEF MInv, RowInv
  <2>2. RowInv(t)
    BY DEF MInv
  <2>3. CASE t = s
    BY <1>1, <1>3, <1>4, <2>1, <2>3 DEF RowInv
  <2>4. CASE t = src
    BY <1>2, <1>4, <2>1, <2>4 DEF RowInv, IsInjective
  <2>5. CASE t \in Sessions \ {s, src}
    <3>1. rows'[t] = rows[t] BY <1>4, <2>5
    <3> QED BY <2>1, <2>2, <3>1 DEF RowInv, Bounded
  <2> QED BY <2>3, <2>4, <2>5
<1>9. Sharing'
  <2>1. ASSUME NEW t \in Sessions, NEW u \in Sessions, t # u, NEW e \in Drafts, InRow(t, e)', InRow(u, e)'
        PROVE  e \in forked
    <3>1. \E v, w \in Sessions : v # w /\ InRow(v, e) /\ InRow(w, e)
      BY <1>0, <1>6, <1>7, <2>1
    <3> QED BY <3>1 DEF MInv, Sharing
  <2> QED BY <2>1 DEF Sharing
<1>10. Saw(session[p], view[p].revision, view[p].queue)'
  BY <1>0, <1>3, <1>4 DEF Saw, Rows
<1>11. Bounded(view'[p])
  BY <1>3, <1>4
<1> QED BY <1>4, <1>5, <1>8, <1>9, <1>10, <1>11 DEF RowsStep, Shown

LEMMA ConfirmRecoveryKeepsInv ==
  ASSUME MInv, NEW p \in Procs, ConfirmRecovery(p), editor' = None
  PROVE  MInv'
<1>1. /\ UNCHANGED <<around, entries, forked>> /\ dialog' = [dialog EXCEPT ![p] = NoDialog]
  BY DEF ConfirmRecovery, Closes
<1>2. dialog[p].source \in Sessions /\ dialog[p].source # session[p]
  BY InDialog DEF ConfirmRecovery, MInv, DialogInv
<1>3. RowsStep /\ Shown(p)
  <2>1. CASE ~Writable(p) \/ ~SourceUnchanged(dialog[p])
    <3>1. UNCHANGED <<rows, view>>
      BY <2>1 DEF ConfirmRecovery
    <3> QED BY <1>1, <3>1, RowsRest, ViewRests DEF around
  <2>2. CASE Writable(p) /\ SourceUnchanged(dialog[p]) /\ Row(session[p]).queue # <<>>
    <3>1. view' = [view EXCEPT ![p] = Row(session[p])] /\ UNCHANGED rows
      BY <2>2 DEF ConfirmRecovery
    <3> QED BY <1>1, <2>2, <3>1, OpenRow, RowsRest, Refreshes DEF around, Writable
  <2>3. CASE Writable(p) /\ SourceUnchanged(dialog[p]) /\ Row(session[p]).queue = <<>>
    <3>1. PICK filled : filled = [queue |-> Row(dialog[p].source).queue, revision |-> Row(session[p]).revision + 1]
      OBVIOUS
    <3>2. /\ filled.revision <= MaxRevision /\ Row(dialog[p].source).revision < MaxRevision
          /\ rows' = [rows EXCEPT ![session[p]] = filled, ![dialog[p].source] = Drained(@)]
          /\ view' = [view EXCEPT ![p] = filled]
      BY <2>3, <3>1 DEF ConfirmRecovery
    <3> QED BY <1>1, <1>2, <2>3, <3>1, <3>2, Recovers DEF around, Writable
  <2> QED BY <2>1, <2>2, <2>3
<1>e. entries' \in 0..MaxEntries
  BY <1>1 DEF MInv, Types
<1> QED BY <1>1, <1>e, <1>3, PlainDialogs, CommandKeepsInv

-----------------------------------------------------------------------------
(* Sessions begin and end.                                                 *)

(* loadOrCreate on a session without a row: what a fork copies is recorded.*)
LEMMA Loads ==
  ASSUME MInv, NEW p \in Procs, Load(p), editor' = None
  PROVE  MInv'
<1>0. PICK s \in Sessions : s = session[p]
  BY DEF Load, MInv, ViewInv
<1>1. PICK copied : copied = IF parent[p] # None /\ rows[s] = NoRow THEN Row(parent[p]).queue ELSE <<>>
  OBVIOUS
<1>2. PICK row : row = IF rows[s] # NoRow THEN rows[s] ELSE [queue |-> copied, revision |-> 0]
  OBVIOUS
<1>3. /\ life[p] = "starting"
      /\ rows' = [rows EXCEPT ![s] = row] /\ view' = [view EXCEPT ![p] = row]
      /\ forked' = forked \cup ToSet(copied)
      /\ life' = [life EXCEPT ![p] = "open"] /\ parent' = [parent EXCEPT ![p] = None]
      /\ UNCHANGED <<files, session, dialog, entries, starts>>
  BY <1>0, <1>1, <1>2 DEF Load
<1>4. /\ copied \in Seq(Drafts) /\ Len(copied) <= MAGAZINE_MAX /\ IsInjective(copied)
      /\ \A e \in Drafts : Contains(copied, e) => e <= entries
  <2>1. CASE copied = <<>>
    BY <2>1, MagazineAssumption DEF IsInjective, Contains
  <2>2. ASSUME NEW t \in Sessions, copied = Row(t).queue, rows[t] # NoRow
        PROVE  /\ copied \in Seq(Drafts) /\ Len(copied) <= MAGAZINE_MAX /\ IsInjective(copied)
               /\ \A e \in Drafts : Contains(copied, e) => e <= entries
    BY <2>2 DEF Row, MInv, Types, Rows, RowInv, Bounded, InRow
  <2>3. parent[p] # None => parent[p] \in Sessions
    BY DEF MInv, Types
  <2>4. copied # <<>> => parent[p] \in Sessions /\ copied = Row(parent[p]).queue /\ rows[parent[p]] # NoRow
    BY <1>1, <2>3 DEF Row
  <2> QED BY <2>1, <2>2, <2>4
<1>5. row \in Rows /\ Bounded(row) /\ row.revision # -1 /\ IsInjective(row.queue)
  <2>1. CASE rows[s] # NoRow
    BY <1>2, <2>1 DEF MInv, Types, RowInv
  <2>2. CASE rows[s] = NoRow
    <3>1. row \in Rows /\ row.queue = copied /\ row.revision = 0
      BY <1>2, <1>4, <2>2 DEF Rows
    <3> QED BY <1>4, <3>1, MagazineAssumption DEF Bounded
  <2> QED BY <2>1, <2>2
<1>6. /\ rows' \in [Sessions -> Rows] /\ rows'[s] = row /\ \A t \in Sessions \ {s} : rows'[t] = rows[t]
      /\ view' \in [Procs -> Rows] /\ view'[p] = row /\ \A q \in Procs \ {p} : view'[q] = view[q]
  BY <1>3, <1>5 DEF MInv, Types
<1>7. Grows
  <2>1. rows[s] = NoRow => row.revision = 0 /\ rows[s].revision = -1
    BY <1>2 DEF NoRow
  <2> QED BY <1>2, <1>6, <2>1 DEF Grows
<1>8. \A e \in Drafts : InRow(s, e)' => InRow(s, e) \/ (rows[s] = NoRow /\ Contains(copied, e))
  BY <1>2, <1>6 DEF InRow
<1>9. \A t \in Sessions \ {s}, e \in Drafts : InRow(t, e)' <=> InRow(t, e)
  BY <1>6 DEF InRow
<1>10. ASSUME NEW t \in Sessions PROVE RowInv(t)'
  <2>1. RowInv(t) /\ RowInv(s)
    BY DEF MInv
  <2>2. \A e \in Drafts : InRow(t, e)' => e <= entries'
    BY <1>3, <1>4, <1>8, <1>9, <2>1 DEF RowInv
  <2>3. CASE t = s
    BY <1>5, <1>6, <2>2, <2>3 DEF RowInv
  <2>4. CASE t # s
    <3>1. rows'[t] = rows[t] BY <1>6, <2>4
    <3> QED BY <2>1, <2>2, <3>1 DEF RowInv, Bounded
  <2> QED BY <2>3, <2>4
<1>11. \A e \in Drafts : Contains(copied, e) => e \in forked'
  BY <1>3, <1>4, Members
<1>12. Sharing'
  <2>1. ASSUME NEW t \in Sessions, NEW u \in Sessions, t # u, NEW e \in Drafts, InRow(t, e)', InRow(u, e)'
        PROVE  e \in forked'
    <3>1. CASE Contains(copied, e)
      BY <1>11, <3>1
    <3>2. CASE ~Contains(copied, e)
      <4>1. InRow(t, e) /\ InRow(u, e)
        BY <1>8, <1>9, <2>1, <3>2
      <4> QED BY <1>3, <2>1, <4>1 DEF MInv, Sharing
    <3> QED BY <3>1, <3>2
  <2> QED BY <2>1 DEF Sharing
<1>13. RowsStep
  BY <1>6, <1>7, <1>10, <1>12 DEF RowsStep
<1>14. Types'
  <2>1. \A x \in ToSet(copied) : x \in Drafts
    BY <1>4 DEF ToSet
  <2> QED BY <1>3, <1>6, <2>1 DEF MInv, Types
<1>15. life'[p] = "open" /\ \A q \in Procs \ {p} : life'[q] = life[q]
  BY <1>3 DEF MInv, Types
<1>16. ViewInv(p)'
  BY <1>0, <1>3, <1>5, <1>6, <1>15 DEF ViewInv, Saw, Rows
<1>17. DialogInv(p)'
  BY <1>3, InDialog, <1>15 DEF DialogInv
<1> QED BY <1>3, <1>6, <1>13, <1>14, <1>15, <1>16, <1>17, StepKeepsInv

LEMMA LifecycleKeepsInv ==
  ASSUME MInv, NEW p \in Procs, Lifecycle(p), editor' = None
  PROVE  MInv'
<1>d. dialog[p].at # "none" => life[p] \in {"open", "closed"}
  BY InDialog
<1>v. Bounded(view[p]) /\ ViewInv(p) /\ DialogInv(p)
  BY DEF MInv, ViewInv
<1>1. ASSUME NEW s \in Sessions, NEW from \in Sessions \cup {None}, SessionStart(p, s, from) PROVE MInv'
  <2>1. RowsStep
    BY <1>1, RowsRest DEF SessionStart
  <2>2. Types'
    BY <1>1, MagazineAssumption DEF SessionStart, MInv, Types
  <2>3. /\ session'[p] = s /\ life'[p] = "starting" /\ UNCHANGED <<view, dialog>>
        /\ \A q \in Procs \ {p} : life'[q] = life[q] /\ session'[q] = session[q]
    BY <1>1 DEF SessionStart, MInv, Types
  <2>4. dialog[p].at = "none"
    BY <1>1, <1>d DEF SessionStart
  <2> QED BY <1>v, <2>1, <2>2, <2>3, <2>4, StepKeepsInv DEF ViewInv, DialogInv
<1>2. CASE InitializationFails(p)
  <2>1. RowsStep
    BY <1>2, RowsRest DEF InitializationFails
  <2>2. Types'
    BY <1>2 DEF InitializationFails, MInv, Types
  <2>3. /\ life'[p] = "closed" /\ UNCHANGED <<view, dialog, session>>
        /\ \A q \in Procs \ {p} : life'[q] = life[q]
    BY <1>2 DEF InitializationFails, MInv, Types
  <2>4. dialog[p].at = "none"
    BY <1>2, <1>d DEF InitializationFails
  <2> QED BY <1>v, <2>1, <2>2, <2>3, <2>4, StepKeepsInv DEF ViewInv, DialogInv
<1>3. CASE SessionEnds(p)
  <2>1. RowsStep
    BY <1>3, RowsRest DEF SessionEnds
  <2>n. NoRow \in Rows /\ Bounded(NoRow)
    BY MagazineAssumption DEF NoRow, Rows, Bounded
  <2>2. Types'
    BY <1>3, <2>n, PlainDialogs DEF SessionEnds, MInv, Types
  <2>3. /\ life'[p] = "off" /\ view'[p] = NoRow /\ dialog'[p] = NoDialog
        /\ \A q \in Procs \ {p} : /\ view'[q] = view[q] /\ life'[q] = life[q]
                                 /\ session'[q] = session[q] /\ dialog'[q] = dialog[q]
    BY <1>3 DEF SessionEnds, MInv, Types
  <2> QED BY <2>n, <2>1, <2>2, <2>3, PlainDialogs, StepKeepsInv DEF ViewInv, DialogInv
<1>4. CASE Poll(p)
  <2>1. dialog' = [dialog EXCEPT ![p] = dialog[p]]
    BY <1>4 DEF Poll, MInv, Types
  <2>2. dialog[p] \in Dialogs /\ UNCHANGED <<around, rows, entries, forked>>
    BY <1>4, InDialog DEF Poll, around
  <2>3. dialog[p].at = "recover" =>
           dialog[p].source # session[p] /\ Saw(dialog[p].source, dialog[p].revision, dialog[p].seen)
    BY <1>v DEF DialogInv
  <2>4. PICK d \in Dialogs : d = dialog[p]
    BY <2>2
  <2>5. d.at = "recover" => d.source # session[p] /\ Saw(d.source, d.revision, d.seen)'
    BY <2>2, <2>3, <2>4 DEF Saw
  <2> QED BY <1>4, <1>d, <2>1, <2>2, <2>4, <2>5, TalkKeepsInv DEF Poll, Polls
<1>5. CASE PollFails(p)
  <2>0. life[p] = "open" /\ session[p] \in Sessions /\ rows[session[p]] \in Rows /\ Bounded(rows[session[p]])
    BY <1>5, OpenRow DEF PollFails, Polls, MInv, Types, RowInv
  <2>1. RowsStep
    BY <1>5, RowsRest DEF PollFails
  <2>2. Types'
    BY <1>5, <2>0 DEF PollFails, MInv, Types
  <2>3. /\ life'[p] = "closed" /\ view'[p] = rows[session[p]] /\ UNCHANGED <<session, dialog, rows>>
        /\ \A q \in Procs \ {p} : view'[q] = view[q] /\ life'[q] = life[q]
    BY <1>5 DEF PollFails, MInv, Types
  <2>4. ViewInv(p)'
    BY <2>0, <2>3 DEF ViewInv, Bounded
  <2>5. DialogInv(p)'
    BY <1>v, <2>3 DEF DialogInv, Saw
  <2> QED BY <2>1, <2>2, <2>3, <2>4, <2>5, StepKeepsInv
<1> QED BY <1>1, <1>2, <1>3, <1>4, <1>5, Loads DEF Lifecycle

LEMMA MagazineInitially == Init => MInv
<1> SUFFICES ASSUME Init PROVE MInv
  OBVIOUS
<1>1. NoRow \in Rows /\ Bounded(NoRow) /\ IsInjective(NoRow.queue) /\ \A e : ~Contains(NoRow.queue, e)
  BY MagazineAssumption DEF NoRow, Rows, Bounded, IsInjective, Contains
<1>2. Types
  BY <1>1, PlainDialogs, MagazineAssumption DEF Init, Types
<1>3. \A s \in Sessions : rows[s] = NoRow
  BY DEF Init
<1>4. \A p \in Procs : view[p] = NoRow /\ life[p] = "off" /\ dialog[p] = NoDialog
  BY DEF Init
<1> QED BY <1>1, <1>2, <1>3, <1>4, PlainDialogs DEF MInv, RowInv, Sharing, ViewInv, DialogInv, InRow

LEMMA MagazineNext == MInv /\ [Next]_vars => MInv'
<1> SUFFICES ASSUME MInv, [Next]_vars PROVE MInv'
  OBVIOUS
<1>1. ASSUME NEW p \in Procs, Command(p), editor' = None PROVE MInv'
  BY <1>1, StashKeepsInv, BrowserKeepsInv, DeleteKeepsInv, LeaveKeepsInv, ClearKeepsInv, OpenOrderKeepsInv,
     KeysKeepInv, ArrowKeepsInv, OpenRecoveryKeepsInv, ConfirmRecoveryKeepsInv DEF Command
<1>2. ASSUME NEW s \in Sessions, FileWritten(s) \/ FileDeleted(s), editor' = None PROVE MInv'
  <2>1. /\ UNCHANGED <<rows, life, session, parent, view, dialog, entries, starts, forked>>
        /\ files' \in SUBSET Sessions
    BY <1>2 DEF FileWritten, FileDeleted, MInv, Types
  <2>2. RowsStep
    BY <2>1, RowsRest
  <2>3. Types'
    BY <1>2, <2>1 DEF MInv, Types
  <2>4. \A p \in Procs : ViewInv(p)' /\ DialogInv(p)'
    BY <2>1 DEF MInv, ViewInv, DialogInv, Saw, Bounded
  <2> QED BY <2>2, <2>3, <2>4 DEF MInv, RowsStep
<1>3. CASE UNCHANGED vars
  <2>1. RowsStep
    BY <1>3, RowsRest DEF vars
  <2>2. Types'
    BY <1>3 DEF vars, MInv, Types
  <2>3. \A p \in Procs : ViewInv(p)' /\ DialogInv(p)'
    BY <1>3 DEF vars, MInv, ViewInv, DialogInv, Saw, Bounded
  <2> QED BY <2>1, <2>2, <2>3 DEF MInv, RowsStep
<1> QED BY <1>1, <1>2, <1>3, PopKeepsInv, LifecycleKeepsInv DEF Next

(* The invariant holds throughout: rows grow by revisions, and what a      *)
(* process or a dialog saw of a row is that row or an earlier one.         *)
THEOREM MagazineInvariant == Spec => []MInv
BY MagazineInitially, MagazineNext, PTL DEF Spec

(* Every variable keeps its type, and no row holds more than MAGAZINE_MAX  *)
(* drafts.                                                                 *)
THEOREM MagazineTypes == Spec => []TypeOK
<1>1. MInv => TypeOK
  <2> SUFFICES ASSUME MInv PROVE TypeOK
    OBVIOUS
  <2>1. ASSUME NEW row \in Rows, Bounded(row) PROVE IsRow(row)
    BY <2>1 DEF Rows, Bounded, IsRow, ToSet
  <2>2. \A s \in Sessions : IsRow(rows[s])
    BY <2>1 DEF MInv, Types, RowInv
  <2>3. \A p \in Procs : IsRow(view[p])
    BY <2>1 DEF MInv, Types, ViewInv
  <2> QED BY <2>2, <2>3 DEF MInv, Types, TypeOK
<1> QED BY <1>1, MagazineInvariant, PTL

(* Recovery moves drafts and a fork copies them: no draft that no fork     *)
(* copied is in two queues, and none is twice in one.                      *)
THEOREM DraftsStayApart == Spec => []OneQueuePerDraft
<1>1. MInv => OneQueuePerDraft
  BY DEF MInv, RowInv, Sharing, OneQueuePerDraft
<1> QED BY <1>1, MagazineInvariant, PTL

(* A process that shows the row's revision shows the row's queue: the      *)
(* poller, which compares revisions, misses nothing.                       *)
THEOREM RevisionsAreNames == Spec => []RevisionNamesQueue
<1>1. MInv => RevisionNamesQueue
  BY DEF MInv, ViewInv, Saw, RevisionNamesQueue
<1> QED BY <1>1, MagazineInvariant, PTL

-----------------------------------------------------------------------------
(* What a step does to the rows.                                           *)

(* p's transaction left q in the row of its session and touched no other.  *)
Wrote(p, q) ==
    /\ life[p] = "open"
    /\ rows'[session[p]].queue = q
    /\ \A t \in Sessions \ {session[p]} : rows'[t] = rows[t]

Created(p) ==
    /\ rows[session[p]].queue = <<>>
    /\ \A t \in Sessions \ {session[p]} : rows'[t] = rows[t]

Pushed(p) == Wrote(p, Push(Queue(p), entries + 1)) /\ entries + 1 \in Drafts

Popped(p) ==
    \E i \in 1..Len(Queue(p)) : Wrote(p, RemoveAt(Queue(p), i)) /\ editor' = Queue(p)[i]

Deleted(p) ==
    /\ dialog[p].at = "entry" /\ Contains(Queue(p), dialog[p].id)
    /\ Wrote(p, RemoveAt(Queue(p), IndexOf(Queue(p), dialog[p].id)))

Cleared(p) == dialog[p].at = "clear" /\ Queue(p) = dialog[p].seen /\ Wrote(p, <<>>)

Rearranged(p) ==
    /\ dialog[p].at = "order" /\ dialog[p].grabbed /\ Contains(Queue(p), dialog[p].cursor)
    /\ \E to \in Int : Wrote(p, Move(Queue(p), IndexOf(Queue(p), dialog[p].cursor), to))

Recovered(p) ==
    /\ dialog[p].at = "recover" /\ life[p] = "open" /\ session[p] # dialog[p].source
    /\ dialog[p].source \notin files /\ session' = session
    /\ rows[dialog[p].source].queue = dialog[p].seen
    /\ rows[session[p]].queue = <<>>
    /\ rows'[session[p]].queue = rows[dialog[p].source].queue
    /\ rows'[dialog[p].source].queue = <<>>
    /\ \A t \in Sessions \ {session[p], dialog[p].source} : rows'[t] = rows[t]

LEMMA CommitWrites ==
  ASSUME MInv, NEW p \in Procs, Writable(p), NEW q \in Seq(Drafts), Commit(p, q)
  PROVE  Wrote(p, q)
<1>0. PICK s \in Sessions : s = session[p] /\ Row(s) = rows[s] /\ rows[s].revision \in Nat
  BY OpenRow DEF Writable
<1> DEFINE row == [queue |-> q, revision |-> rows[s].revision + 1]
<1>1. row \in Rows /\ row.queue = q /\ rows' = [rows EXCEPT ![s] = row]
  BY <1>0 DEF Commit, Rows
<1> HIDE DEF row
<1>2. rows'[s] = row /\ \A t \in Sessions \ {s} : rows'[t] = rows[t]
  BY <1>1 DEF MInv, Types
<1> QED BY <1>0, <1>1, <1>2 DEF Wrote, Writable

LEMMA RemovalWrites ==
  ASSUME MInv, NEW p \in Procs, Writable(p), NEW i \in 1..Len(Queue(p)), Commit(p, RemoveAt(Queue(p), i))
  PROVE  Wrote(p, RemoveAt(Queue(p), i))
<1> DEFINE q == Queue(p)
<1>1. q \in Seq(Drafts) /\ i \in 1..Len(q)
  BY OpenRow DEF Writable
<1> HIDE DEF q
<1>2. RemoveAt(q, i) \in Seq(Drafts)
  BY <1>1, RemoveAtElements
<1>3. RemoveAt(Queue(p), i) \in Seq(Drafts)
  BY <1>2 DEF q
<1> QED BY <1>3, CommitWrites

LEMMA PopWrites ==
  ASSUME MInv, NEW p \in Procs, Pop(p), rows' # rows
  PROVE  Popped(p)
<1>1. ASSUME NEW n \in 1..MAGAZINE_MAX, PopNth(p, n) PROVE Popped(p)
  <2>1. Writable(p) /\ UNCHANGED <<session, entries, forked>>
    BY <1>1 DEF PopNth, around
  <2>2. CASE n \in DOMAIN Queue(p)
    <3>1. n \in 1..Len(Queue(p)) /\ editor' = Queue(p)[n] /\ Commit(p, RemoveAt(Queue(p), n))
      BY <1>1, <2>1, <2>2, OpenRow DEF PopNth, PopTo, Writable
    <3> QED BY <2>1, <3>1, RemovalWrites DEF Popped
  <2>3. CASE n \notin DOMAIN Queue(p)
    BY <1>1, <2>1, <2>3, Adopts DEF PopNth
  <2> QED BY <2>2, <2>3
<1>2. CASE RestoreEntry(p)
  <2>1. UNCHANGED <<session, entries, forked>>
    BY <1>2 DEF RestoreEntry, around
  <2>2. CASE Writable(p) /\ Contains(Queue(p), dialog[p].id)
    <3>1. IndexOf(Queue(p), dialog[p].id) \in 1..Len(Queue(p))
      BY <2>2, OpenRow, FoundAt DEF Writable
    <3>2. PICK i : i = IndexOf(Queue(p), dialog[p].id)
      OBVIOUS
    <3>3. editor' = Queue(p)[i] /\ Commit(p, RemoveAt(Queue(p), i))
      BY <1>2, <2>2, <3>2 DEF RestoreEntry, PopTo
    <3> QED BY <2>2, <3>1, <3>2, <3>3, RemovalWrites DEF Popped
  <2>3. CASE Writable(p) /\ ~Contains(Queue(p), dialog[p].id)
    BY <1>2, <2>1, <2>3, Adopts DEF RestoreEntry
  <2>4. CASE ~Writable(p)
    BY <1>2, <2>4 DEF RestoreEntry
  <2> QED BY <2>2, <2>3, <2>4
<1> QED BY <1>1, <1>2 DEF Pop

LEMMA StashWrites ==
  ASSUME MInv, NEW p \in Procs, Stash(p)
  PROVE  Pushed(p)
<1> DEFINE q == Queue(p)
           e == entries + 1
<1>1. q \in Seq(Drafts) /\ Len(q) <= MAGAZINE_MAX /\ Writable(p)
  BY OpenRow DEF Stash, Writable
<1>2. e \in Drafts
  BY MagazineAssumption DEF Stash, MInv, Types, Drafts
<1>3. Commit(p, Push(q, e))
  BY DEF Stash
<1> HIDE DEF q, e
<1>4. Push(q, e) \in Seq(Drafts)
  BY <1>1, <1>2, PushProperties
<1>5. Wrote(p, Push(q, e))
  BY <1>1, <1>3, <1>4, CommitWrites
<1> QED BY <1>2, <1>5 DEF Pushed, q, e

LEMMA DeleteWrites ==
  ASSUME MInv, NEW p \in Procs, DeleteEntry(p), rows' # rows
  PROVE  Deleted(p)
<1>1. UNCHANGED <<session, entries, forked>> /\ dialog[p].at = "entry"
  BY DEF DeleteEntry, around
<1>2. ~(Writable(p) /\ Adopt(p))
  BY <1>1, Adopts
<1>3. /\ Writable(p) /\ Contains(Queue(p), dialog[p].id)
      /\ Commit(p, RemoveAt(Queue(p), IndexOf(Queue(p), dialog[p].id)))
  BY <1>2 DEF DeleteEntry
<1>4. IndexOf(Queue(p), dialog[p].id) \in 1..Len(Queue(p))
  BY <1>3, OpenRow, FoundAt DEF Writable
<1> QED BY <1>1, <1>3, <1>4, RemovalWrites DEF Deleted

LEMMA ClearWrites ==
  ASSUME MInv, NEW p \in Procs, ConfirmClear(p), rows' # rows
  PROVE  Cleared(p)
<1>1. UNCHANGED <<session, entries, forked>> /\ dialog[p].at = "clear"
  BY DEF ConfirmClear, around
<1>2. ~(Writable(p) /\ Adopt(p))
  BY <1>1, Adopts
<1>3. Writable(p) /\ Queue(p) = dialog[p].seen /\ Commit(p, <<>>)
  BY <1>2 DEF ConfirmClear
<1>4. <<>> \in Seq(Drafts)
  OBVIOUS
<1>5. Wrote(p, <<>>)
  BY <1>3, <1>4, CommitWrites
<1> QED BY <1>1, <1>3, <1>5 DEF Cleared

LEMMA ArrowWrites ==
  ASSUME MInv, NEW p \in Procs, NEW delta \in Int, Arrow(p, delta), rows' # rows
  PROVE  Rearranged(p)
<1>1. PICK d : d = Reconcile(view[p].queue, dialog[p])
  OBVIOUS
<1>2. /\ dialog[p].at = "order" /\ dialog[p] \in OrderDialogs /\ view[p].queue \in Seq(Drafts)
      /\ UNCHANGED <<session, entries, forked>>
  BY InDialog DEF Arrow, around, MInv, Types, Rows
<1>3. d.cursor # None /\ d.grabbed /\ MoveById(p, d.cursor, delta)
  BY <1>1 DEF Arrow
<1>4. dialog[p].grabbed /\ d.cursor = dialog[p].cursor
  BY <1>1, <1>2, <1>3, Reconciled
<1>5. PICK e : e = d.cursor
  OBVIOUS
<1> DEFINE q == Queue(p)
           moved == IF Contains(q, e) THEN Move(q, IndexOf(q, e), IndexOf(q, e) + delta) ELSE q
<1>6. ~(Writable(p) /\ Adopt(p))
  BY <1>2, Adopts
<1>7. Writable(p) /\ moved # q /\ Commit(p, moved)
  BY <1>3, <1>5, <1>6 DEF MoveById
<1>8. Contains(q, e) /\ moved = Move(q, IndexOf(q, e), IndexOf(q, e) + delta)
  BY <1>7
<1>9. q \in Seq(Drafts) /\ IsInjective(q)
  BY <1>7, OpenRow DEF Writable
<1> HIDE DEF moved
<1>10. PICK to : to = IndexOf(q, e) + delta
  OBVIOUS
<1>11. IndexOf(q, e) \in 1..Len(q) /\ to \in Int
  BY <1>8, <1>9, <1>10, FoundAt
<1>12. moved \in Seq(Drafts) /\ moved = Move(q, IndexOf(q, e), to)
  <2> HIDE DEF q
  <2> QED BY <1>8, <1>9, <1>10, <1>11, MoveProperties
<1>13. Wrote(p, moved)
  BY <1>7, <1>12, CommitWrites
<1> QED BY <1>2, <1>4, <1>5, <1>8, <1>11, <1>12, <1>13 DEF Rearranged

LEMMA RecoveryWrites ==
  ASSUME MInv, NEW p \in Procs, ConfirmRecovery(p), rows' # rows
  PROVE  Recovered(p)
<1>1. PICK src \in Sessions : src = dialog[p].source /\ src # session[p]
  BY InDialog DEF ConfirmRecovery, MInv, DialogInv
<1>2. PICK filled : filled = [queue |-> Row(src).queue, revision |-> Row(session[p]).revision + 1]
  OBVIOUS
<1>3. /\ dialog[p].at = "recover" /\ Writable(p) /\ SourceUnchanged(dialog[p]) /\ Row(session[p]).queue = <<>>
      /\ rows' = [rows EXCEPT ![session[p]] = filled, ![src] = Drained(@)] /\ session' = session
  BY <1>1, <1>2 DEF ConfirmRecovery, around
<1>4. PICK s \in Sessions : s = session[p] /\ Row(s) = rows[s]
  BY <1>3, OpenRow DEF Writable
<1>5. /\ rows[src].revision = dialog[p].revision /\ src \notin files
      /\ Saw(src, dialog[p].revision, dialog[p].seen)
  BY <1>1, <1>3 DEF SourceUnchanged, MInv, DialogInv
<1>6. rows[src].queue = dialog[p].seen /\ Row(src) = rows[src]
  BY <1>5 DEF Saw, Row, NoRow
<1>7. /\ rows'[s] = filled /\ rows'[src] = Drained(rows[src])
      /\ \A t \in Sessions \ {s, src} : rows'[t] = rows[t]
  BY <1>1, <1>3, <1>4 DEF MInv, Types
<1>8. rows'[s].queue = rows[src].queue /\ rows'[src].queue = <<>>
  BY <1>2, <1>6, <1>7 DEF Drained
<1> QED BY <1>1, <1>3, <1>4, <1>5, <1>6, <1>7, <1>8 DEF Recovered, Writable

LEMMA RowChanges ==
  ASSUME MInv, Next, rows' # rows
  PROVE  \E p \in Procs :
            \/ session[p] \in Sessions /\ Created(p)
            \/ Pushed(p) \/ Popped(p) \/ Deleted(p) \/ Cleared(p) \/ Rearranged(p) \/ Recovered(p)
<1>1. ASSUME NEW p \in Procs, Lifecycle(p) PROVE session[p] \in Sessions /\ Created(p)
  <2>1. Load(p)
    BY <1>1 DEF Lifecycle, SessionStart, InitializationFails, SessionEnds, Poll, PollFails
  <2>2. PICK s \in Sessions : s = session[p]
    BY <2>1 DEF Load, MInv, ViewInv
  <2>3. PICK row : rows' = [rows EXCEPT ![s] = row] /\ (rows[s] # NoRow => row = rows[s])
    BY <2>1, <2>2 DEF Load
  <2>4. \A t \in Sessions \ {s} : rows'[t] = rows[t]
    BY <2>3 DEF MInv, Types
  <2>5. rows[s] = NoRow
    BY <2>3 DEF MInv, Types
  <2> QED BY <2>2, <2>4, <2>5 DEF Created, NoRow
<1>2. ASSUME NEW p \in Procs, Command(p)
      PROVE  Pushed(p) \/ Deleted(p) \/ Cleared(p) \/ Rearranged(p) \/ Recovered(p)
  <2>1. \/ Stash(p) \/ DeleteEntry(p) \/ ConfirmClear(p) \/ ConfirmRecovery(p)
        \/ Arrow(p, -1) \/ Arrow(p, 1)
    BY <1>2 DEF Command, BrowserRound, BrowserFails, LeaveEntry, DeclineClear, OpenOrder, Repaint, Enter,
                Escape, OpenRecovery, DeclineRecovery
  <2> QED BY <2>1, StashWrites, DeleteWrites, ClearWrites, ArrowWrites, RecoveryWrites
<1>3. ASSUME NEW s \in Sessions, FileWritten(s) \/ FileDeleted(s) PROVE FALSE
  BY <1>3 DEF FileWritten, FileDeleted
<1> QED BY <1>1, <1>2, <1>3, PopWrites DEF Next

-----------------------------------------------------------------------------
(* Drafts leave a row deliberately.                                        *)

Deliberately(s, e) ==
    \/ \E p \in Procs :
          /\ session[p] = s
          /\ \/ editor' = e
             \/ dialog[p].at = "entry" /\ dialog[p].id = e
             \/ dialog[p].at = "clear" /\ Contains(dialog[p].seen, e)
    \/ rows[s].queue[1] = e /\ Len(rows[s].queue) = MAGAZINE_MAX
    \/ /\ s \notin files
       /\ \E p \in Procs :
             /\ dialog[p].at = "recover" /\ dialog[p].source = s
             /\ Contains(dialog[p].seen, e) /\ InRow(session[p], e)'

LEMMA LeavesDeliberately ==
  ASSUME MInv, Next, rows' # rows, NEW s \in Sessions, NEW e \in Drafts, InRow(s, e), ~InRow(s, e)'
  PROVE  Deliberately(s, e)
<1>1. rows'[s] # rows[s]
  BY DEF InRow
<1>2. ASSUME NEW p \in Procs, NEW q, Wrote(p, q)
      PROVE  /\ s = session[p] /\ Queue(p) = rows[s].queue /\ q = rows'[s].queue
             /\ Queue(p) \in Seq(Drafts) /\ Len(Queue(p)) <= MAGAZINE_MAX /\ IsInjective(Queue(p))
             /\ Contains(Queue(p), e) /\ ~Contains(q, e)
  <2>1. s = session[p] /\ life[p] = "open" /\ rows'[s].queue = q
    BY <1>1, <1>2 DEF Wrote
  <2> QED BY <2>1, OpenRow DEF InRow
<1>3. ASSUME NEW p \in Procs, Created(p) PROVE Deliberately(s, e)
  BY <1>1, <1>3 DEF Created, InRow, Contains
<1>4. ASSUME NEW p \in Procs, Pushed(p) PROVE Deliberately(s, e)
  <2> DEFINE q == Queue(p)
             n == entries + 1
  <2>1. /\ q = rows[s].queue /\ q \in Seq(Drafts) /\ Len(q) <= MAGAZINE_MAX
        /\ Contains(q, e) /\ ~Contains(Push(q, n), e) /\ n \in Drafts
    BY <1>2, <1>4 DEF Pushed
  <2> HIDE DEF q, n
  <2>2. \A x : Contains(q, x) => Contains(Push(q, n), x) \/ (x = q[1] /\ Len(q) = MAGAZINE_MAX)
    <3>1. q \in Seq(Drafts) /\ Len(q) <= MAGAZINE_MAX /\ n \in Drafts
      BY <2>1
    <3> QED BY <3>1, PushProperties
  <2>3. e = q[1] /\ Len(q) = MAGAZINE_MAX
    BY <2>1, <2>2
  <2> QED BY <2>1, <2>3 DEF Deliberately
<1>5. ASSUME NEW p \in Procs, NEW i \in 1..Len(Queue(p)), Wrote(p, RemoveAt(Queue(p), i))
      PROVE  e = Queue(p)[i] /\ session[p] = s
  <2> DEFINE q == Queue(p)
  <2>1. /\ session[p] = s /\ q \in Seq(Drafts) /\ IsInjective(q) /\ i \in 1..Len(q)
        /\ Contains(q, e) /\ ~Contains(RemoveAt(q, i), e)
    BY <1>2, <1>5
  <2> HIDE DEF q
  <2>2. e = q[i]
    BY <2>1, RemoveAtProperties
  <2> QED BY <2>1, <2>2 DEF q
<1>6. ASSUME NEW p \in Procs, Popped(p) PROVE Deliberately(s, e)
  BY <1>5, <1>6 DEF Popped, Deliberately
<1>7. ASSUME NEW p \in Procs, Deleted(p) PROVE Deliberately(s, e)
  <2>1. PICK i : i = IndexOf(Queue(p), dialog[p].id)
    OBVIOUS
  <2>2. Queue(p) \in Seq(Drafts) /\ Contains(Queue(p), dialog[p].id) /\ Wrote(p, RemoveAt(Queue(p), i))
    BY <1>2, <1>7, <2>1 DEF Deleted
  <2>3. i \in 1..Len(Queue(p)) /\ Queue(p)[i] = dialog[p].id
    BY <2>1, <2>2, FoundAt
  <2> QED BY <1>5, <1>7, <2>2, <2>3 DEF Deleted, Deliberately
<1>8. ASSUME NEW p \in Procs, Cleared(p) PROVE Deliberately(s, e)
  BY <1>2, <1>8 DEF Cleared, Deliberately
<1>9. ASSUME NEW p \in Procs, Rearranged(p) PROVE Deliberately(s, e)
  <2>1. PICK to \in Int : Wrote(p, Move(Queue(p), IndexOf(Queue(p), dialog[p].cursor), to))
    BY <1>9 DEF Rearranged
  <2>2. PICK i : i = IndexOf(Queue(p), dialog[p].cursor)
    OBVIOUS
  <2> DEFINE q == Queue(p)
  <2>3. /\ q \in Seq(Drafts) /\ IsInjective(q) /\ Contains(q, e) /\ ~Contains(Move(q, i, to), e)
        /\ Contains(q, dialog[p].cursor)
    BY <1>2, <1>9, <2>1, <2>2 DEF Rearranged
  <2>4. i \in 1..Len(q)
    BY <2>2, <2>3, FoundAt
  <2> HIDE DEF q
  <2> QED BY <2>3, <2>4, MoveProperties
<1>10. ASSUME NEW p \in Procs, Recovered(p) PROVE Deliberately(s, e)
  <2>1. CASE s = dialog[p].source
    <3>1. Contains(rows'[session'[p]].queue, e) /\ Contains(dialog[p].seen, e)
      BY <1>10, <2>1 DEF Recovered, InRow
    <3> QED BY <1>10, <2>1, <3>1 DEF Recovered, Deliberately, InRow
  <2>2. CASE s # dialog[p].source
    BY <1>1, <1>10, <2>2 DEF Recovered, InRow, Contains
  <2> QED BY <2>1, <2>2
<1> QED BY <1>3, <1>4, <1>6, <1>7, <1>8, <1>9, <1>10, RowChanges

(* A draft leaves a queue only into the editor of the process that popped  *)
(* it, by a deletion or a clear that showed it, as the oldest of a full    *)
(* queue, or into the queue of the session that recovered it.              *)
THEOREM DraftsLeaveOnlyDeliberately == Spec => DraftsLeaveDeliberately
<1>1. ASSUME MInv, Next PROVE
      rows' # rows => \A s \in Sessions, e \in Drafts : InRow(s, e) /\ ~InRow(s, e)' => Deliberately(s, e)
  BY <1>1, LeavesDeliberately
<1>2. ASSUME MInv, [Next]_vars PROVE
      [rows' # rows => \A s \in Sessions, e \in Drafts : InRow(s, e) /\ ~InRow(s, e)' => Deliberately(s, e)]_vars
  BY <1>1, <1>2
<1>3. MInv /\ [Next]_vars =>
      [rows' # rows => \A s \in Sessions, e \in Drafts : InRow(s, e) /\ ~InRow(s, e)' =>
          \/ \E p \in Procs :
                /\ session[p] = s
                /\ \/ editor' = e
                   \/ dialog[p].at = "entry" /\ dialog[p].id = e
                   \/ dialog[p].at = "clear" /\ Contains(dialog[p].seen, e)
          \/ rows[s].queue[1] = e /\ Len(rows[s].queue) = MAGAZINE_MAX
          \/ /\ s \notin files
             /\ \E p \in Procs :
                   /\ dialog[p].at = "recover" /\ dialog[p].source = s
                   /\ Contains(dialog[p].seen, e) /\ InRow(session[p], e)'
       ]_vars
  BY <1>2 DEF Deliberately
<1> QED BY <1>3, MagazineInvariant, PTL DEF Spec, DraftsLeaveDeliberately

-----------------------------------------------------------------------------
(* Order mode moves the grabbed entry.                                     *)

Grabbed(s) ==
    \E p \in Procs :
        /\ session[p] = s /\ dialog[p].at = "order" /\ dialog[p].grabbed
        /\ InRow(s, dialog[p].cursor)
        /\ IndexOf(rows'[s].queue, dialog[p].cursor) # IndexOf(rows[s].queue, dialog[p].cursor)

LEMMA MovesTheGrabbed ==
  ASSUME MInv, Next, rows' # rows, NEW s \in Sessions,
         ToSet(rows'[s].queue) = ToSet(rows[s].queue), rows'[s].queue # rows[s].queue
  PROVE  Grabbed(s)
<1>0. rows[s].queue \in Seq(Drafts) /\ rows'[s].queue \in Seq(Drafts)
  BY MagazineNext DEF MInv, Types, Rows
<1>1. \A x : Contains(rows'[s].queue, x) <=> Contains(rows[s].queue, x)
  BY <1>0, Members
<1>2. ASSUME NEW p \in Procs, NEW q, Wrote(p, q)
      PROVE  /\ s = session[p] /\ Queue(p) = rows[s].queue /\ q = rows'[s].queue
             /\ Queue(p) \in Seq(Drafts) /\ Len(Queue(p)) <= MAGAZINE_MAX /\ IsInjective(Queue(p))
             /\ \A x : Contains(q, x) <=> Contains(Queue(p), x)
  <2>1. s = session[p] /\ life[p] = "open" /\ rows'[s].queue = q
    BY <1>2 DEF Wrote
  <2> QED BY <1>1, <2>1, OpenRow
<1>3. ~(rows[s].queue = <<>>) /\ ~(rows'[s].queue = <<>>)
  <2>1. ASSUME NEW q \in Seq(Drafts), q # <<>> PROVE Contains(q, q[1])
    BY <2>1 DEF Contains
  <2>2. \A x : ~Contains(<<>>, x)
    BY DEF Contains
  <2> QED BY <1>0, <1>1, <2>1, <2>2
<1>4. ASSUME NEW p \in Procs, Created(p) PROVE FALSE
  BY <1>3, <1>4 DEF Created
<1>5. ASSUME NEW p \in Procs, Pushed(p) PROVE FALSE
  <2> DEFINE q == Queue(p)
             n == entries + 1
  <2>1. /\ q = rows[s].queue /\ q \in Seq(Drafts) /\ Len(q) <= MAGAZINE_MAX
        /\ (Contains(Push(q, n), n) <=> Contains(q, n)) /\ n \in Drafts
    BY <1>2, <1>5 DEF Pushed
  <2>2. ~Contains(q, n)
    <3>1. entries \in Nat /\ (InRow(s, n) => n <= entries)
      BY <2>1 DEF MInv, Types, RowInv
    <3> QED BY <2>1, <3>1 DEF InRow
  <2> HIDE DEF q, n
  <2> QED BY <2>1, <2>2, PushProperties
<1>6. ASSUME NEW p \in Procs, NEW i \in 1..Len(Queue(p)), Wrote(p, RemoveAt(Queue(p), i)) PROVE FALSE
  <2> DEFINE q == Queue(p)
  <2>1. /\ q \in Seq(Drafts) /\ IsInjective(q) /\ i \in 1..Len(q)
        /\ \A x : Contains(RemoveAt(q, i), x) <=> Contains(q, x)
    BY <1>2, <1>6
  <2> HIDE DEF q
  <2>2. ~Contains(RemoveAt(q, i), q[i])
    BY <2>1, RemoveAtProperties
  <2>3. Contains(q, q[i])
    BY <2>1 DEF Contains
  <2> QED BY <2>1, <2>2, <2>3
<1>7. ASSUME NEW p \in Procs, Popped(p) PROVE FALSE
  BY <1>6, <1>7 DEF Popped
<1>8. ASSUME NEW p \in Procs, Deleted(p) PROVE FALSE
  <2>1. PICK i : i = IndexOf(Queue(p), dialog[p].id)
    OBVIOUS
  <2>2. Queue(p) \in Seq(Drafts) /\ Contains(Queue(p), dialog[p].id) /\ Wrote(p, RemoveAt(Queue(p), i))
    BY <1>2, <1>8, <2>1 DEF Deleted
  <2>3. i \in 1..Len(Queue(p))
    BY <2>1, <2>2, FoundAt
  <2> QED BY <1>6, <2>2, <2>3
<1>9. ASSUME NEW p \in Procs, Cleared(p) PROVE FALSE
  BY <1>2, <1>3, <1>9 DEF Cleared
<1>10. ASSUME NEW p \in Procs, Recovered(p) PROVE FALSE
  BY <1>3, <1>10 DEF Recovered
<1>11. ASSUME NEW p \in Procs, Rearranged(p) PROVE Grabbed(s)
  <2>1. PICK e : e = dialog[p].cursor
    OBVIOUS
  <2>2. PICK i : i = IndexOf(Queue(p), e)
    OBVIOUS
  <2>3. PICK to \in Int : Wrote(p, Move(Queue(p), i, to))
    BY <1>11, <2>1, <2>2 DEF Rearranged
  <2> DEFINE q == Queue(p)
  <2>4. /\ session[p] = s /\ q = rows[s].queue /\ Move(q, i, to) = rows'[s].queue
        /\ q \in Seq(Drafts) /\ IsInjective(q) /\ Contains(q, e)
    BY <1>2, <1>11, <2>1, <2>3 DEF Rearranged
  <2>5. i \in 1..Len(q) /\ q[i] = e
    BY <2>2, <2>4, FoundAt
  <2> HIDE DEF q
  <2>6. Move(q, i, to) # q => IndexOf(Move(q, i, to), e) # IndexOf(q, e)
    BY <2>4, <2>5, MoveProperties
  <2>7. IndexOf(rows'[s].queue, e) # IndexOf(rows[s].queue, e) /\ InRow(s, e)
    BY <2>4, <2>6 DEF InRow
  <2> QED BY <1>11, <2>1, <2>4, <2>7 DEF Grabbed, Rearranged
<1> QED BY <1>4, <1>5, <1>7, <1>8, <1>9, <1>10, <1>11, RowChanges

(* A queue is reordered only by a process that is in order mode with an    *)
(* entry grabbed, and it is that entry that changes its place.             *)
THEOREM OnlyGrabbedEntriesMove == Spec => OnlyTheGrabbedMoves
<1>1. ASSUME MInv, Next PROVE
      rows' # rows => \A s \in Sessions :
          ToSet(rows'[s].queue) = ToSet(rows[s].queue) /\ rows'[s].queue # rows[s].queue => Grabbed(s)
  BY <1>1, MovesTheGrabbed
<1>2. MInv /\ [Next]_vars =>
      [rows' # rows => \A s \in Sessions :
          /\ ToSet(rows'[s].queue) = ToSet(rows[s].queue)
          /\ rows'[s].queue # rows[s].queue
          => \E p \in Procs :
                /\ session[p] = s /\ dialog[p].at = "order" /\ dialog[p].grabbed
                /\ InRow(s, dialog[p].cursor)
                /\ IndexOf(rows'[s].queue, dialog[p].cursor) # IndexOf(rows[s].queue, dialog[p].cursor)
      ]_vars
  BY <1>1 DEF Grabbed
<1> QED BY <1>2, MagazineInvariant, PTL DEF Spec, OnlyTheGrabbedMoves

=============================================================================
