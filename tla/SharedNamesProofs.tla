---------------------------- MODULE SharedNamesProofs ----------------------------
(***************************************************************************)
(* What is shared under a name has one owner, for every number of          *)
(* processes: proofs about the components of SharedNames, one after the    *)
(* other.                                                                  *)
(***************************************************************************)
EXTENDS SharedNames, FiniteSetTheorems, TLAPS

-----------------------------------------------------------------------------
(* The journal.  Two facts carry the argument.  HealerWatches: as long as  *)
(* no failed write was left to a process that heals no more, every process *)
(* up that finds an unclean tail will look at it before it writes.         *)
(* LossIsPaid: the acknowledged entries on no line of their own, and the   *)
(* one the next write may glue, were all paid for by a failed write.       *)

Unhealed == tail # "clean" /\ \E q \in up : Blind(q)

HealerWatches == exposed = 0 => ~Unhealed

LossIsPaid == Cardinality(acked \ good) + (IF Unhealed THEN 1 ELSE 0) <= exposed

WritersAreUp ==
    \A q \in Procs : writing[q] # None => q \in up /\ ~firstAppend[q]

JournalInv ==
    /\ JTypeOK
    /\ WritersAreUp
    /\ HealerWatches
    /\ ServedStays
    /\ LossIsPaid

-----------------------------------------------------------------------------
(* Entries that are on no line of their own are finitely many, and fewer   *)
(* of them are not more.                                                   *)
LEMMA LossFacts ==
    ASSUME JournalAssumption, NEW X \in SUBSET Keys, NEW Y \in SUBSET X
    PROVE  /\ Cardinality(X) \in Nat
           /\ Cardinality(Y) \in Nat
           /\ Cardinality(Y) <= Cardinality(X)
           /\ \A k : Cardinality(X \cup {k}) \in Nat /\ Cardinality(X \cup {k}) <= Cardinality(X) + 1
<1>1. IsFiniteSet(X)
  BY FS_Subset DEF JournalAssumption
<1>2. IsFiniteSet(Y) /\ Cardinality(Y) <= Cardinality(X)
  BY <1>1, FS_Subset
<1>3. Cardinality(X) \in Nat /\ Cardinality(Y) \in Nat
  BY <1>1, <1>2, FS_CardinalityType
<1>4. ASSUME NEW k
      PROVE  Cardinality(X \cup {k}) \in Nat /\ Cardinality(X \cup {k}) <= Cardinality(X) + 1
  <2>1. /\ IsFiniteSet(X \cup {k})
        /\ Cardinality(X \cup {k}) = IF k \in X THEN Cardinality(X) ELSE Cardinality(X) + 1
    BY <1>1, FS_AddElement
  <2> QED BY <1>3, <2>1
<1> QED BY <1>2, <1>3, <1>4

(* An empty journal that nobody has open satisfies the invariant.          *)
LEMMA JournalInit ==
    ASSUME JournalAssumption, JInit
    PROVE  JournalInv
<1>1. JTypeOK /\ WritersAreUp /\ HealerWatches /\ ServedStays
  BY DEF JInit, JTypeOK, Tails, Writes, WritersAreUp, HealerWatches, Unhealed, ServedStays, Parsed,
         Salvaged, JournalAssumption
<1>2. LossIsPaid
  <2>1. acked \ good = {} /\ ~Unhealed /\ exposed = 0
    BY DEF JInit, Unhealed
  <2>2. Cardinality(acked \ good) = 0
    BY <2>1, FS_EmptySet
  <2> QED BY <2>1, <2>2 DEF LossIsPaid
<1> QED BY <1>1, <1>2 DEF JournalInv

(* A process that opens the journal will look at the tail.                 *)
LEMMA JournalOpen ==
    ASSUME JournalAssumption, JournalInv, NEW p \in Procs, Open(p)
    PROVE  JournalInv'
<1> USE DEF JournalInv
<1>1. JTypeOK'
  BY DEF Open, JTypeOK, file, Parsed, Salvaged, Tails
<1>2. WritersAreUp'
  BY DEF Open, JTypeOK, WritersAreUp
<1>3. Unhealed' => Unhealed
  BY DEF Open, JTypeOK, Unhealed, Blind, file, JournalAssumption
<1>4. HealerWatches' /\ ServedStays'
  BY <1>3 DEF Open, HealerWatches, ServedStays, Parsed, Salvaged, file
<1>5. LossIsPaid'
  <2>1. Cardinality(acked \ good) \in Nat
    BY LossFacts DEF JTypeOK
  <2> QED BY <1>3, <2>1 DEF Open, LossIsPaid, file, JTypeOK
<1> QED BY <1>1, <1>2, <1>4, <1>5

(* The first append of a process finds out what it has to heal; a later    *)
(* one heals nothing, but then the process was blind before.               *)
LEMMA JournalAppend ==
    ASSUME JournalAssumption, JournalInv, NEW p \in Procs, NEW k \in Keys, AppendBegins(p, k)
    PROVE  JournalInv'
<1> USE DEF JournalInv
<1>1. JTypeOK'
  BY DEF AppendBegins, JTypeOK, file, NeedsHeal, Writes
<1>2. WritersAreUp'
  BY DEF AppendBegins, JTypeOK, WritersAreUp
<1>3. Unhealed' => Unhealed
  <2>1. ASSUME NEW q \in up, tail # "clean", Blind(q)'
        PROVE  Blind(q)
    <3>1. CASE q = p
      <4>1. writing'[p] = [key |-> k, heal |-> NeedsHeal(p)]
        BY DEF AppendBegins, JTypeOK
      <4>2. writing'[p] \in [key : Keys, heal : BOOLEAN]
        BY <4>1 DEF NeedsHeal, JTypeOK
      <4>3. ~NeedsHeal(p)
        BY <2>1, <3>1, <4>1, <4>2 DEF Blind, JournalAssumption
      <4> QED BY <2>1, <3>1, <4>3 DEF AppendBegins, Blind, NeedsHeal
    <3>2. CASE q # p
      BY <2>1, <3>2 DEF AppendBegins, Blind, JTypeOK
    <3> QED BY <3>1, <3>2
  <2> QED BY <2>1 DEF AppendBegins, Unhealed, file
<1>4. HealerWatches' /\ ServedStays'
  BY <1>3 DEF AppendBegins, HealerWatches, ServedStays, Parsed, Salvaged, file
<1>5. LossIsPaid'
  <2>1. Cardinality(acked \ good) \in Nat
    BY LossFacts DEF JTypeOK
  <2> QED BY <1>3, <2>1 DEF AppendBegins, LossIsPaid, file, JTypeOK
<1> QED BY <1>1, <1>2, <1>4, <1>5

(* A write that finds an unclean tail without healing it comes from a      *)
(* blind process.                                                          *)
LEMMA GluingIsUnhealed ==
    ASSUME JournalAssumption, JournalInv, NEW p \in Procs, writing[p] # None
    PROVE  /\ writing[p] \in Writes
           /\ ~OwnLine(writing[p]) => Unhealed
           /\ OwnLine(writing[p]) => Parsed \subseteq Kept(writing[p])
           /\ good \subseteq Kept(writing[p])
           /\ Kept(writing[p]) \subseteq Keys
<1>1. writing[p] \in Writes /\ p \in up /\ ~firstAppend[p]
  BY DEF JournalInv, JTypeOK, WritersAreUp
<1>2. ~OwnLine(writing[p]) => Unhealed
  BY <1>1 DEF OwnLine, Unhealed, Blind
<1>3. tail = "clean" => Salvaged = {}
  BY DEF Salvaged, JournalAssumption
<1>4. OwnLine(writing[p]) => Parsed \subseteq Kept(writing[p])
  BY <1>3 DEF OwnLine, Parsed, Kept
<1>5. good \subseteq Kept(writing[p]) /\ Kept(writing[p]) \subseteq Keys
  BY DEF Kept, JournalInv, JTypeOK, Salvaged
<1> QED BY <1>1, <1>2, <1>4, <1>5

(* A completed write leaves a clean tail: the debt is paid by the entry it *)
(* glued, if it glued one.                                                 *)
LEMMA JournalCompletes ==
    ASSUME JournalAssumption, JournalInv, NEW p \in Procs, WriteCompletes(p)
    PROVE  JournalInv'
<1> USE DEF JournalInv
<1> DEFINE w == writing[p]
<1>0. w # None
  BY DEF WriteCompletes
<1>1. /\ w \in Writes /\ w.key \in Keys
      /\ ~OwnLine(w) => Unhealed
      /\ OwnLine(w) => Parsed \subseteq Kept(w)
      /\ good \subseteq Kept(w)
      /\ Kept(w) \subseteq Keys
  BY <1>0, GluingIsUnhealed DEF Writes
<1>2. /\ good' = Kept(w) \cup (IF OwnLine(w) THEN {w.key} ELSE {})
      /\ tail' = "clean"
      /\ served' = served \cup {w.key}
      /\ acked' = acked \cup {w.key}
      /\ exposed' = exposed
  BY DEF WriteCompletes
<1> HIDE DEF w
<1>3. JTypeOK'
  BY <1>1, <1>2 DEF WriteCompletes, JTypeOK, Tails
<1>4. WritersAreUp'
  BY DEF WriteCompletes, JTypeOK, WritersAreUp
<1>5. HealerWatches' /\ ~Unhealed'
  BY <1>2 DEF HealerWatches, Unhealed
<1>6. ServedStays'
  <2>1. ASSUME exposed = 0
        PROVE  served' \subseteq good'
    BY <1>1, <1>2, <2>1 DEF HealerWatches, ServedStays
  <2> QED BY <1>2, <2>1 DEF ServedStays, Parsed
<1>7. LossIsPaid'
  <2> DEFINE lost == acked \ good
  <2>1. lost \in SUBSET Keys
    BY DEF JTypeOK
  <2>2. CASE OwnLine(w)
    <3>1. acked' \ good' \in SUBSET lost
      BY <1>1, <1>2, <2>2
    <3>2. /\ Cardinality(lost) \in Nat /\ Cardinality(acked' \ good') \in Nat
          /\ Cardinality(acked' \ good') <= Cardinality(lost)
      BY <2>1, <3>1, LossFacts
    <3> QED BY <1>2, <1>5, <3>2 DEF LossIsPaid, JTypeOK
  <2>3. CASE ~OwnLine(w)
    <3>1. acked' \ good' \in SUBSET (lost \cup {w.key})
      BY <1>1, <1>2, <2>3
    <3>2. /\ lost \cup {w.key} \in SUBSET Keys
          /\ Cardinality(lost) \in Nat
          /\ Cardinality(lost \cup {w.key}) \in Nat
          /\ Cardinality(lost \cup {w.key}) <= Cardinality(lost) + 1
      BY <1>1, <2>1, LossFacts
    <3>3. /\ Cardinality(acked' \ good') \in Nat
          /\ Cardinality(acked' \ good') <= Cardinality(lost \cup {w.key})
      BY <3>1, <3>2, LossFacts
    <3>4. Unhealed
      BY <1>1, <2>3
    <3> QED BY <1>2, <1>5, <3>2, <3>3, <3>4 DEF LossIsPaid, JTypeOK
  <2> QED BY <2>2, <2>3
<1> QED BY <1>3, <1>4, <1>5, <1>6, <1>7

(* A failed write never removes an entry from its own line, and charges    *)
(* for the tail it leaves to a blind process.                              *)
LEMMA JournalFails ==
    ASSUME JournalAssumption, JournalInv, NEW p \in Procs, NEW survives \in BOOLEAN,
           WriteFails(p, survives)
    PROVE  JournalInv'
<1> USE DEF JournalInv
<1> DEFINE w == writing[p]
<1>0. w # None
  BY DEF WriteFails
<1>1. /\ w \in Writes /\ w.key \in Keys
      /\ ~OwnLine(w) => Unhealed
      /\ OwnLine(w) => Parsed \subseteq Kept(w)
      /\ good \subseteq Kept(w)
      /\ Kept(w) \subseteq Keys
  BY <1>0, GluingIsUnhealed DEF Writes
<1>2. \/ good' = good /\ tail' = tail
      \/ /\ good' = Kept(w)
         /\ tail' \in Tails
  BY <1>1 DEF WriteFails, Remains, Tails
<1>3. /\ exposed' = IF Unhealed' THEN exposed + 1 ELSE exposed
      /\ acked' = acked /\ served' = served
  BY DEF WriteFails, Unhealed
<1> HIDE DEF w
<1>4. JTypeOK'
  BY <1>1, <1>2, <1>3 DEF WriteFails, JTypeOK
<1>5. WritersAreUp'
  BY DEF WriteFails, JTypeOK, WritersAreUp
<1>6. HealerWatches'
  BY <1>3 DEF HealerWatches, JTypeOK
<1>7. ServedStays'
  <2>1. ASSUME exposed' = 0
        PROVE  exposed = 0 /\ OwnLine(w)
    BY <1>1, <1>3, <2>1 DEF HealerWatches, JTypeOK
  <2>2. ASSUME exposed' = 0
        PROVE  Parsed \subseteq Parsed'
    BY <1>1, <1>2, <2>1, <2>2 DEF Parsed, Salvaged
  <2> QED BY <1>3, <2>1, <2>2 DEF ServedStays
<1>8. LossIsPaid'
  <2>1. acked \ good \in SUBSET Keys /\ acked' \ good' \in SUBSET (acked \ good)
    BY <1>1, <1>2, <1>3 DEF JTypeOK
  <2>2. /\ Cardinality(acked \ good) \in Nat /\ Cardinality(acked' \ good') \in Nat
        /\ Cardinality(acked' \ good') <= Cardinality(acked \ good)
    BY <2>1, LossFacts
  <2> QED BY <1>3, <2>2 DEF LossIsPaid, JTypeOK
<1> QED BY <1>4, <1>5, <1>6, <1>7, <1>8

(* Closing the journal moves nothing the invariant is about.               *)
LEMMA JournalStop ==
    ASSUME JournalAssumption, JournalInv, NEW p \in Procs, Stop(p)
    PROVE  JournalInv'
<1> USE DEF JournalInv
<1>1. JTypeOK' /\ WritersAreUp'
  BY DEF Stop, JTypeOK, file, WritersAreUp
<1>2. Unhealed' => Unhealed
  BY DEF Stop, Unhealed, Blind, file
<1>3. HealerWatches' /\ ServedStays'
  BY <1>2 DEF Stop, HealerWatches, ServedStays, Parsed, Salvaged, file
<1>4. LossIsPaid'
  <2>1. Cardinality(acked \ good) \in Nat
    BY LossFacts DEF JTypeOK
  <2> QED BY <1>2, <2>1 DEF Stop, LossIsPaid, file, JTypeOK
<1> QED BY <1>1, <1>3, <1>4

(* Every step of the journal preserves the invariant.                      *)
LEMMA JournalStep ==
    ASSUME JournalAssumption, JournalInv, [JNext]_jvars
    PROVE  JournalInv'
<1>1. ASSUME NEW p \in Procs, Open(p)
      PROVE  JournalInv'
  BY <1>1, JournalOpen
<1>2. ASSUME NEW p \in Procs, NEW k \in Keys, AppendBegins(p, k)
      PROVE  JournalInv'
  BY <1>2, JournalAppend
<1>3. ASSUME NEW p \in Procs, WriteCompletes(p)
      PROVE  JournalInv'
  BY <1>3, JournalCompletes
<1>4. ASSUME NEW p \in Procs, NEW survives \in BOOLEAN, WriteFails(p, survives)
      PROVE  JournalInv'
  BY <1>4, JournalFails
<1>5. ASSUME NEW p \in Procs, Stop(p)
      PROVE  JournalInv'
  BY <1>5, JournalStop
<1>6. CASE UNCHANGED jvars
  BY <1>6 DEF JournalInv, JTypeOK, WritersAreUp, HealerWatches, ServedStays, LossIsPaid, Unhealed, Blind,
              Parsed, Salvaged, jvars, file
<1> QED BY <1>1, <1>2, <1>3, <1>4, <1>5, <1>6 DEF JNext

-----------------------------------------------------------------------------
(* The strengthened invariant holds of every behaviour of the journal.     *)
THEOREM JournalInvariant == JSpec => []JournalInv
<1>1. JInit => JournalInv
  BY JournalInit, JournalAssumption
<1>2. JournalInv /\ [JNext]_jvars => JournalInv'
  BY JournalStep, JournalAssumption
<1> QED BY <1>1, <1>2, PTL DEF JSpec

(* The types of the journal's state, for every set of keys and processes.  *)
THEOREM JournalTypes == JSpec => []JTypeOK
<1>1. JournalInv => JTypeOK
  BY DEF JournalInv
<1> QED BY <1>1, JournalInvariant, PTL

(* What a script was given is replayed by every later opening, unless a    *)
(* failed write was left to a process past its first append.               *)
THEOREM WhatWasServedStays == JSpec => []ServedStays
<1>1. JournalInv => ServedStays
  BY DEF JournalInv
<1> QED BY <1>1, JournalInvariant, PTL

(* And each such failure costs at most one acknowledged entry.             *)
THEOREM LossStaysContained == JSpec => []LossIsContained
<1>1. JournalInv => LossIsContained
  <2> SUFFICES ASSUME JournalInv
               PROVE  LossIsContained
    OBVIOUS
  <2>1. acked \ good \in SUBSET Keys /\ acked \ Parsed \in SUBSET (acked \ good)
    BY DEF JournalInv, JTypeOK, Parsed
  <2>2. /\ Cardinality(acked \ good) \in Nat /\ Cardinality(acked \ Parsed) \in Nat
        /\ Cardinality(acked \ Parsed) <= Cardinality(acked \ good)
    BY <2>1, LossFacts, JournalAssumption
  <2> QED BY <2>2 DEF JournalInv, LossIsPaid, LossIsContained, JTypeOK
<1> QED BY <1>1, JournalInvariant, PTL

-----------------------------------------------------------------------------
(* The installer: the lock directory serializes the npm processes for any  *)
(* number of Pi processes that start, crash and come back.                 *)

(* Who has made the lock directory and not started npm yet is alone: no    *)
(* orphan of a crash runs.                                                 *)
LockedIsAlone == \A p \in Installers : I!At(p, "locked") => npm = {}

InstallerInv == I!TypeOK /\ I!OneInstaller /\ LockedIsAlone

LEMMA InstallerInit == I!Init => InstallerInv
  BY DEF I!Init, InstallerInv, I!TypeOK, I!OneInstaller, LockedIsAlone, I!OwnsLock, I!At, I!Tasks, I!Settled

(* Steps that leave lock and npm alone and end outside the lock.           *)
LEMMA OutsideKeepsInv ==
  ASSUME InstallerInv, NEW p \in Installers, NEW where \in {"idle", "looking", "probing", "waiting", "ready", "failed"},
         I!Goes(p, where), UNCHANGED <<lockDir, npm>>, package' \in {"missing", "present", "broken"}
  PROVE  InstallerInv'
<1>1. I!TypeOK'
  BY DEF InstallerInv, I!TypeOK, I!Goes, I!Tasks, I!Settled
<1>2. \A q \in Installers : task'[q] = IF q = p THEN where ELSE task[q]
  BY DEF InstallerInv, I!TypeOK, I!Goes
<1> QED BY <1>1, <1>2 DEF InstallerInv, I!OneInstaller, LockedIsAlone, I!OwnsLock, I!At

(* The owner of the lock takes it back: its npm, if any, is gone.          *)
LEMMA UnlockKeepsInv ==
  ASSUME InstallerInv, NEW p \in Installers, I!OwnsLock(p), NEW where \in {"idle", "ready", "failed"},
         I!Goes(p, where), lockDir' = None, npm' = npm \ {p}, package' \in {"missing", "present", "broken"}
  PROVE  InstallerInv'
<1>1. I!TypeOK'
  BY DEF InstallerInv, I!TypeOK, I!Goes, I!Tasks, I!Settled
<1>2. \A q \in Installers : task'[q] = IF q = p THEN where ELSE task[q]
  BY DEF InstallerInv, I!TypeOK, I!Goes
<1>3. npm' = {}
  BY DEF InstallerInv, I!TypeOK, I!OneInstaller
<1>4. \A q \in Installers : I!OwnsLock(q) => q = p
  BY DEF InstallerInv, I!OneInstaller
<1> QED BY <1>1, <1>2, <1>3, <1>4 DEF InstallerInv, I!OneInstaller, LockedIsAlone, I!OwnsLock, I!At

LEMMA InstallerNext ==
  ASSUME None \notin Installers, InstallerInv, [I!Next]_installer
  PROVE  InstallerInv'
<1>1. ASSUME NEW p \in Installers, I!Begin(p) \/ I!LookForLock(p) \/ I!Probe(p) \/ I!GivesUpWaiting(p) \/ I!Dies(p)
      PROVE  InstallerInv'
  <2>1. package' \in {"missing", "present", "broken"} /\ UNCHANGED <<lockDir, npm>>
    BY <1>1 DEF InstallerInv, I!TypeOK, I!Begin, I!LookForLock, I!Probe, I!GivesUpWaiting, I!Dies
  <2>2. \E where \in {"idle", "looking", "probing", "waiting", "ready", "failed"} : I!Goes(p, where)
    BY <1>1 DEF InstallerInv, I!TypeOK, I!Begin, I!LookForLock, I!Probe, I!GivesUpWaiting, I!Dies
  <2> QED BY <2>1, <2>2, OutsideKeepsInv
<1>2. ASSUME NEW p \in Installers, I!MakeLock(p) PROVE InstallerInv'
  <2>1. I!TypeOK'
    BY <1>2 DEF InstallerInv, I!TypeOK, I!MakeLock, I!Goes, I!Tasks, I!Settled
  <2>2. \A q \in Installers : task'[q] = IF q = p THEN "locked" ELSE task[q]
    BY <1>2 DEF InstallerInv, I!TypeOK, I!MakeLock, I!Goes
  <2>3. npm = {} /\ npm' = {} /\ \A q \in Installers : ~I!OwnsLock(q)
    BY <1>2 DEF InstallerInv, I!TypeOK, I!OneInstaller, I!MakeLock, I!LockFree
  <2> QED BY <1>2, <2>1, <2>2, <2>3 DEF InstallerInv, I!OneInstaller, LockedIsAlone, I!OwnsLock, I!At, I!MakeLock
<1>3. ASSUME NEW p \in Installers, I!ProbeLocked(p) PROVE InstallerInv'
  <2>1. I!OwnsLock(p) /\ npm = {} /\ lockDir = p
    BY <1>3 DEF InstallerInv, I!OneInstaller, LockedIsAlone, I!ProbeLocked, I!OwnsLock
  <2>2. CASE package # "missing"
    <3>1. /\ \E where \in {"ready", "failed"} : I!Goes(p, where)
          /\ lockDir' = None /\ npm' = npm \ {p} /\ package' \in {"missing", "present", "broken"}
      BY <1>3, <2>1, <2>2 DEF InstallerInv, I!TypeOK, I!ProbeLocked, I!Unlock
    <3> QED BY <2>1, <3>1, UnlockKeepsInv
  <2>3. CASE package = "missing"
    <3>1. /\ package' = "broken" /\ npm' = {p} /\ lockDir' = p
          /\ \A q \in Installers : task'[q] = IF q = p THEN "installing" ELSE task[q]
      BY <1>3, <2>1, <2>3 DEF InstallerInv, I!TypeOK, I!ProbeLocked, I!Goes
    <3>2. I!TypeOK'
      BY <1>3, <2>1, <2>3 DEF InstallerInv, I!TypeOK, I!ProbeLocked, I!Goes, I!Tasks, I!Settled
    <3>3. \A q \in Installers : I!OwnsLock(q) => q = p
      BY <2>1 DEF InstallerInv, I!OneInstaller
    <3> QED BY <3>1, <3>2, <3>3 DEF InstallerInv, I!OneInstaller, LockedIsAlone, I!OwnsLock, I!At
  <2> QED BY <2>2, <2>3
<1>4. ASSUME NEW p \in Installers, I!NpmEnds(p) PROVE InstallerInv'
  <2>1. package' \in {"missing", "present", "broken"} /\ npm' = npm \ {p} /\ p \in npm
    BY <1>4 DEF I!NpmEnds
  <2>2. CASE I!At(p, "installing")
    <3>1. I!OwnsLock(p) /\ lockDir' = None /\ \E where \in {"ready", "failed"} : I!Goes(p, where)
      BY <1>4, <2>2 DEF I!NpmEnds, I!OwnsLock, I!Unlock
    <3> QED BY <2>1, <3>1, UnlockKeepsInv
  <2>3. CASE ~I!At(p, "installing")
    <3>1. UNCHANGED <<task, lockDir>>
      BY <1>4, <2>3 DEF I!NpmEnds
    <3> QED BY <2>1, <3>1 DEF InstallerInv, I!TypeOK, I!OneInstaller, LockedIsAlone, I!OwnsLock, I!At
  <2> QED BY <2>2, <2>3
<1>5. ASSUME NEW p \in Installers, I!Aborted(p) PROVE InstallerInv'
  <2>1. I!Goes(p, "idle") /\ package' \in {"missing", "present", "broken"}
    BY <1>5 DEF InstallerInv, I!TypeOK, I!Aborted
  <2>2. CASE I!OwnsLock(p)
    <3>1. lockDir' = None /\ npm' = npm \ {p}
      BY <1>5, <2>2 DEF InstallerInv, LockedIsAlone, I!Aborted, I!Unlock, I!OwnsLock
    <3> QED BY <2>1, <2>2, <3>1, UnlockKeepsInv
  <2>3. CASE ~I!OwnsLock(p)
    <3>1. UNCHANGED <<lockDir, npm>>
      BY <1>5, <2>3 DEF I!Aborted, I!Unlock, I!OwnsLock
    <3> QED BY <2>1, <3>1, OutsideKeepsInv
  <2> QED BY <2>2, <2>3
<1>6. CASE I!UserRemovesLock
  BY <1>6 DEF I!UserRemovesLock, InstallerInv, I!TypeOK, I!OneInstaller, LockedIsAlone, I!OwnsLock, I!At
<1>7. CASE I!UserRepairs
  BY <1>7 DEF I!UserRepairs, InstallerInv, I!TypeOK, I!OneInstaller, LockedIsAlone, I!OwnsLock, I!At
<1>8. CASE UNCHANGED installer
  BY <1>8 DEF installer, InstallerInv, I!TypeOK, I!OneInstaller, LockedIsAlone, I!OwnsLock, I!At
<1> QED BY <1>1, <1>2, <1>3, <1>4, <1>5, <1>6, <1>7, <1>8 DEF I!Next, I!Task

(* Never do two npm processes run in the directory, nor one without the    *)
(* lock, whatever crashes, times out or is removed by the user             *)
(* (dependencies.ts, ensureDatabaseDependency).                            *)
THEOREM InstallersAreSerialized == I!Spec => [](I!TypeOK /\ I!OneInstaller)
<1>1. InstallerInv /\ [I!Next]_I!vars => InstallerInv'
  BY InstallerNext, SharedNamesAssumption DEF I!vars, installer
<1>2. InstallerInv => I!TypeOK /\ I!OneInstaller
  BY DEF InstallerInv
<1> QED BY InstallerInit, <1>1, <1>2, PTL DEF I!Spec

-----------------------------------------------------------------------------
(* The lock of the settings.  A directory that is old was left by a        *)
(* process that works no more, or the ten seconds went by under it; so     *)
(* whoever removes an old one robs nobody, unless another one is about to  *)
(* do the same.  Of what a save has read, nothing changes before it is     *)
(* written.                                                                *)

SaverInv ==
    /\ \A p \in Savers : G!Owns(p) =>
          G!Exists /\ lockDirectory.by = p /\ ~lockDirectory.old
    /\ \A p \in Savers : G!At(p, "remove") => G!Exists /\ lockDirectory.old
    /\ \A p, q \in Savers : G!At(p, "remove") /\ G!At(q, "remove") => p = q

MergeInv ==
    /\ ~torn => settingsFile = saved
    /\ \A p \in Savers : saver[p].at \in {"truncate", "write"} =>
          saver[p].settings = [saved EXCEPT ![p] = saver[p].value]

Values == [Savers -> Nat]

Places == {"idle", "mkdir", "look", "remove"} \cup G!Owning

SaverTypes ==
    [at : Places, op : {None, "read", "save"}, value : Nat, contentionAttempts : Nat,
     totalAttempts : Nat, identity : {None} \cup Inodes, settings : {None} \cup Values]

LockTypes ==
    /\ saver \in [Savers -> SaverTypes]
    /\ lockDirectory \in [inode : {None} \cup Inodes, old : BOOLEAN, by : {None} \cup Savers]
    /\ settingsFile \in Values /\ saved \in Values
    /\ torn \in BOOLEAN /\ uses \in Nat /\ spoiled \in BOOLEAN
    /\ \A p \in Savers : saver[p].at \in {"truncate", "write"} => saver[p].settings \in Values

LockInv == LockTypes /\ (~spoiled => SaverInv /\ MergeInv)

(* None is nobody, no inode and no settings.                               *)
LEMMA LockStart == ASSUME SharedNamesAssumption, G!Init PROVE LockInv
BY DEF SharedNamesAssumption, LockInv, LockTypes, SaverTypes, Values, Places, SaverInv, MergeInv, G!Init,
       G!Idle, G!Nothing, G!NoDirectory, G!Exists, G!Owns, G!Owning, G!At

(* What a step writes into the record of a process.                        *)
LEMMA SaverUpdates ==
  ASSUME NEW r \in SaverTypes, NEW at \in Places
  PROVE  /\ [r EXCEPT !.at = at] \in SaverTypes
         /\ [r EXCEPT !.at = at, !.totalAttempts = @ + 1] \in SaverTypes
         /\ [r EXCEPT !.at = at, !.contentionAttempts = @ + 1] \in SaverTypes
         /\ \A i \in Inodes : [r EXCEPT !.at = at, !.identity = i] \in SaverTypes
         /\ \A v \in Values : [r EXCEPT !.at = at, !.settings = v] \in SaverTypes
<1>1. \A n \in Nat : /\ [r EXCEPT !.at = at, !.totalAttempts = n] \in SaverTypes
                     /\ [r EXCEPT !.at = at, !.contentionAttempts = n] \in SaverTypes
  BY DEF SaverTypes
<1>2. r.totalAttempts + 1 \in Nat /\ r.contentionAttempts + 1 \in Nat
  BY DEF SaverTypes
<1>3. [r EXCEPT !.at = at] \in SaverTypes
  BY DEF SaverTypes
<1>4. \A i \in Inodes : [r EXCEPT !.at = at, !.identity = i] \in SaverTypes
  BY DEF SaverTypes
<1>5. \A v \in Values : [r EXCEPT !.at = at, !.settings = v] \in SaverTypes
  BY DEF SaverTypes
<1> QED BY <1>1, <1>2, <1>3, <1>4, <1>5

LEMMA SaverStarts ==
  G!Idle \in SaverTypes /\ \A o \in {"read", "save"}, n \in Nat :
     [G!Idle EXCEPT !.at = "mkdir", !.op = o, !.value = n] \in SaverTypes
<1>1. G!Idle \in SaverTypes
  BY DEF SaverTypes, Places, G!Idle, G!Owning
<1> QED BY <1>1 DEF SaverTypes, Places

(* The record of one process changes, and where it goes on.                *)
LEMMA SaverRecords ==
  ASSUME LockTypes, NEW p \in Savers, NEW r \in SaverTypes, saver' = [saver EXCEPT ![p] = r]
  PROVE  /\ saver' \in [Savers -> SaverTypes] /\ saver'[p] = r
         /\ \A q \in Savers \ {p} : saver'[q] = saver[q]
BY DEF LockTypes

LEMMA SaverMoves ==
  ASSUME LockTypes, NEW p \in Savers, NEW at \in Places, G!Goes(p, at) \/ G!Tries(p, at)
  PROVE  /\ saver' \in [Savers -> SaverTypes]
         /\ saver'[p].at = at /\ saver'[p].settings = saver[p].settings /\ saver'[p].value = saver[p].value
         /\ \A q \in Savers \ {p} : saver'[q] = saver[q]
<1>1. saver[p] \in SaverTypes
  BY DEF LockTypes
<1>2. CASE G!Goes(p, at)
  <2>1. PICK r : r = [saver[p] EXCEPT !.at = at]
    OBVIOUS
  <2>2. r \in SaverTypes /\ r.at = at /\ r.settings = saver[p].settings /\ r.value = saver[p].value
    BY <1>1, <2>1, SaverUpdates DEF SaverTypes
  <2>3. saver' = [saver EXCEPT ![p] = r]
    BY <1>2, <2>1 DEF G!Goes
  <2> QED BY <2>2, <2>3, SaverRecords
<1>3. CASE G!Tries(p, at)
  <2>1. PICK r : r = [saver[p] EXCEPT !.at = at, !.totalAttempts = saver[p].totalAttempts + 1]
    OBVIOUS
  <2>2. r \in SaverTypes /\ r.at = at /\ r.settings = saver[p].settings /\ r.value = saver[p].value
    BY <1>1, <2>1, SaverUpdates DEF SaverTypes
  <2>3. saver' = [saver EXCEPT ![p] = r]
    BY <1>3, <2>1 DEF G!Tries
  <2> QED BY <2>2, <2>3, SaverRecords
<1> QED BY <1>2, <1>3

LEMMA SaverEnds ==
  ASSUME LockTypes, NEW p \in Savers, G!Ends(p)
  PROVE  /\ saver' \in [Savers -> SaverTypes] /\ saver'[p].at = "idle"
         /\ \A q \in Savers \ {p} : saver'[q] = saver[q]
BY SaverStarts, SaverRecords DEF G!Ends, G!Idle

(* The other steps of a process write one more field.                      *)
LEMMA SaverLooks ==
  ASSUME LockTypes, NEW p \in Savers, G!Looks(p)
  PROVE  /\ saver' \in [Savers -> SaverTypes] /\ saver'[p].at \in {"mkdir", "remove"}
         /\ saver'[p].at = "remove" => /\ G!Exists /\ lockDirectory.old
                                      /\ spoiled' = (spoiled \/ \E q \in Savers \ {p} : G!At(q, "remove"))
         /\ saver'[p].at # "remove" => spoiled' = spoiled
         /\ \A q \in Savers \ {p} : saver'[q] = saver[q]
<1>1. CASE ~G!Exists
  BY <1>1, SaverMoves DEF G!Looks, Places
<1>2. CASE G!Exists /\ lockDirectory.old
  BY <1>2, SaverMoves DEF G!Looks, G!Stale, Places
<1>3. CASE G!Exists /\ ~lockDirectory.old
  <2>1. PICK r : r = [saver[p] EXCEPT !.at = "mkdir", !.contentionAttempts = saver[p].contentionAttempts + 1]
    OBVIOUS
  <2>2. saver[p] \in SaverTypes
    BY DEF LockTypes
  <2>3. r \in SaverTypes /\ r.at = "mkdir"
    BY <2>1, <2>2, SaverUpdates DEF SaverTypes, Places
  <2>4. saver' = [saver EXCEPT ![p] = r] /\ spoiled' = spoiled
    BY <1>3, <2>1 DEF G!Looks, G!Stale
  <2> QED BY <2>3, <2>4, SaverRecords
<1> QED BY <1>1, <1>2, <1>3

LEMMA SaverProbes ==
  ASSUME LockTypes, NEW p \in Savers, NEW b \in BOOLEAN, G!ProbesIdentity(p, b)
  PROVE  /\ saver' \in [Savers -> SaverTypes] /\ saver'[p].at \in {"read", "undo"}
         /\ \A q \in Savers \ {p} : saver'[q] = saver[q]
<1>1. saver[p] \in SaverTypes
  BY DEF LockTypes
<1>2. CASE b
  <2>1. PICK r : r = [saver[p] EXCEPT !.at = "read", !.identity = lockDirectory.inode]
    OBVIOUS
  <2>2. lockDirectory.inode \in Inodes
    BY <1>2 DEF G!ProbesIdentity, G!Exists, LockTypes
  <2>3. r \in SaverTypes /\ r.at = "read"
    BY <1>1, <2>1, <2>2, SaverUpdates DEF SaverTypes, Places, G!Owning
  <2>4. saver' = [saver EXCEPT ![p] = r]
    BY <1>2, <2>1 DEF G!ProbesIdentity
  <2> QED BY <2>3, <2>4, SaverRecords
<1>3. CASE ~b
  <2>1. PICK r : r = [saver[p] EXCEPT !.at = "undo"]
    OBVIOUS
  <2>2. r \in SaverTypes /\ r.at = "undo"
    BY <1>1, <2>1, SaverUpdates DEF SaverTypes, Places, G!Owning
  <2>3. saver' = [saver EXCEPT ![p] = r]
    BY <1>3, <2>1 DEF G!ProbesIdentity
  <2> QED BY <2>2, <2>3, SaverRecords
<1> QED BY <1>2, <1>3

LEMMA SaverReads ==
  ASSUME LockTypes, NEW p \in Savers, G!Reads(p)
  PROVE  /\ saver' \in [Savers -> SaverTypes] /\ saver'[p].at \in {"release", "truncate"}
         /\ saver'[p].at = "truncate" => /\ ~torn /\ saver'[p].settings \in Values
                                        /\ saver'[p].settings = [settingsFile EXCEPT ![p] = saver'[p].value]
         /\ \A q \in Savers \ {p} : saver'[q] = saver[q]
<1>1. saver[p] \in SaverTypes
  BY DEF LockTypes
<1>2. CASE torn \/ saver[p].op = "read"
  <2>1. "release" \in Places /\ G!Goes(p, "release")
    BY <1>2 DEF G!Reads, Places, G!Owning
  <2> QED BY <2>1, SaverMoves
<1>3. CASE ~(torn \/ saver[p].op = "read")
  <2>1. PICK r : r = [saver[p] EXCEPT !.at = "truncate", !.settings = G!Merged(p)]
    OBVIOUS
  <2>2. G!Merged(p) \in Values
    BY <1>1 DEF LockTypes, G!Merged, Values, SaverTypes
  <2>3. r \in SaverTypes /\ r.at = "truncate" /\ r.settings = G!Merged(p) /\ r.value = saver[p].value
    BY <1>1, <2>1, <2>2, SaverUpdates DEF SaverTypes, Places, G!Owning
  <2>4. saver' = [saver EXCEPT ![p] = r]
    BY <1>3, <2>1 DEF G!Reads
  <2> QED BY <1>3, <2>2, <2>3, <2>4, SaverRecords DEF G!Merged
<1> QED BY <1>2, <1>3

LEMMA SaverBegins ==
  ASSUME LockTypes, NEW p \in Savers, NEW o \in {"read", "save"}, G!Begins(p, o)
  PROVE  /\ saver' \in [Savers -> SaverTypes] /\ saver'[p].at = "mkdir" /\ uses' \in Nat
         /\ \A q \in Savers \ {p} : saver'[q] = saver[q]
<1>1. uses' \in Nat
  BY DEF LockTypes, G!Begins
<1>2. PICK r : r = [G!Idle EXCEPT !.at = "mkdir", !.op = o, !.value = uses']
  OBVIOUS
<1>3. r \in SaverTypes /\ r.at = "mkdir"
  BY <1>1, <1>2, SaverStarts DEF G!Idle
<1>4. saver' = [saver EXCEPT ![p] = r]
  BY <1>2 DEF G!Begins
<1> QED BY <1>1, <1>3, <1>4, SaverRecords

LEMMA LockTypeStep == ASSUME LockTypes, [G!Next]_(G!vars) PROVE LockTypes'
<1>1. ASSUME NEW p \in Savers, NEW o \in {"read", "save"}, G!Begins(p, o) PROVE LockTypes'
  BY <1>1, SaverBegins DEF LockTypes, G!Begins, G!file
<1>2. ASSUME NEW p \in Savers, NEW i \in Inodes, G!MakesLock(p, i) PROVE LockTypes'
  <2>1. "probe" \in Places /\ G!Tries(p, "probe")
    BY <1>2 DEF G!MakesLock, Places, G!Owning
  <2>2. /\ saver' \in [Savers -> SaverTypes] /\ saver'[p].at = "probe"
        /\ saver'[p].settings = saver[p].settings
        /\ \A q \in Savers \ {p} : saver'[q] = saver[q]
    BY <2>1, SaverMoves
  <2> QED BY <1>2, <2>2 DEF LockTypes, G!MakesLock, G!file
<1>3. ASSUME NEW p \in Savers, G!FindsLock(p) PROVE LockTypes'
  <2>1. "look" \in Places /\ G!Tries(p, "look")
    BY <1>3 DEF G!FindsLock, Places, G!Owning
  <2>2. /\ saver' \in [Savers -> SaverTypes] /\ saver'[p].at = "look"
        /\ saver'[p].settings = saver[p].settings
        /\ \A q \in Savers \ {p} : saver'[q] = saver[q]
    BY <2>1, SaverMoves
  <2> QED BY <1>3, <2>2 DEF LockTypes, G!FindsLock, G!file
<1>4. ASSUME NEW p \in Savers, G!GivesUp(p) PROVE LockTypes'
  BY <1>4, SaverEnds DEF LockTypes, G!GivesUp, G!file
<1>5. ASSUME NEW p \in Savers, G!Looks(p) PROVE LockTypes'
  BY <1>5, SaverLooks DEF LockTypes, G!Looks, G!file
<1>6. ASSUME NEW p \in Savers, G!Reclaims(p) PROVE LockTypes'
  <2>1. "mkdir" \in Places /\ G!Goes(p, "mkdir")
    BY <1>6 DEF G!Reclaims, Places, G!Owning
  <2>2. /\ saver' \in [Savers -> SaverTypes] /\ saver'[p].at = "mkdir"
        /\ saver'[p].settings = saver[p].settings
        /\ \A q \in Savers \ {p} : saver'[q] = saver[q]
    BY <2>1, SaverMoves
  <2> QED BY <1>6, <2>2 DEF LockTypes, G!Reclaims, G!file, G!RemovesDirectory, G!NoDirectory
<1>7. ASSUME NEW p \in Savers, NEW b \in BOOLEAN, G!ProbesIdentity(p, b) PROVE LockTypes'
  BY <1>7, SaverProbes DEF LockTypes, G!ProbesIdentity, G!file
<1>8. ASSUME NEW p \in Savers, G!Undoes(p) PROVE LockTypes'
  BY <1>8, SaverEnds DEF LockTypes, G!Undoes, G!file, G!RemovesDirectory, G!NoDirectory
<1>9. ASSUME NEW p \in Savers, G!Reads(p) PROVE LockTypes'
  BY <1>9, SaverReads DEF LockTypes, G!Reads, G!file
<1>10. ASSUME NEW p \in Savers, NEW b \in BOOLEAN, G!Truncates(p, b) PROVE LockTypes'
  <2>1. G!Nothing \in Values
    BY DEF G!Nothing, Values
  <2>2. PICK at \in {"write", "release"} : G!Goes(p, at)
    BY <1>10 DEF G!Truncates
  <2>3. at \in Places
    BY DEF Places, G!Owning
  <2>4. /\ saver' \in [Savers -> SaverTypes] /\ saver'[p].at = at
        /\ saver'[p].settings = saver[p].settings
        /\ \A q \in Savers \ {p} : saver'[q] = saver[q]
    BY <2>2, <2>3, SaverMoves
  <2> QED BY <1>10, <2>1, <2>4 DEF LockTypes, G!Truncates, G!At
<1>11. ASSUME NEW p \in Savers, NEW b \in BOOLEAN, G!Writes(p, b) PROVE LockTypes'
  <2>1. "release" \in Places /\ G!Goes(p, "release")
    BY <1>11 DEF G!Writes, Places, G!Owning
  <2>2. /\ saver' \in [Savers -> SaverTypes] /\ saver'[p].at = "release"
        /\ saver'[p].settings = saver[p].settings
        /\ \A q \in Savers \ {p} : saver'[q] = saver[q]
    BY <2>1, SaverMoves
  <2> QED BY <1>11, <2>2 DEF LockTypes, G!Writes, G!file, G!At, Values
<1>12. ASSUME NEW p \in Savers, G!Releases(p) PROVE LockTypes'
  <2>1. "remove own" \in Places
    BY DEF Places, G!Owning
  <2>2. G!Goes(p, "remove own") \/ G!Ends(p)
    BY <1>12 DEF G!Releases
  <2>3. /\ saver' \in [Savers -> SaverTypes] /\ saver'[p].at \in {"remove own", "idle"}
        /\ \A q \in Savers \ {p} : saver'[q] = saver[q]
    BY <2>1, <2>2, SaverMoves, SaverEnds
  <2> QED BY <1>12, <2>3 DEF LockTypes, G!Releases, G!file
<1>13. ASSUME NEW p \in Savers, G!RemovesOwn(p) PROVE LockTypes'
  BY <1>13, SaverEnds DEF LockTypes, G!RemovesOwn, G!file, G!RemovesDirectory, G!NoDirectory
<1>14. ASSUME NEW p \in Savers, G!Dies(p) PROVE LockTypes'
  BY <1>14, SaverEnds DEF LockTypes, G!Dies, G!file
<1>15. CASE G!Ages
  BY <1>15 DEF LockTypes, G!Ages, G!file
<1>16. CASE UNCHANGED G!vars
  BY <1>16 DEF LockTypes, G!vars
<1> QED BY <1>1, <1>2, <1>3, <1>4, <1>5, <1>6, <1>7, <1>8, <1>9, <1>10, <1>11, <1>12, <1>13, <1>14, <1>15, <1>16 DEF G!Next

-----------------------------------------------------------------------------
(* A step that leaves the directory alone, and by which nobody begins to   *)
(* own it or to remove it.                                                 *)
LEMMA SaverKeeps ==
  ASSUME SaverInv, NEW p \in Savers, lockDirectory' = lockDirectory,
         \A q \in Savers \ {p} : saver'[q] = saver[q],
         saver'[p].at \in G!Owning => saver[p].at \in G!Owning, saver'[p].at # "remove"
  PROVE  SaverInv'
<1>1. \A q \in Savers : /\ saver'[q].at \in G!Owning => saver[q].at \in G!Owning
                        /\ saver'[q].at = "remove" => saver[q].at = "remove"
  OBVIOUS
<1> QED BY <1>1 DEF SaverInv, G!Owns, G!At, G!Exists

(* Who is under the lock, and who is about to remove it.                   *)
LEMMA SaverStep ==
  ASSUME SharedNamesAssumption, LockTypes, SaverInv, ~spoiled, ~spoiled', [G!Next]_(G!vars)
  PROVE  SaverInv'
<1>1. ASSUME NEW p \in Savers, NEW o \in {"read", "save"}, G!Begins(p, o) PROVE SaverInv'
  <2>1. /\ saver'[p].at = "mkdir"
        /\ \A q \in Savers \ {p} : saver'[q] = saver[q]
    BY <1>1, SaverBegins DEF G!Begins
  <2>2. lockDirectory' = lockDirectory
    BY <1>1 DEF G!Begins, G!At
  <2> QED BY <2>1, <2>2, SaverKeeps DEF G!Owning
<1>2. ASSUME NEW p \in Savers, NEW i \in Inodes, G!MakesLock(p, i) PROVE SaverInv'
  <2>1. "probe" \in Places /\ G!Tries(p, "probe")
    BY <1>2 DEF G!MakesLock, Places, G!Owning
  <2>2. saver'[p].at = "probe" /\ \A q \in Savers \ {p} : saver'[q] = saver[q]
    BY <2>1, SaverMoves
  <2> QED BY <1>2, <2>2 DEF SaverInv, G!MakesLock, G!At, G!Owns, G!Owning, G!Exists, SharedNamesAssumption
<1>3. ASSUME NEW p \in Savers, G!FindsLock(p) PROVE SaverInv'
  <2>1. "look" \in Places /\ G!Tries(p, "look")
    BY <1>3 DEF G!FindsLock, Places, G!Owning
  <2>2. saver'[p].at = "look" /\ \A q \in Savers \ {p} : saver'[q] = saver[q]
    BY <2>1, SaverMoves
  <2>3. lockDirectory' = lockDirectory
    BY <1>3 DEF G!FindsLock, G!At
  <2> QED BY <2>2, <2>3, SaverKeeps DEF G!Owning
<1>4. ASSUME NEW p \in Savers, G!GivesUp(p) PROVE SaverInv'
  <2>1. /\ saver'[p].at = "idle"
        /\ \A q \in Savers \ {p} : saver'[q] = saver[q]
    BY <1>4, SaverEnds DEF G!GivesUp
  <2>2. lockDirectory' = lockDirectory
    BY <1>4 DEF G!GivesUp, G!At
  <2> QED BY <2>1, <2>2, SaverKeeps DEF G!Owning
<1>5. ASSUME NEW p \in Savers, G!Looks(p) PROVE SaverInv'
  <2>1. /\ saver'[p].at \in {"mkdir", "remove"}
        /\ \A q \in Savers \ {p} : saver'[q] = saver[q]
        /\ saver'[p].at = "remove" => /\ G!Exists /\ lockDirectory.old
                                     /\ \A q \in Savers \ {p} : ~G!At(q, "remove")
    BY <1>5, SaverLooks
  <2>2. lockDirectory' = lockDirectory
    BY <1>5 DEF G!Looks
  <2>3. CASE saver'[p].at = "mkdir"
    BY <2>1, <2>2, <2>3, SaverKeeps DEF G!Owning
  <2>4. CASE saver'[p].at = "remove"
    <3>1. \A q \in Savers : saver'[q].at \in G!Owning => q # p /\ saver[q].at \in G!Owning
      BY <2>1, <2>4 DEF G!Owning
    <3>2. \A q \in Savers : saver'[q].at = "remove" => q = p
      BY <2>1, <2>4 DEF G!At
    <3>3. G!Exists' /\ lockDirectory'.old
      BY <2>1, <2>2, <2>4 DEF G!Exists
    <3> QED BY <2>2, <2>4, <3>1, <3>2, <3>3 DEF SaverInv, G!Owns, G!At
  <2> QED BY <2>1, <2>3, <2>4
<1>6. ASSUME NEW p \in Savers, G!Reclaims(p) PROVE SaverInv'
  <2>1. "mkdir" \in Places /\ G!Goes(p, "mkdir")
    BY <1>6 DEF G!Reclaims, Places, G!Owning
  <2>2. saver'[p].at = "mkdir" /\ \A q \in Savers \ {p} : saver'[q] = saver[q]
    BY <2>1, SaverMoves
  <2> QED BY <1>6, <2>2 DEF SaverInv, G!Reclaims, G!At, G!Owns, G!Owning, G!Exists, G!RemovesDirectory, G!NoDirectory
<1>7. ASSUME NEW p \in Savers, NEW b \in BOOLEAN, G!ProbesIdentity(p, b) PROVE SaverInv'
  <2>1. /\ saver'[p].at \in {"read", "undo"}
        /\ \A q \in Savers \ {p} : saver'[q] = saver[q]
    BY <1>7, SaverProbes
  <2>2. lockDirectory' = lockDirectory /\ saver[p].at = "probe"
    BY <1>7 DEF G!ProbesIdentity, G!At
  <2> QED BY <2>1, <2>2, SaverKeeps DEF G!Owning
<1>8. ASSUME NEW p \in Savers, G!Undoes(p) PROVE SaverInv'
  <2>1. /\ saver'[p].at = "idle"
        /\ \A q \in Savers \ {p} : saver'[q] = saver[q]
    BY <1>8, SaverEnds DEF G!Undoes
  <2>2. lockDirectory'.inode = None /\ saver[p].at \in G!Owning
    BY <1>8 DEF G!Undoes, G!At, G!Owning, G!RemovesDirectory, G!NoDirectory
  <2>3. \A q \in Savers \ {p} : ~G!Owns(q) /\ ~G!At(q, "remove")
    BY <2>2 DEF SaverInv, G!At, G!Owns
  <2>4. ~G!Owns(p)' /\ ~G!At(p, "remove")'
    BY <2>1 DEF G!At, G!Owns, G!Owning
  <2>5. \A q \in Savers : ~G!Owns(q)' /\ ~G!At(q, "remove")'
    BY <2>1, <2>3, <2>4 DEF G!At, G!Owns
  <2> QED BY <2>5 DEF SaverInv
<1>9. ASSUME NEW p \in Savers, G!Reads(p) PROVE SaverInv'
  <2>1. /\ saver'[p].at \in {"release", "truncate"}
        /\ \A q \in Savers \ {p} : saver'[q] = saver[q]
    BY <1>9, SaverReads DEF G!Reads
  <2>2. lockDirectory' = lockDirectory /\ saver[p].at = "read"
    BY <1>9 DEF G!Reads, G!At
  <2> QED BY <2>1, <2>2, SaverKeeps DEF G!Owning
<1>10. ASSUME NEW p \in Savers, NEW b \in BOOLEAN, G!Truncates(p, b) PROVE SaverInv'
  <2>1. PICK at \in {"write", "release"} : G!Goes(p, at)
    BY <1>10 DEF G!Truncates
  <2>2. at \in Places
    BY DEF Places, G!Owning
  <2>3. saver'[p].at = at /\ \A q \in Savers \ {p} : saver'[q] = saver[q]
    BY <2>1, <2>2, SaverMoves
  <2>4. lockDirectory' = lockDirectory /\ saver[p].at = "truncate"
    BY <1>10 DEF G!Truncates, G!At
  <2> QED BY <2>3, <2>4, SaverKeeps DEF G!Owning
<1>11. ASSUME NEW p \in Savers, NEW b \in BOOLEAN, G!Writes(p, b) PROVE SaverInv'
  <2>1. "release" \in Places /\ G!Goes(p, "release")
    BY <1>11 DEF G!Writes, Places, G!Owning
  <2>2. saver'[p].at = "release" /\ \A q \in Savers \ {p} : saver'[q] = saver[q]
    BY <2>1, SaverMoves
  <2>3. lockDirectory' = lockDirectory /\ saver[p].at = "write"
    BY <1>11 DEF G!Writes, G!At
  <2> QED BY <2>2, <2>3, SaverKeeps DEF G!Owning
<1>12. ASSUME NEW p \in Savers, G!Releases(p) PROVE SaverInv'
  <2>1. "remove own" \in Places
    BY DEF Places, G!Owning
  <2>2. G!Goes(p, "remove own") \/ G!Ends(p)
    BY <1>12 DEF G!Releases
  <2>3. /\ saver'[p].at \in {"remove own", "idle"}
        /\ \A q \in Savers \ {p} : saver'[q] = saver[q]
    BY <2>1, <2>2, SaverMoves, SaverEnds
  <2>4. lockDirectory' = lockDirectory /\ saver[p].at = "release"
    BY <1>12 DEF G!Releases, G!At
  <2> QED BY <2>3, <2>4, SaverKeeps DEF G!Owning
<1>13. ASSUME NEW p \in Savers, G!RemovesOwn(p) PROVE SaverInv'
  <2>1. /\ saver'[p].at = "idle"
        /\ \A q \in Savers \ {p} : saver'[q] = saver[q]
    BY <1>13, SaverEnds DEF G!RemovesOwn
  <2>2. lockDirectory'.inode = None /\ saver[p].at \in G!Owning
    BY <1>13 DEF G!RemovesOwn, G!At, G!Owning, G!RemovesDirectory, G!NoDirectory
  <2>3. \A q \in Savers \ {p} : ~G!Owns(q) /\ ~G!At(q, "remove")
    BY <2>2 DEF SaverInv, G!At, G!Owns
  <2>4. ~G!Owns(p)' /\ ~G!At(p, "remove")'
    BY <2>1 DEF G!At, G!Owns, G!Owning
  <2>5. \A q \in Savers : ~G!Owns(q)' /\ ~G!At(q, "remove")'
    BY <2>1, <2>3, <2>4 DEF G!At, G!Owns
  <2> QED BY <2>5 DEF SaverInv
<1>14. ASSUME NEW p \in Savers, G!Dies(p) PROVE SaverInv'
  <2>1. /\ saver'[p].at = "idle"
        /\ \A q \in Savers \ {p} : saver'[q] = saver[q]
    BY <1>14, SaverEnds DEF G!Dies
  <2>2. lockDirectory' = lockDirectory
    BY <1>14 DEF G!Dies, G!At
  <2> QED BY <2>1, <2>2, SaverKeeps DEF G!Owning
<1>15. CASE G!Ages
  BY <1>15 DEF G!Ages, LockTypes, SaverInv, G!At, G!Owns, G!Owning, G!Exists
<1>16. CASE UNCHANGED G!vars
  BY <1>16 DEF G!vars, SaverInv, G!At, G!Owns, G!Owning, G!Exists
<1> QED BY <1>1, <1>2, <1>3, <1>4, <1>5, <1>6, <1>7, <1>8, <1>9, <1>10, <1>11, <1>12, <1>13, <1>14, <1>15, <1>16 DEF G!Next

(* A process that merges is alone, and nothing that it has read changes.   *)
Merging(p) == saver[p].at \in {"truncate", "write"}

LEMMA MergeStep ==
  ASSUME LockTypes, SaverInv, MergeInv, ~spoiled, ~spoiled', [G!Next]_(G!vars)
  PROVE  MergeInv'
<1>1. \A p, q \in Savers : Merging(p) /\ saver[q].at \in G!Owning => p = q
  BY DEF SaverInv, Merging, G!Owns, G!Owning
<1>2. ASSUME NEW p \in Savers, UNCHANGED G!file, ~Merging(p)',
             \A q \in Savers \ {p} : saver'[q] = saver[q]
      PROVE  MergeInv'
  BY <1>2 DEF MergeInv, Merging, G!file
<1>3. ASSUME NEW p \in Savers, NEW o \in {"read", "save"}, G!Begins(p, o) PROVE MergeInv'
  <2>1. ~Merging(p)' /\ \A q \in Savers \ {p} : saver'[q] = saver[q]
    BY <1>3, SaverBegins DEF G!Begins, Merging
  <2>2. UNCHANGED G!file
    BY <1>3 DEF G!Begins
  <2> QED BY <1>2, <2>1, <2>2
<1>4. ASSUME NEW p \in Savers, NEW i \in Inodes, G!MakesLock(p, i) PROVE MergeInv'
  <2>1. "probe" \in Places /\ G!Tries(p, "probe")
    BY <1>4 DEF G!MakesLock, Places, G!Owning
  <2>2. saver'[p].at = "probe" /\ \A q \in Savers \ {p} : saver'[q] = saver[q]
    BY <2>1, SaverMoves
  <2>3. UNCHANGED G!file
    BY <1>4 DEF G!MakesLock
  <2> QED BY <1>2, <2>2, <2>3 DEF Merging
<1>5. ASSUME NEW p \in Savers, G!FindsLock(p) PROVE MergeInv'
  <2>1. "look" \in Places /\ G!Tries(p, "look")
    BY <1>5 DEF G!FindsLock, Places, G!Owning
  <2>2. saver'[p].at = "look" /\ \A q \in Savers \ {p} : saver'[q] = saver[q]
    BY <2>1, SaverMoves
  <2>3. UNCHANGED G!file
    BY <1>5 DEF G!FindsLock
  <2> QED BY <1>2, <2>2, <2>3 DEF Merging
<1>6. ASSUME NEW p \in Savers, G!GivesUp(p) PROVE MergeInv'
  <2>1. ~Merging(p)' /\ \A q \in Savers \ {p} : saver'[q] = saver[q]
    BY <1>6, SaverEnds DEF G!GivesUp, Merging
  <2>2. UNCHANGED G!file
    BY <1>6 DEF G!GivesUp
  <2> QED BY <1>2, <2>1, <2>2
<1>7. ASSUME NEW p \in Savers, G!Looks(p) PROVE MergeInv'
  <2>1. ~Merging(p)' /\ \A q \in Savers \ {p} : saver'[q] = saver[q]
    BY <1>7, SaverLooks DEF G!Looks, Merging
  <2>2. UNCHANGED G!file
    BY <1>7 DEF G!Looks
  <2> QED BY <1>2, <2>1, <2>2
<1>8. ASSUME NEW p \in Savers, G!Reclaims(p) PROVE MergeInv'
  <2>1. "mkdir" \in Places /\ G!Goes(p, "mkdir")
    BY <1>8 DEF G!Reclaims, Places, G!Owning
  <2>2. saver'[p].at = "mkdir" /\ \A q \in Savers \ {p} : saver'[q] = saver[q]
    BY <2>1, SaverMoves
  <2>3. UNCHANGED G!file
    BY <1>8 DEF G!Reclaims
  <2> QED BY <1>2, <2>2, <2>3 DEF Merging
<1>9. ASSUME NEW p \in Savers, NEW b \in BOOLEAN, G!ProbesIdentity(p, b) PROVE MergeInv'
  <2>1. ~Merging(p)' /\ \A q \in Savers \ {p} : saver'[q] = saver[q]
    BY <1>9, SaverProbes DEF G!ProbesIdentity, Merging
  <2>2. UNCHANGED G!file
    BY <1>9 DEF G!ProbesIdentity
  <2> QED BY <1>2, <2>1, <2>2
<1>10. ASSUME NEW p \in Savers, G!Undoes(p) PROVE MergeInv'
  <2>1. ~Merging(p)' /\ \A q \in Savers \ {p} : saver'[q] = saver[q]
    BY <1>10, SaverEnds DEF G!Undoes, Merging
  <2>2. UNCHANGED G!file
    BY <1>10 DEF G!Undoes
  <2> QED BY <1>2, <2>1, <2>2
<1>11. ASSUME NEW p \in Savers, G!RemovesOwn(p) PROVE MergeInv'
  <2>1. ~Merging(p)' /\ \A q \in Savers \ {p} : saver'[q] = saver[q]
    BY <1>11, SaverEnds DEF G!RemovesOwn, Merging
  <2>2. UNCHANGED G!file
    BY <1>11 DEF G!RemovesOwn
  <2> QED BY <1>2, <2>1, <2>2
<1>12. ASSUME NEW p \in Savers, G!Dies(p) PROVE MergeInv'
  <2>1. ~Merging(p)' /\ \A q \in Savers \ {p} : saver'[q] = saver[q]
    BY <1>12, SaverEnds DEF G!Dies, Merging
  <2>2. UNCHANGED G!file
    BY <1>12 DEF G!Dies
  <2> QED BY <1>2, <2>1, <2>2
<1>13. ASSUME NEW p \in Savers, G!Releases(p) PROVE MergeInv'
  <2>1. "remove own" \in Places
    BY DEF Places, G!Owning
  <2>2. G!Goes(p, "remove own") \/ G!Ends(p)
    BY <1>13 DEF G!Releases
  <2>3. ~Merging(p)' /\ \A q \in Savers \ {p} : saver'[q] = saver[q]
    BY <2>1, <2>2, SaverMoves, SaverEnds DEF Merging
  <2>4. UNCHANGED G!file
    BY <1>13 DEF G!Releases
  <2> QED BY <1>2, <2>3, <2>4
<1>14. ASSUME NEW p \in Savers, G!Reads(p) PROVE MergeInv'
  <2>1. /\ \A q \in Savers \ {p} : saver'[q] = saver[q]
        /\ saver'[p].at \in {"release", "truncate"}
        /\ saver'[p].at = "truncate" =>
              ~torn /\ saver'[p].settings = [settingsFile EXCEPT ![p] = saver'[p].value]
    BY <1>14, SaverReads
  <2>2. UNCHANGED G!file
    BY <1>14 DEF G!Reads
  <2> QED BY <2>1, <2>2 DEF MergeInv, G!file
<1>15. ASSUME NEW p \in Savers, NEW b \in BOOLEAN, G!Truncates(p, b) PROVE MergeInv'
  <2>1. PICK at \in {"write", "release"} : G!Goes(p, at)
    BY <1>15 DEF G!Truncates
  <2>2. at \in Places
    BY DEF Places, G!Owning
  <2>3. /\ saver'[p].at = at /\ saver'[p].settings = saver[p].settings /\ saver'[p].value = saver[p].value
        /\ \A q \in Savers \ {p} : saver'[q] = saver[q]
    BY <2>1, <2>2, SaverMoves
  <2>4. /\ saved' = saved /\ saver[p].at = "truncate"
        /\ torn' \/ (torn' = torn /\ settingsFile' = settingsFile)
    BY <1>15 DEF G!Truncates, G!At
  <2> QED BY <2>3, <2>4 DEF MergeInv
<1>16. ASSUME NEW p \in Savers, NEW b \in BOOLEAN, G!Writes(p, b) PROVE MergeInv'
  <2>1. "release" \in Places /\ G!Goes(p, "release")
    BY <1>16 DEF G!Writes, Places, G!Owning
  <2>2. saver'[p].at = "release" /\ \A q \in Savers \ {p} : saver'[q] = saver[q]
    BY <2>1, SaverMoves
  <2>3. Merging(p) /\ saver[p].settings = [saved EXCEPT ![p] = saver[p].value]
    BY <1>16 DEF G!Writes, G!At, Merging, MergeInv
  <2>4. \A q \in Savers : ~Merging(q)'
    BY <1>1, <2>2, <2>3 DEF Merging, G!Owning
  <2>5. CASE b
    <3>1. settingsFile' = saver[p].settings /\ saved' = [saved EXCEPT ![p] = saver[p].settings[p]]
      BY <1>16, <2>5 DEF G!Writes
    <3>2. saved \in [Savers -> Nat]
      BY DEF LockTypes, Values
    <3>3. settingsFile' = saved'
      BY <2>3, <3>1, <3>2
    <3> QED BY <2>4, <3>3 DEF MergeInv, Merging
  <2>6. CASE ~b
    BY <1>16, <2>4, <2>6 DEF G!Writes, G!file, MergeInv, Merging
  <2> QED BY <2>5, <2>6
<1>17. CASE G!Ages
  BY <1>17 DEF G!Ages, G!file, MergeInv
<1>18. CASE UNCHANGED G!vars
  BY <1>18 DEF G!vars, MergeInv
<1> QED BY <1>3, <1>4, <1>5, <1>6, <1>7, <1>8, <1>9, <1>10, <1>11, <1>12, <1>13, <1>14, <1>15, <1>16, <1>17, <1>18 DEF G!Next

(* A behaviour that is spoiled stays so.                                   *)
LEMMA SpoiledStays == ASSUME LockTypes, [G!Next]_(G!vars) PROVE ~spoiled' => ~spoiled
BY DEF LockTypes, G!Next, G!vars, G!Begins, G!MakesLock, G!FindsLock, G!GivesUp, G!Looks, G!Reclaims,
       G!ProbesIdentity, G!Undoes, G!Reads, G!Truncates, G!Writes, G!Releases, G!RemovesOwn, G!Dies, G!Ages

(* The lock of the settings excludes and a save keeps what the others      *)
(* saved, for any number of processes, as long as nobody is under the lock *)
(* for ten seconds and no two take the same stale one                      *)
(* (0020-mid-turn-compact.ts, withSettingsLock).                           *)
THEOREM SavesAreMerged == G!Spec => []G!SettingsAreMerged
<1>1. G!Init => LockInv
  BY LockStart, SharedNamesAssumption
<1>2. LockInv /\ [G!Next]_(G!vars) => LockInv'
  BY LockTypeStep, SpoiledStays, SaverStep, MergeStep, SharedNamesAssumption DEF LockInv
<1>3. LockInv => G!SettingsAreMerged
  BY DEF LockInv, SaverInv, MergeInv, G!SettingsAreMerged, G!OneSaver
<1> QED BY <1>1, <1>2, <1>3, PTL DEF G!Spec

-----------------------------------------------------------------------------
(* The slots of the file store.  The lock file of a slot that is not       *)
(* crossed keeps two command lines from being in it at once, and the look  *)
(* for attach.lock keeps the command line that takes it from a Neovim.     *)

Metas == {m \in [status : {"none", "bare", "exported", "sent", "imported", "cancelled"}, snap : Nat, old : BOOLEAN] :
            m.status \in {"none", "bare"} <=> m.snap = 0}
Locks == [by : Hosts \cup {None, Dead}, pid : BOOLEAN]
Attachments == [id : SlotIds, meta : {m \in Metas : m.snap # 0}, ready : BOOLEAN]
Owning == {"created", "claimed", "looked", "chosen", "emptied", "cleared", "made", "failed", "leaving",
           "published"}
Placed == Owning \cup {"stale", "import", "importing", "cancel", "cancelling"}
Taking == {"looked", "chosen", "emptied", "cleared", "made"}
HostStates == [at : Placed \cup {"idle", "round"}, round : 0..2, todo : SUBSET SlotIds,
               id : SlotIds \cup {None}, seen : Metas]
Proper(state_of_host) ==
  /\ state_of_host.at \in Placed => state_of_host.id \in SlotIds
  /\ state_of_host.at \in {"import", "importing", "cancelling"} => state_of_host.seen.snap # 0
Holding(n) == editor[n] # S!NoSlot
InSlot(h, i) == host[h].id = i /\ host[h].at \in Owning

SlotTypes ==
  /\ meta \in [SlotIds -> Metas]
  /\ lock \in [SlotIds -> Locks]
  /\ attach \in [SlotIds -> Editors \cup {None, Dead}]
  /\ note \in [SlotIds -> Nat \cup {None}]
  /\ host \in [Hosts -> HostStates]
  /\ editor \in [Editors -> Attachments \cup {S!NoSlot}]
  /\ exports \in Nat
  /\ \A h \in Hosts : Proper(host[h])

(* A Neovim holds the attach lock of its slot, a command line the lock of  *)
(* the slot that it is in.                                                 *)
HoldsItsLock == \A n \in Editors : Holding(n) /\ editor[n].id \notin crossed => attach[editor[n].id] = n
HostsOwnTheirs == \A h \in Hosts, i \in SlotIds \ crossed : InSlot(h, i) => lock[i].by = h

(* From the look for attach.lock to the publication no Neovim is attached; *)
(* what was chosen is not waiting for Send, and is empty once it is        *)
(* emptied.                                                                *)
IsFree(state_of_host) ==
  LET i == state_of_host.id
      at == state_of_host.at
  IN  at \in Taking /\ i \notin crossed =>
        /\ attach[i] \notin Editors
        /\ at # "looked" => ~(meta[i].status = "exported" /\ ~meta[i].old)
        /\ at \in {"emptied", "cleared", "made"} => note[i] = None
        /\ at \in {"cleared", "made"} => meta[i].status \in {"none", "bare"}
TakenIsFree == \A h \in Hosts : IsFree(host[h])

(* An annotation is about the snapshot of its slot.                        *)
NotesFit ==
  \A i \in SlotIds \ crossed :
      note[i] \in {None, meta[i].snap} /\ (meta[i].status \in {"none", "bare"} => note[i] = None)

(* The snapshot a Neovim holds is that of its slot.                        *)
HoldsTheSnapshot ==
  \A n \in Editors : Holding(n) /\ editor[n].id \notin crossed => meta[editor[n].id].snap = editor[n].meta.snap

SlotsInv == SlotTypes /\ HoldsItsLock /\ HostsOwnTheirs /\ TakenIsFree /\ NotesFit /\ HoldsTheSnapshot

LEMMA SlotsInvMeans == SlotsInv => S!AttachedIsNotRecycled
BY DEF SlotsInv, NotesFit, HoldsTheSnapshot, Holding, S!AttachedIsNotRecycled

(* What is handed out keeps its snapshot until Send, cancel or the TTL.    *)
IdStep == \A i \in SlotIds \ crossed' :
            meta[i].status = "exported" /\ ~meta[i].old => meta'[i].snap = meta[i].snap

LEMMA SlotsInit ==
  ASSUME SharedNamesAssumption, S!Init
  PROVE  SlotsInv
<1>0. S!NoMeta \in Metas /\ S!FirstExport \in Metas
  BY DEF S!NoMeta, S!FirstExport, Metas
<1>1. SlotTypes
  <2>1. S!NoLock \in Locks
    BY DEF S!NoLock, Locks
  <2>2. S!Idle \in HostStates /\ Proper(S!Idle)
    BY <1>0 DEF S!Idle, HostStates, Proper, Placed, Owning
  <2> QED BY <1>0, <2>1, <2>2 DEF S!Init, SlotTypes
<1>2. \A n \in Editors : ~Holding(n)
  BY DEF S!Init, Holding
<1>3. \A h \in Hosts : host[h].at \notin Owning /\ host[h].at \notin Taking
  BY DEF S!Init, S!Idle, Owning, Taking
<1>4. \A i \in SlotIds : note[i] = None
  BY DEF S!Init
<1> QED BY <1>1, <1>2, <1>3, <1>4 DEF SlotsInv, HoldsItsLock, HostsOwnTheirs, InSlot, TakenIsFree, IsFree, NotesFit,
           HoldsTheSnapshot

LEMMA Held ==
  ASSUME SharedNamesAssumption, SlotsInv, NEW n \in Editors, Holding(n)
  PROVE  /\ editor[n] \in Attachments /\ editor[n].id \in SlotIds /\ editor[n].meta \in Metas
         /\ editor[n].id \notin crossed => /\ attach[editor[n].id] = n
                                           /\ meta[editor[n].id].snap = editor[n].meta.snap
                                           /\ \A m \in Editors : Holding(m) /\ editor[m].id = editor[n].id => m = n
<1>1. editor[n] \in Attachments
  BY DEF SlotsInv, SlotTypes, Holding
<1>2. editor[n].id \in SlotIds /\ editor[n].meta \in Metas
  BY <1>1 DEF Attachments
<1> QED BY <1>1, <1>2 DEF SlotsInv, HoldsItsLock, HoldsTheSnapshot

(* Two command lines are in one slot only if it is crossed.                *)
LEMMA Alone ==
  ASSUME SlotsInv, NEW g \in Hosts, NEW h \in Hosts, NEW i \in SlotIds \ crossed, InSlot(g, i), InSlot(h, i)
  PROVE  g = h
BY DEF SlotsInv, HostsOwnTheirs

(* A step of a command line that changes no slot; it may remove the lock   *)
(* of a Neovim that is gone.                                               *)
LEMMA HostMoves ==
  ASSUME SharedNamesAssumption, SlotsInv, NEW h \in Hosts, NEW next \in HostStates,
         S!Put(h, next), Proper(next), IsFree(next),
         lock' \in [SlotIds -> Locks],
         \A i \in SlotIds \ crossed : next.id = i /\ next.at \in Owning => lock'[i].by = h,
         \A g \in Hosts \ {h}, i \in SlotIds \ crossed : InSlot(g, i) => lock'[i].by = g,
         NEW ids, attach' = S!Swept(ids), UNCHANGED <<meta, note, editor, exports, crossed>>
  PROVE  SlotsInv' /\ IdStep
<1>1. \A g \in Hosts : host'[g] = IF g = h THEN next ELSE host[g]
  BY DEF S!Put, SlotsInv, SlotTypes
<1>2. attach' \in [SlotIds -> Editors \cup {None, Dead}]
  BY DEF S!Swept, SlotsInv, SlotTypes
<1>3. \A i \in SlotIds : /\ attach[i] \in Editors => attach'[i] = attach[i]
                         /\ attach'[i] \in Editors => attach'[i] = attach[i]
  BY DEF S!Swept, SharedNamesAssumption
<1>4. SlotTypes'
  BY <1>1, <1>2 DEF S!Put, SlotsInv, SlotTypes
<1>5. HoldsItsLock'
  BY <1>3, Held DEF HoldsItsLock, Holding
<1>6. HostsOwnTheirs'
  BY <1>1 DEF HostsOwnTheirs, InSlot
<1>7. TakenIsFree'
  <2> SUFFICES ASSUME NEW g \in Hosts PROVE IsFree(host[g])'
    BY DEF TakenIsFree
  <2>1. IsFree(host'[g]) /\ (host'[g].at \in Taking => host'[g].id \in SlotIds)
    BY <1>1 DEF SlotsInv, SlotTypes, TakenIsFree, Taking, Placed, Owning, Proper
  <2> QED BY <1>3, <2>1 DEF IsFree
<1> QED BY <1>4, <1>5, <1>6, <1>7 DEF SlotsInv, NotesFit, HoldsTheSnapshot, Holding, IdStep

(* ... and no lock file either, and stays in its slot or is in none.       *)
LEMMA HostGoes ==
  ASSUME SharedNamesAssumption, SlotsInv, NEW h \in Hosts, NEW next \in HostStates,
         S!Put(h, next), Proper(next), IsFree(next),
         next.at \in Owning => host[h].at \in Owning /\ next.id = host[h].id,
         NEW ids, attach' = S!Swept(ids), UNCHANGED <<meta, lock, note, editor, exports, crossed>>
  PROVE  SlotsInv' /\ IdStep
<1>1. lock' \in [SlotIds -> Locks]
  BY DEF SlotsInv, SlotTypes
<1>2. \A i \in SlotIds \ crossed : next.id = i /\ next.at \in Owning => lock'[i].by = h
  BY DEF SlotsInv, HostsOwnTheirs, InSlot
<1>3. \A g \in Hosts \ {h}, i \in SlotIds \ crossed : InSlot(g, i) => lock'[i].by = g
  BY DEF SlotsInv, HostsOwnTheirs
<1> QED BY <1>1, <1>2, <1>3, HostMoves

(* Nothing is removed, whatever set of locks is looked at.                 *)
LEMMA NothingSwept ==
  ASSUME SlotsInv
  PROVE  attach = S!Swept({})
BY DEF S!Swept, SlotsInv, SlotTypes

(* The next place of a command line in a slot.                             *)
LEMMA SlotPlaces ==
  ASSUME SlotsInv, NEW h \in Hosts, NEW at \in Owning, host[h].at \in Placed
  PROVE  LET next == [host[h] EXCEPT !.at = at]
         IN  next \in HostStates /\ next.at = at /\ next.id = host[h].id /\ next.id \in SlotIds /\ Proper(next)
<1>1. host[h] \in HostStates /\ host[h].id \in SlotIds
  BY DEF SlotsInv, SlotTypes, Proper
<1>2. at \in Placed /\ at \notin {"import", "importing", "cancelling"}
  BY DEF Placed, Owning
<1> QED BY <1>1, <1>2 DEF HostStates, Proper

LEMMA IdleIsFree ==
  ASSUME SharedNamesAssumption
  PROVE  S!Idle \in HostStates /\ Proper(S!Idle) /\ S!Idle.at \notin Owning /\ IsFree(S!Idle)
<1>1. S!NoMeta \in Metas
  BY DEF S!NoMeta, Metas
<1> QED BY <1>1 DEF S!Idle, HostStates, Placed, Owning, Proper, IsFree, Taking

(* A step of a command line that changes the slot which it has taken.      *)
LEMMA HostChanges ==
  ASSUME SharedNamesAssumption, SlotsInv, NEW h \in Hosts, NEW k \in SlotIds, k = host[h].id,
         host[h].at \in Taking \ {"looked"}, NEW at \in Owning, S!Goes(h, at),
         NEW m \in Metas, NEW n \in Nat \cup {None}, NEW a \in Editors \cup {None, Dead},
         meta' = [meta EXCEPT ![k] = m], note' = [note EXCEPT ![k] = n], attach' = [attach EXCEPT ![k] = a],
         exports' \in Nat, UNCHANGED <<lock, editor, crossed>>,
         k \notin crossed =>
           /\ a \notin Editors /\ n \in {None, m.snap} /\ (m.status \in {"none", "bare"} => n = None)
           /\ at \in Taking => n = None /\ ~(m.status = "exported" /\ ~m.old)
           /\ at \in {"cleared", "made"} => m.status \in {"none", "bare"}
  PROVE  SlotsInv' /\ IdStep
<1> DEFINE next == [host[h] EXCEPT !.at = at]
<1>0. host[h].at \in Placed
  BY DEF Taking, Placed, Owning
<1>1. next \in HostStates /\ next.at = at /\ next.id = k /\ Proper(next)
  BY <1>0, SlotPlaces
<1>2. host' = [host EXCEPT ![h] = next]
  BY DEF S!Goes, S!Put
<1> HIDE DEF next
<1>3. \A g \in Hosts : host'[g] = IF g = h THEN next ELSE host[g]
  BY <1>2 DEF SlotsInv, SlotTypes
<1>4. \A i \in SlotIds : /\ meta'[i] = IF i = k THEN m ELSE meta[i]
                         /\ note'[i] = IF i = k THEN n ELSE note[i]
                         /\ attach'[i] = IF i = k THEN a ELSE attach[i]
  BY DEF SlotsInv, SlotTypes
<1>5. SlotTypes'
  BY <1>1, <1>2, <1>3 DEF SlotsInv, SlotTypes
<1>6. k \notin crossed => attach[k] \notin Editors /\ ~(meta[k].status = "exported" /\ ~meta[k].old)
  BY DEF SlotsInv, TakenIsFree, IsFree, Taking
<1>7. \A q \in Editors : Holding(q) /\ editor[q].id \notin crossed =>
            editor[q].id \in SlotIds \ {k} /\ attach[editor[q].id] = q /\ meta[editor[q].id].snap = editor[q].meta.snap
  BY <1>6, Held
<1>8. HoldsItsLock' /\ HoldsTheSnapshot'
  BY <1>4, <1>7 DEF HoldsItsLock, HoldsTheSnapshot, Holding
<1>9. \A g \in Hosts, i \in SlotIds : host'[g].id = i /\ host'[g].at \in Owning => InSlot(g, i)
  BY <1>1, <1>3 DEF InSlot, Taking, Owning
<1>10. HostsOwnTheirs'
  BY <1>9 DEF SlotsInv, HostsOwnTheirs, InSlot
<1>11. TakenIsFree'
  <2> SUFFICES ASSUME NEW g \in Hosts PROVE IsFree(host[g])'
    BY DEF TakenIsFree
  <2>1. CASE g = h
    <3>1. host'[g] = next
      BY <1>3, <2>1
    <3> QED BY <1>1, <1>4, <3>1 DEF IsFree
  <2>2. CASE g # h
    <3>1. host'[g] = host[g] /\ IsFree(host[g]) /\ (host[g].at \in Taking => host[g].id \in SlotIds)
      BY <1>3, <2>2 DEF SlotsInv, SlotTypes, TakenIsFree, Taking, Placed, Owning, Proper
    <3>2. host[g].at \in Taking /\ host[g].id \notin crossed => host[g].id # k
      <4> SUFFICES ASSUME host[g].at \in Taking, host[g].id = k, k \notin crossed PROVE FALSE
        OBVIOUS
      <4>1. InSlot(g, k) /\ InSlot(h, k)
        BY DEF InSlot, Taking, Owning
      <4> QED BY <2>2, <4>1, Alone
    <3> QED BY <1>4, <3>1, <3>2 DEF IsFree
  <2> QED BY <2>1, <2>2
<1>12. NotesFit'
  BY <1>4 DEF SlotsInv, NotesFit
<1>13. IdStep
  BY <1>4, <1>6 DEF IdStep
<1> QED BY <1>5, <1>8, <1>10, <1>11, <1>12, <1>13 DEF SlotsInv

(* A meta.json is written that names the same snapshot, or the slot is     *)
(* crossed.                                                                *)
LEMMA MetaChanges ==
  ASSUME SharedNamesAssumption, SlotsInv, NEW k \in SlotIds, NEW m \in Metas, meta' = [meta EXCEPT ![k] = m],
         crossed' \in {crossed, crossed \cup {k}}, host' \in [Hosts -> HostStates],
         \A h \in Hosts : Proper(host'[h]) /\ (host'[h] = host[h] \/ host'[h].at \notin Owning),
         k \notin crossed' => m.snap = meta[k].snap /\ (m.status = "exported" /\ ~m.old =>
                                                       meta[k].status = "exported" /\ ~meta[k].old),
         UNCHANGED <<lock, attach, note, editor, exports>>
  PROVE  SlotsInv' /\ IdStep
<1>1. \A j \in SlotIds : meta'[j] = IF j = k THEN m ELSE meta[j]
  BY DEF SlotsInv, SlotTypes
<1>2. crossed \subseteq crossed' /\ meta[k] \in Metas
  BY DEF SlotsInv, SlotTypes
<1>3. SlotTypes'
  BY DEF SlotsInv, SlotTypes
<1>4. HoldsItsLock' /\ HostsOwnTheirs'
  BY <1>2 DEF SlotsInv, HoldsItsLock, HostsOwnTheirs, InSlot, Holding
<1>5. k \notin crossed' => (m.status \in {"none", "bare"} <=> meta[k].status \in {"none", "bare"})
  BY <1>2 DEF Metas
<1>6. TakenIsFree'
  <2> SUFFICES ASSUME NEW g \in Hosts, host'[g].at \in Taking, host'[g].id \notin crossed' PROVE IsFree(host[g])'
    BY DEF TakenIsFree, IsFree
  <2>1. host'[g] = host[g] /\ host[g].id \in SlotIds /\ IsFree(host[g])
    BY DEF SlotsInv, SlotTypes, TakenIsFree, Taking, Placed, Owning, Proper
  <2> QED BY <1>1, <1>2, <1>5, <2>1 DEF IsFree
<1>7. NotesFit'
  BY <1>1, <1>2, <1>5 DEF SlotsInv, NotesFit
<1>8. HoldsTheSnapshot'
  BY <1>1, <1>2, Held DEF HoldsTheSnapshot, Holding
<1>9. IdStep
  BY <1>1 DEF IdStep
<1> QED BY <1>3, <1>4, <1>6, <1>7, <1>8, <1>9 DEF SlotsInv

(* finish_attach, AttachLive, send, cancel: the slot of before, if any, is *)
(* unlocked, and what the Neovim holds next is locked by it.               *)
LEMMA EditorMoves ==
  ASSUME SharedNamesAssumption, SlotsInv, NEW n \in Editors, NEW slot,
         slot = S!NoSlot \/ (slot \in Attachments /\ slot # S!NoSlot /\ attach[slot.id] \notin Editors \ {n}
                             /\ (editor[n].id = slot.id => slot.id \in crossed')),
         crossed \subseteq crossed', S!Attaches(n, slot),
         attach' = S!UnlockPrevious(n, IF slot = S!NoSlot THEN attach ELSE [attach EXCEPT ![slot.id] = n])
  PROVE  /\ \A m \in Editors : editor'[m] = IF m = n THEN slot ELSE editor[m]
         /\ editor' \in [Editors -> Attachments \cup {S!NoSlot}]
         /\ attach' \in [SlotIds -> Editors \cup {None, Dead}]
         /\ HoldsItsLock'
         /\ \A i \in SlotIds : attach'[i] \in Editors => \/ attach'[i] = attach[i]
                                                         \/ slot # S!NoSlot /\ i = slot.id
<1>1. \A m \in Editors : editor'[m] = IF m = n THEN slot ELSE editor[m]
  BY DEF S!Attaches, SlotsInv, SlotTypes
<1>2. editor' \in [Editors -> Attachments \cup {S!NoSlot}]
  BY DEF S!Attaches, SlotsInv, SlotTypes
<1>3. PICK locks : locks = IF slot = S!NoSlot THEN attach ELSE [attach EXCEPT ![slot.id] = n]
  OBVIOUS
<1>4. /\ locks \in [SlotIds -> Editors \cup {None, Dead}]
      /\ \A i \in SlotIds : locks[i] = IF slot # S!NoSlot /\ i = slot.id THEN n ELSE attach[i]
  BY <1>3 DEF SlotsInv, SlotTypes, Attachments
<1>5. /\ attach' \in [SlotIds -> Editors \cup {None, Dead}]
      /\ \A i \in SlotIds : attach'[i] = IF Holding(n) /\ i = editor[n].id THEN None ELSE locks[i]
  BY <1>3, <1>4 DEF S!UnlockPrevious, Holding
<1>6. None \notin Editors
  BY DEF SharedNamesAssumption
<1>7. HoldsItsLock'
  <2> SUFFICES ASSUME NEW m \in Editors, editor'[m] # S!NoSlot, editor'[m].id \notin crossed'
               PROVE  attach'[editor'[m].id] = m
    BY DEF HoldsItsLock, Holding
  <2>1. CASE m = n
    <3>1. editor'[m] = slot /\ slot # S!NoSlot
      BY <1>1, <2>1
    <3>2. slot \in Attachments /\ editor[n].id # slot.id
      BY <3>1
    <3>3. slot.id \in SlotIds
      BY <3>2 DEF Attachments
    <3>4. attach'[slot.id] = n
      BY <1>4, <1>5, <3>1, <3>2, <3>3
    <3> QED BY <2>1, <3>1, <3>4
  <2>2. CASE m # n
    <3>1. Holding(m) /\ editor'[m] = editor[m] /\ editor[m].id \notin crossed
      BY <1>1, <2>2 DEF Holding
    <3>2. editor[m].id \in SlotIds /\ attach[editor[m].id] = m /\ (Holding(n) => editor[n].id # editor[m].id)
      BY <2>2, <3>1, Held
    <3>3. slot # S!NoSlot => slot.id # editor[m].id
      BY <2>2, <3>2
    <3>4. locks[editor[m].id] = m
      BY <1>4, <3>2, <3>3
    <3>5. attach'[editor[m].id] = m
      BY <1>5, <3>2, <3>4
    <3> QED BY <3>1, <3>5
  <2> QED BY <2>1, <2>2
<1>8. \A i \in SlotIds : attach'[i] \in Editors => attach'[i] = attach[i] \/ (slot # S!NoSlot /\ i = slot.id)
  BY <1>4, <1>5, <1>6
<1> QED BY <1>1, <1>2, <1>5, <1>7, <1>8

(* A Neovim lets its slot go, after it wrote back what it had read, or     *)
(* without.                                                                *)
LEMMA Returns ==
  ASSUME SharedNamesAssumption, SlotsInv, NEW n \in Editors, Holding(n), S!Attaches(n, S!NoSlot),
         attach' = S!UnlockPrevious(n, attach),
         NEW m \in Metas, meta' = [meta EXCEPT ![editor[n].id] = m],
         m = meta[editor[n].id] \/ (m.snap = editor[n].meta.snap /\ m.status \in {"sent", "cancelled"}),
         NEW a \in {note[editor[n].id], editor[n].meta.snap}, note' = [note EXCEPT ![editor[n].id] = a],
         a = note[editor[n].id] \/ m.status = "sent",
         UNCHANGED <<lock, host, exports, crossed>>
  PROVE  SlotsInv' /\ IdStep
<1> DEFINE k == editor[n].id
<1>1. k \in SlotIds /\ editor[n].meta \in Metas /\ editor[n].meta.snap \in Nat
  BY Held DEF Metas
<1>2. k \notin crossed => attach[k] \in Editors /\ m.snap = meta[k].snap /\ editor[n].meta.snap = meta[k].snap
                          /\ \A q \in Editors \ {n} : Holding(q) => editor[q].id # k
  BY Held
<1> HIDE DEF k
<1>3. /\ \A i \in SlotIds : /\ meta'[i] = IF i = k THEN m ELSE meta[i]
                            /\ note'[i] = IF i = k THEN a ELSE note[i]
      /\ meta' \in [SlotIds -> Metas] /\ note' \in [SlotIds -> Nat \cup {None}]
  BY <1>1 DEF SlotsInv, SlotTypes, k
<1>4. /\ \A q \in Editors : editor'[q] = IF q = n THEN S!NoSlot ELSE editor[q]
      /\ editor' \in [Editors -> Attachments \cup {S!NoSlot}]
      /\ attach' \in [SlotIds -> Editors \cup {None, Dead}]
      /\ HoldsItsLock'
      /\ \A i \in SlotIds : attach'[i] \in Editors => attach'[i] = attach[i]
  BY EditorMoves
<1>5. SlotTypes'
  BY <1>3, <1>4 DEF SlotsInv, SlotTypes
<1>6. HostsOwnTheirs'
  BY DEF SlotsInv, HostsOwnTheirs, InSlot
<1>7. TakenIsFree'
  <2> SUFFICES ASSUME NEW g \in Hosts, host[g].at \in Taking, host[g].id \notin crossed PROVE IsFree(host[g])'
    BY DEF TakenIsFree, IsFree
  <2>1. host[g].id \in SlotIds /\ IsFree(host[g])
    BY DEF SlotsInv, SlotTypes, TakenIsFree, Taking, Placed, Owning, Proper
  <2>2. host[g].id # k
    BY <1>2, <2>1 DEF IsFree
  <2> QED BY <1>3, <1>4, <2>1, <2>2 DEF IsFree
<1>8. NotesFit'
  <2>1. \A i \in SlotIds \ crossed : note'[i] \in {None, meta'[i].snap}
    BY <1>2, <1>3 DEF SlotsInv, NotesFit, k
  <2>2. \A i \in SlotIds \ crossed : meta'[i].status \in {"none", "bare"} => note'[i] = None
    BY <1>2, <1>3 DEF SlotsInv, NotesFit, k
  <2> QED BY <2>1, <2>2 DEF NotesFit
<1>9. HoldsTheSnapshot'
  BY <1>2, <1>3, <1>4, Held DEF HoldsTheSnapshot, Holding
<1>10. IdStep
  BY <1>2, <1>3 DEF IdStep
<1> QED BY <1>4, <1>5, <1>6, <1>7, <1>8, <1>9, <1>10 DEF SlotsInv

LEMMA SlotsNext ==
  ASSUME SharedNamesAssumption, SlotsInv, [S!Next]_slots
  PROVE  SlotsInv' /\ IdStep
<1>1. /\ meta \in [SlotIds -> Metas] /\ lock \in [SlotIds -> Locks] /\ host \in [Hosts -> HostStates]
      /\ attach \in [SlotIds -> Editors \cup {None, Dead}] /\ note \in [SlotIds -> Nat \cup {None}]
      /\ exports \in Nat /\ attach = S!Swept({}) /\ \A h \in Hosts : Proper(host[h]) /\ IsFree(host[h])
  BY NothingSwept DEF SlotsInv, SlotTypes, TakenIsFree
<1>2. \A h \in Hosts : host[h].at \in Placed => host[h].id \in SlotIds
  BY <1>1 DEF Proper
<1>3. ASSUME NEW h \in Hosts, S!Export(h) PROVE SlotsInv' /\ IdStep
  <2> DEFINE candidates == S!Candidates(0)
             next == [S!Idle EXCEPT !.at = "round", !.todo = candidates]
  <2>0. candidates \in SUBSET SlotIds
    BY DEF S!Candidates
  <2> HIDE DEF candidates
  <2>1. next \in HostStates /\ next.at = "round"
    <3>1. S!Idle \in HostStates
      BY IdleIsFree
    <3> QED BY <2>0, <3>1 DEF HostStates
  <2>2. S!Put(h, next) /\ attach' = S!Swept(SlotIds) /\ UNCHANGED <<meta, lock, note, editor, exports, crossed>>
    BY <1>3 DEF S!Export, candidates
  <2> HIDE DEF next
  <2>3. Proper(next) /\ IsFree(next) /\ next.at \notin Owning
    BY <2>1 DEF Proper, IsFree, Placed, Taking, Owning
  <2> QED BY <2>1, <2>2, <2>3, HostGoes
<1>4. ASSUME NEW h \in Hosts, S!NextRound(h) PROVE SlotsInv' /\ IdStep
  <2> DEFINE round == host[h].round + 1
             candidates == S!Candidates(round)
             next == [host[h] EXCEPT !.round = round, !.todo = candidates]
  <2>0. candidates \in SUBSET SlotIds
    BY DEF S!Candidates
  <2> HIDE DEF candidates
  <2>1. host[h].at = "round" /\ UNCHANGED <<meta, lock, note, editor, exports, crossed>>
    BY <1>4 DEF S!NextRound
  <2>2. CASE round = 3
    <3>1. S!Put(h, S!Idle) /\ attach' = S!Swept({})
      BY <1>1, <1>4, <2>2 DEF S!NextRound
    <3> QED BY <2>1, <3>1, IdleIsFree, HostGoes
  <2>3. CASE round # 3
    <3>0. host[h] \in HostStates /\ host[h].round \in 0..2
      BY <1>1 DEF HostStates
    <3>1. round \in 0..2
      BY <2>3, <3>0
    <3> HIDE DEF round
    <3>2. next \in HostStates /\ next.at = "round"
      BY <2>0, <2>1, <3>0, <3>1 DEF HostStates
    <3>3. S!Put(h, next) /\ attach' = S!Swept(SlotIds)
      BY <1>4, <2>3 DEF S!NextRound, candidates, round
    <3> HIDE DEF next
    <3>4. Proper(next) /\ IsFree(next) /\ next.at \notin Owning
      BY <3>2 DEF Proper, IsFree, Placed, Taking, Owning
    <3> QED BY <2>1, <3>2, <3>3, <3>4, HostGoes
  <2> QED BY <2>2, <2>3
<1>5. ASSUME NEW h \in Hosts, NEW i \in SlotIds, S!TryCandidate(h, i) PROVE SlotsInv' /\ IdStep
  <2>1. /\ host[h].at = "round" /\ host[h] \in HostStates
        /\ attach' = S!Swept({i}) /\ UNCHANGED <<meta, note, editor, exports, crossed>>
    BY <1>1, <1>5 DEF S!TryCandidate
  <2>2. CASE UNCHANGED lock /\ \E next \in {[host[h] EXCEPT !.todo = @ \ {i}],
                                           [host[h] EXCEPT !.at = "stale", !.id = i]} : S!Put(h, next)
    <3>1. PICK next \in {[host[h] EXCEPT !.todo = @ \ {i}], [host[h] EXCEPT !.at = "stale", !.id = i]} : S!Put(h, next)
      BY <2>2
    <3>2. next \in HostStates /\ (next.at = "round" \/ (next.at = "stale" /\ next.id = i))
      BY <2>1, <3>1 DEF HostStates, Placed
    <3>3. Proper(next) /\ IsFree(next) /\ next.at \notin Owning
      BY <3>2 DEF Proper, IsFree, Placed, Taking, Owning
    <3> QED BY <2>1, <2>2, <3>1, <3>2, <3>3, HostGoes
  <2>3. CASE /\ lock[i] = S!NoLock /\ lock' = [lock EXCEPT ![i] = [by |-> h, pid |-> FALSE]]
             /\ S!Put(h, [host[h] EXCEPT !.at = "created", !.id = i])
    <3> DEFINE next == [host[h] EXCEPT !.at = "created", !.id = i]
    <3>1. next \in HostStates /\ next.at = "created" /\ next.id = i
      BY <2>1 DEF HostStates, Placed, Owning
    <3> HIDE DEF next
    <3>2. Proper(next) /\ IsFree(next)
      BY <3>1 DEF Proper, IsFree, Taking, Placed, Owning
    <3>3. [by |-> h, pid |-> FALSE] \in Locks
      BY DEF Locks
    <3>4. lock' \in [SlotIds -> Locks] /\ lock'[i].by = h /\ \A j \in SlotIds \ {i} : lock'[j] = lock[j]
      BY <1>1, <2>3, <3>3
    <3>5. lock[i].by \notin Hosts
      BY <2>3 DEF S!NoLock, SharedNamesAssumption
    <3>6. \A g \in Hosts \ {h}, j \in SlotIds \ crossed : InSlot(g, j) => lock'[j].by = g
      BY <3>4, <3>5 DEF SlotsInv, HostsOwnTheirs
    <3> QED BY <2>1, <2>3, <3>1, <3>2, <3>4, <3>6, HostMoves DEF next
  <2> QED BY <1>5, <2>2, <2>3 DEF S!TryCandidate
<1>6. ASSUME NEW h \in Hosts, S!TakeOver(h) PROVE SlotsInv' /\ IdStep
  <2>1. PICK k \in SlotIds : k = host[h].id
    BY <1>2, <1>6 DEF S!TakeOver, Placed
  <2> DEFINE next == [host[h] EXCEPT !.at = "created"]
  <2>2. /\ host[h].at = "stale" /\ host' = [host EXCEPT ![h] = next]
        /\ lock' = [lock EXCEPT ![k] = [by |-> h, pid |-> FALSE]]
        /\ crossed' = IF lock[k].by \in Hosts THEN crossed \cup {k} ELSE crossed
        /\ UNCHANGED <<meta, attach, note, editor, exports>>
    BY <1>6, <2>1 DEF S!TakeOver, S!Goes, S!Put
  <2>3. next \in HostStates /\ next.at = "created" /\ next.id = k /\ Proper(next)
    <3>1. "created" \in Owning /\ host[h].at \in Placed
      BY <2>2 DEF Owning, Placed
    <3> QED BY <2>1, <3>1, SlotPlaces
  <2> HIDE DEF next
  <2>4. \A g \in Hosts : host'[g] = IF g = h THEN next ELSE host[g]
    BY <1>1, <2>2
  <2>5. [by |-> h, pid |-> FALSE] \in Locks
    BY DEF Locks
  <2>6. lock' \in [SlotIds -> Locks] /\ lock'[k].by = h /\ \A j \in SlotIds \ {k} : lock'[j] = lock[j]
    BY <1>1, <2>2, <2>5
  <2>7. SlotTypes'
    BY <2>2, <2>3, <2>4, <2>6 DEF SlotsInv, SlotTypes
  <2>8. HostsOwnTheirs'
    BY <2>2, <2>3, <2>4, <2>6 DEF SlotsInv, HostsOwnTheirs, InSlot
  <2>9. TakenIsFree'
    BY <2>2, <2>3, <2>4 DEF SlotsInv, TakenIsFree, IsFree, Taking
  <2> QED BY <2>2, <2>7, <2>8, <2>9 DEF SlotsInv, HoldsItsLock, NotesFit, HoldsTheSnapshot, Holding, IdStep
<1>7. ASSUME NEW h \in Hosts, S!WritePid(h) PROVE SlotsInv' /\ IdStep
  <2>1. PICK k \in SlotIds : k = host[h].id
    BY <1>2, <1>7 DEF S!WritePid, Placed, Owning
  <2> DEFINE next == [host[h] EXCEPT !.at = "claimed"]
  <2>2. /\ host[h].at = "created" /\ S!Put(h, next) /\ attach' = S!Swept({})
        /\ lock' = (IF lock[k].by = h THEN [lock EXCEPT ![k].pid = TRUE] ELSE lock)
        /\ UNCHANGED <<meta, note, editor, exports, crossed>>
    BY <1>1, <1>7, <2>1 DEF S!WritePid, S!Goes
  <2>3. next \in HostStates /\ next.at = "claimed" /\ next.id = k /\ Proper(next)
    <3>1. "claimed" \in Owning /\ host[h].at \in Placed
      BY <2>2 DEF Owning, Placed
    <3> QED BY <2>1, <3>1, SlotPlaces
  <2> HIDE DEF next
  <2>4. IsFree(next)
    BY <2>3 DEF IsFree, Taking
  <2>5. lock' \in [SlotIds -> Locks] /\ \A j \in SlotIds : lock'[j].by = lock[j].by
    <3>1. lock[k] \in Locks
      BY <1>1
    <3> DEFINE t == TRUE
               l == [lock[k] EXCEPT !.pid = t]
    <3>2. t \in BOOLEAN
      OBVIOUS
    <3>3. lock' = IF lock[k].by = h THEN [lock EXCEPT ![k] = l] ELSE lock
      BY <1>1, <2>2
    <3> HIDE DEF t
    <3>4. l \in Locks /\ l.by = lock[k].by
      BY <3>1, <3>2 DEF Locks
    <3> HIDE DEF l
    <3> QED BY <1>1, <3>3, <3>4
  <2>6. \A g \in Hosts, j \in SlotIds \ crossed : InSlot(g, j) => lock'[j].by = g
    BY <2>5 DEF SlotsInv, HostsOwnTheirs
  <2>7. InSlot(h, k)
    BY <2>1, <2>2 DEF InSlot, Owning
  <2> QED BY <2>2, <2>3, <2>4, <2>5, <2>6, <2>7, HostMoves
<1>8. ASSUME NEW h \in Hosts, S!Look(h) \/ S!Decide(h) \/ S!Fails(h) PROVE SlotsInv' /\ IdStep
  <2>1. PICK k \in SlotIds : k = host[h].id
    BY <1>2, <1>8 DEF S!Look, S!Decide, S!Fails, Placed, Owning
  <2>2. host[h].at \in Placed /\ host[h].at \in Owning /\ UNCHANGED <<meta, lock, note, editor, exports, crossed>>
    BY <1>8 DEF S!Look, S!Decide, S!Fails, Placed, Owning
  <2>3. \E at \in Owning, ids \in {{}, {k}} :
          /\ S!Goes(h, at) /\ attach' = S!Swept(ids)
          /\ at \in {"leaving", "failed", "looked", "chosen"}
          /\ at = "looked" => attach[k] \notin Editors
          /\ at = "chosen" => host[h].at = "looked" /\ ~(meta[k].status = "exported" /\ ~meta[k].old)
    <3>1. CASE S!Look(h)
      <4>1. LET at == IF S!Attached(k) THEN "leaving" ELSE "looked" IN S!Goes(h, at) /\ at \in Owning
        BY <2>1, <3>1 DEF S!Look, Owning
      <4>2. attach' = S!Swept({k})
        BY <2>1, <3>1 DEF S!Look
      <4> QED BY <4>1, <4>2 DEF S!Attached
    <3>2. CASE S!Decide(h)
      <4>1. LET at == IF S!Reusable(meta[k], host[h].round) THEN "chosen" ELSE "leaving"
            IN  S!Goes(h, at) /\ at \in Owning
        BY <2>1, <3>2 DEF S!Decide, Owning
      <4>2. attach' = S!Swept({}) /\ host[h].at = "looked"
        BY <1>1, <3>2 DEF S!Decide
      <4>3. S!Reusable(meta[k], host[h].round) => ~(meta[k].status = "exported" /\ ~meta[k].old)
        BY DEF S!Reusable, S!Reclaimable, S!Occupied, S!Expired
      <4> QED BY <4>1, <4>2, <4>3
    <3>3. CASE S!Fails(h)
      <4>1. S!Goes(h, "failed") /\ attach' = S!Swept({}) /\ "failed" \in Owning
        BY <1>1, <3>3 DEF S!Fails, Owning
      <4> QED BY <4>1
    <3> QED BY <1>8, <3>1, <3>2, <3>3
  <2>4. PICK at \in Owning, ids \in {{}, {k}} :
          /\ S!Goes(h, at) /\ attach' = S!Swept(ids)
          /\ at \in {"leaving", "failed", "looked", "chosen"}
          /\ at = "looked" => attach[k] \notin Editors
          /\ at = "chosen" => host[h].at = "looked" /\ ~(meta[k].status = "exported" /\ ~meta[k].old)
    BY <2>3
  <2> DEFINE next == [host[h] EXCEPT !.at = at]
  <2>5. next \in HostStates /\ next.at = at /\ next.id = k /\ Proper(next)
    BY <2>1, <2>2, SlotPlaces
  <2>6. S!Put(h, next)
    BY <2>4 DEF S!Goes
  <2> HIDE DEF next
  <2>7. IsFree(next)
    <3>1. IsFree(host[h])
      BY <1>1
    <3> QED BY <2>1, <2>4, <2>5, <3>1 DEF IsFree, Taking
  <2> QED BY <2>1, <2>2, <2>4, <2>5, <2>6, <2>7, HostGoes
<1>9. ASSUME NEW h \in Hosts, S!Empty(h) \/ S!Clear(h) \/ S!MakeSlot(h) \/ S!Publish(h) PROVE SlotsInv' /\ IdStep
  <2>1. PICK k \in SlotIds : k = host[h].id
    BY <1>2, <1>9 DEF S!Empty, S!Clear, S!MakeSlot, S!Publish, Placed, Owning
  <2>2. host[h].at \in Taking \ {"looked"} /\ UNCHANGED <<lock, editor, crossed>>
    BY <1>9 DEF S!Empty, S!Clear, S!MakeSlot, S!Publish, Taking
  <2>3. IsFree(host[h]) /\ meta[k] \in Metas /\ note[k] \in Nat \cup {None} /\ attach[k] \in Editors \cup {None, Dead}
        /\ None \notin Editors
    BY <1>1 DEF SharedNamesAssumption
  <2>4. /\ meta = [meta EXCEPT ![k] = meta[k]] /\ note = [note EXCEPT ![k] = note[k]]
        /\ attach = [attach EXCEPT ![k] = attach[k]]
    BY <1>1
  <2>5. k \notin crossed => /\ attach[k] \notin Editors /\ ~(meta[k].status = "exported" /\ ~meta[k].old)
                            /\ host[h].at \in {"emptied", "cleared", "made"} => note[k] = None
                            /\ host[h].at \in {"cleared", "made"} => meta[k].status \in {"none", "bare"}
    BY <2>1, <2>2, <2>3 DEF IsFree, Taking
  <2>6. CASE S!Empty(h)
    <3>1. /\ S!Goes(h, "emptied") /\ meta' = [meta EXCEPT ![k] = meta[k]] /\ note' = [note EXCEPT ![k] = None]
          /\ attach' = [attach EXCEPT ![k] = None] /\ exports' \in Nat /\ "emptied" \in Owning
      BY <1>1, <2>1, <2>4, <2>6 DEF S!Empty, Owning
    <3> DEFINE m == meta[k]
               n == None
               a == None
               at == "emptied"
    <3>2. /\ S!Goes(h, at) /\ at \in Owning /\ at \notin {"cleared", "made"} /\ exports' \in Nat
          /\ m \in Metas /\ n \in Nat \cup {None} /\ a \in Editors \cup {None, Dead} /\ a \notin Editors /\ n = None
          /\ meta' = [meta EXCEPT ![k] = m] /\ note' = [note EXCEPT ![k] = n] /\ attach' = [attach EXCEPT ![k] = a]
      BY <2>3, <3>1
    <3>3. k \notin crossed => ~(m.status = "exported" /\ ~m.old)
      BY <2>5
    <3> HIDE DEF m, n, a, at
    <3> QED BY <2>1, <2>2, <3>2, <3>3, HostChanges
  <2>7. CASE S!Clear(h)
    <3> DEFINE left == attach[k] # None \/ note[k] # None
               bare == [S!NoMeta EXCEPT !.status = "bare"]
               m == IF left THEN bare ELSE S!NoMeta
               at == IF left THEN "failed" ELSE "cleared"
    <3>1. bare \in Metas /\ S!NoMeta \in Metas /\ bare.status = "bare" /\ S!NoMeta.status = "none"
      BY DEF S!NoMeta, Metas
    <3>2. m \in Metas /\ m.status \in {"none", "bare"} /\ m.status # "exported"
          /\ at \in Owning /\ (at \in Taking => ~left)
      <4> HIDE DEF bare, left
      <4> QED BY <3>1 DEF Owning, Taking
    <3>3. /\ S!Goes(h, at) /\ meta' = [meta EXCEPT ![k] = m] /\ note' = [note EXCEPT ![k] = note[k]]
          /\ attach' = [attach EXCEPT ![k] = attach[k]] /\ exports' \in Nat /\ host[h].at = "emptied"
      BY <1>1, <2>1, <2>4, <2>7 DEF S!Clear
    <3> HIDE DEF m, at
    <3> QED BY <2>1, <2>2, <2>3, <2>5, <3>2, <3>3, HostChanges
  <2>8. CASE S!MakeSlot(h)
    <3> DEFINE m == IF meta[k].status = "none" THEN [meta[k] EXCEPT !.status = "bare"] ELSE meta[k]
    <3>1. m \in Metas /\ (meta[k].status \in {"none", "bare"} => m.status \in {"none", "bare"})
      BY <2>3 DEF Metas
    <3>2. /\ S!Goes(h, "made") /\ meta' = [meta EXCEPT ![k] = m] /\ note' = [note EXCEPT ![k] = note[k]]
          /\ attach' = [attach EXCEPT ![k] = attach[k]] /\ exports' \in Nat /\ "made" \in Owning
          /\ host[h].at = "cleared"
      BY <1>1, <2>1, <2>4, <2>8 DEF S!MakeSlot, Owning
    <3> HIDE DEF m
    <3>3. k \notin crossed => m.status \in {"none", "bare"} /\ m.status # "exported" /\ note[k] = None
      BY <2>5, <3>1, <3>2
    <3> QED BY <2>1, <2>2, <2>3, <2>5, <3>1, <3>2, <3>3, HostChanges
  <2>9. CASE S!Publish(h)
    <3> DEFINE m == [status |-> "exported", snap |-> exports + 1, old |-> FALSE]
    <3>1. m \in Metas /\ m.status = "exported"
      BY <1>1 DEF Metas
    <3>2. /\ S!Goes(h, "published") /\ meta' = [meta EXCEPT ![k] = m] /\ note' = [note EXCEPT ![k] = note[k]]
          /\ attach' = [attach EXCEPT ![k] = attach[k]] /\ exports' \in Nat /\ host[h].at = "made"
          /\ "published" \in Owning /\ "published" \notin Taking
      BY <1>1, <2>1, <2>4, <2>9 DEF S!Publish, Owning, Taking
    <3> HIDE DEF m
    <3>3. k \notin crossed => attach[k] \notin Editors /\ note[k] = None
      BY <2>5, <3>2
    <3> QED BY <2>1, <2>2, <2>3, <3>1, <3>2, <3>3, HostChanges
  <2> QED BY <1>9, <2>6, <2>7, <2>8, <2>9
<1>10. ASSUME NEW h \in Hosts, S!Release(h) PROVE SlotsInv' /\ IdStep
  <2>1. PICK k \in SlotIds : k = host[h].id
    BY <1>2, <1>10 DEF S!Release, Placed, Owning
  <2> DEFINE next == IF host[h].at = "leaving" THEN S!Next0(h) ELSE S!Idle
  <2>2. /\ S!Put(h, next) /\ attach' = S!Swept({}) /\ lock' = [lock EXCEPT ![k] = S!NoLock]
        /\ UNCHANGED <<meta, note, editor, exports, crossed>> /\ InSlot(h, k)
    BY <1>1, <1>10, <2>1 DEF S!Release, InSlot, Owning
  <2>3. next \in HostStates /\ Proper(next) /\ next.at \notin Owning /\ IsFree(next)
    <3>1. S!Next0(h) \in HostStates /\ S!Next0(h).at = "round"
      <4>1. host[h] \in HostStates
        BY <1>1
      <4>2. host[h].todo \ {host[h].id} \in SUBSET SlotIds
        BY <4>1 DEF HostStates
      <4> QED BY <4>1, <4>2 DEF S!Next0, HostStates
    <3>2. Proper(S!Next0(h)) /\ S!Next0(h).at \notin Owning /\ IsFree(S!Next0(h))
      BY <3>1 DEF Proper, IsFree, Placed, Owning, Taking
    <3> QED BY <3>1, <3>2, IdleIsFree
  <2> HIDE DEF next
  <2>4. S!NoLock \in Locks
    BY DEF S!NoLock, Locks
  <2>5. lock' \in [SlotIds -> Locks] /\ \A j \in SlotIds \ {k} : lock'[j] = lock[j]
    BY <1>1, <2>2, <2>4
  <2>6. \A g \in Hosts \ {h}, j \in SlotIds \ crossed : InSlot(g, j) => lock'[j].by = g
    <3> SUFFICES ASSUME NEW g \in Hosts \ {h}, NEW j \in SlotIds \ crossed, InSlot(g, j) PROVE lock'[j].by = g
      OBVIOUS
    <3>1. j # k
      BY <2>2, Alone
    <3> QED BY <2>5, <3>1 DEF SlotsInv, HostsOwnTheirs
  <2> QED BY <2>2, <2>3, <2>5, <2>6, HostMoves
<1>11. ASSUME NEW h \in Hosts, S!HostDies(h) PROVE SlotsInv' /\ IdStep
  <2>1. /\ S!Put(h, S!Idle) /\ attach' = S!Swept({}) /\ UNCHANGED <<meta, note, editor, exports, crossed>>
        /\ lock' = [i \in SlotIds |-> IF lock[i].by = h THEN [lock[i] EXCEPT !.by = Dead] ELSE lock[i]]
    BY <1>1, <1>11 DEF S!HostDies
  <2>2. lock' \in [SlotIds -> Locks]
    BY <1>1, <2>1 DEF Locks
  <2>3. \A g \in Hosts \ {h}, j \in SlotIds \ crossed : InSlot(g, j) => lock'[j].by = g
    BY <2>1 DEF SlotsInv, HostsOwnTheirs
  <2> QED BY <2>1, <2>2, <2>3, IdleIsFree, HostMoves
<1>12. ASSUME NEW h \in Hosts, NEW i \in SlotIds, S!ImportReads(h, i) \/ S!CancelLooks(h, i) PROVE SlotsInv' /\ IdStep
  <2>1. UNCHANGED <<meta, lock, note, editor, exports, crossed>> /\ \E ids \in {{}, {i}, SlotIds} : attach' = S!Swept(ids)
    BY <1>1, <1>12 DEF S!ImportReads, S!CancelLooks
  <2>2. \E next \in HostStates : S!Put(h, next) /\ Proper(next) /\ next.at \in {"import", "cancel"}
    <3>1. CASE S!ImportReads(h, i)
      <4> DEFINE next == [S!Idle EXCEPT !.at = "import", !.id = i, !.seen = meta[i]]
      <4>1. S!Put(h, next) /\ meta[i] \in Metas /\ meta[i].status = "sent"
        BY <1>1, <3>1 DEF S!ImportReads
      <4>2. meta[i].snap # 0
        BY <4>1 DEF Metas
      <4>3. next \in HostStates /\ next.at = "import" /\ next.id = i /\ next.seen = meta[i]
        BY <4>1, IdleIsFree DEF HostStates, Placed
      <4> HIDE DEF next
      <4>4. Proper(next)
        BY <4>2, <4>3 DEF Proper
      <4> QED BY <4>1, <4>3, <4>4
    <3>2. CASE S!CancelLooks(h, i)
      <4> DEFINE next == [S!Idle EXCEPT !.at = "cancel", !.id = i]
      <4>1. S!Put(h, next)
        BY <3>2 DEF S!CancelLooks
      <4>2. next \in HostStates /\ next.at = "cancel" /\ next.id = i
        BY IdleIsFree DEF HostStates, Placed
      <4> HIDE DEF next
      <4> QED BY <4>1, <4>2 DEF Proper
    <3> QED BY <1>12, <3>1, <3>2
  <2>3. PICK next \in HostStates : S!Put(h, next) /\ Proper(next) /\ next.at \in {"import", "cancel"}
    BY <2>2
  <2>4. IsFree(next) /\ next.at \notin Owning
    BY <2>3 DEF IsFree, Taking, Owning
  <2> QED BY <2>1, <2>3, <2>4, HostGoes
<1>13. ASSUME NEW h \in Hosts, S!ImportLooks(h) \/ S!CancelReads(h) PROVE SlotsInv' /\ IdStep
  <2>1. UNCHANGED <<meta, lock, note, editor, exports, crossed>> /\ attach' = S!Swept({})
    BY <1>1, <1>13 DEF S!ImportLooks, S!CancelReads
  <2>2. PICK k \in SlotIds : k = host[h].id
    BY <1>2, <1>13 DEF S!ImportLooks, S!CancelReads, Placed
  <2>3. \E next \in HostStates : S!Put(h, next) /\ Proper(next) /\ next.at \in {"idle", "importing", "cancelling"}
    <3>1. CASE S!Put(h, S!Idle)
      BY <3>1, IdleIsFree DEF S!Idle
    <3>2. CASE host[h].at = "import" /\ S!Goes(h, "importing")
      <4>1. host[h] \in HostStates /\ Proper(host[h])
        BY <1>1
      <4>2. LET next == [host[h] EXCEPT !.at = "importing"]
            IN  next \in HostStates /\ Proper(next) /\ next.at = "importing"
        BY <2>2, <3>2, <4>1 DEF HostStates, Placed, Proper
      <4> QED BY <3>2, <4>2 DEF S!Goes
    <3>3. CASE /\ meta[k].status \in {"exported", "sent"}
               /\ S!Put(h, [host[h] EXCEPT !.at = "cancelling", !.seen = meta[k]])
      <4>1. host[h] \in HostStates /\ meta[k] \in Metas
        BY <1>1
      <4>2. meta[k].snap # 0
        BY <3>3, <4>1 DEF Metas
      <4>3. LET next == [host[h] EXCEPT !.at = "cancelling", !.seen = meta[k]]
            IN  next \in HostStates /\ Proper(next) /\ next.at = "cancelling"
        BY <2>2, <4>1, <4>2 DEF HostStates, Placed, Proper
      <4> QED BY <3>3, <4>3
    <3> QED BY <1>13, <2>2, <3>1, <3>2, <3>3 DEF S!ImportLooks, S!CancelReads
  <2>4. PICK next \in HostStates : S!Put(h, next) /\ Proper(next) /\ next.at \in {"idle", "importing", "cancelling"}
    BY <2>3
  <2>5. IsFree(next) /\ next.at \notin Owning
    BY <2>4 DEF IsFree, Taking, Owning
  <2> QED BY <2>1, <2>4, <2>5, HostGoes
<1>14. ASSUME NEW h \in Hosts, S!Mark(h) PROVE SlotsInv' /\ IdStep
  <2>1. PICK k \in SlotIds : k = host[h].id
    BY <1>2, <1>14 DEF S!Mark, Placed
  <2>2. /\ S!Put(h, S!Idle) /\ UNCHANGED <<lock, attach, note, editor, exports>>
        /\ host[h].seen \in Metas /\ host[h].seen.snap # 0 /\ host[h] \in HostStates
    BY <1>1, <1>14 DEF S!Mark, HostStates, Proper
  <2>3. CASE UNCHANGED <<meta, crossed>>
    BY <1>1, <2>2, <2>3, IdleIsFree, HostGoes
  <2>4. ASSUME NEW status \in {"imported", "cancelled"},
               meta' = [meta EXCEPT ![k] = [host[h].seen EXCEPT !.status = status]],
               crossed' = IF meta[k].snap = host[h].seen.snap THEN crossed ELSE crossed \cup {k}
        PROVE  SlotsInv' /\ IdStep
    <3> DEFINE m == [host[h].seen EXCEPT !.status = status]
    <3>1. m \in Metas /\ m.snap = host[h].seen.snap /\ m.status \in {"imported", "cancelled"}
      BY <2>2 DEF Metas
    <3>2. meta' = [meta EXCEPT ![k] = m]
      BY <2>4
    <3> HIDE DEF m
    <3>3. host' \in [Hosts -> HostStates]
          /\ \A g \in Hosts : Proper(host'[g]) /\ (host'[g] = host[g] \/ host'[g].at \notin Owning)
      BY <1>1, <2>2, IdleIsFree DEF S!Put
    <3>4. crossed' \in {crossed, crossed \cup {k}} /\ (k \notin crossed' => m.snap = meta[k].snap)
      BY <2>4, <3>1
    <3> QED BY <2>2, <3>1, <3>2, <3>3, <3>4, MetaChanges
  <2>5. (UNCHANGED <<meta, crossed>>) \/ \E status \in {"imported", "cancelled"} :
          /\ meta' = [meta EXCEPT ![k] = [host[h].seen EXCEPT !.status = status]]
          /\ crossed' = IF meta[k].snap = host[h].seen.snap THEN crossed ELSE crossed \cup {k}
    BY <1>14, <2>1 DEF S!Mark
  <2> QED BY <2>3, <2>4, <2>5
<1>15. ASSUME NEW i \in SlotIds, S!TimePasses(i) PROVE SlotsInv' /\ IdStep
  <2> DEFINE t == TRUE
             m == [meta[i] EXCEPT !.old = t]
  <2>1. t \in BOOLEAN /\ t
    OBVIOUS
  <2>2. /\ meta' = [meta EXCEPT ![i] = m] /\ meta[i] \in Metas
        /\ UNCHANGED <<lock, attach, note, host, editor, exports, crossed>>
    BY <1>1, <1>15 DEF S!TimePasses
  <2> HIDE DEF t
  <2>3. m \in Metas /\ m.snap = meta[i].snap /\ m.old
    BY <2>1, <2>2 DEF Metas
  <2> HIDE DEF m
  <2> QED BY <1>1, <2>2, <2>3, MetaChanges
<1>16. ASSUME NEW n \in Editors, NEW i \in SlotIds, S!Attach(n, i) PROVE SlotsInv' /\ IdStep
  <2> DEFINE t == TRUE
             slot == [id |-> i, meta |-> meta[i], ready |-> t]
  <2>1. S!Attaches(n, slot) /\ meta[i].status = "exported" /\ attach[i] \in {None, Dead, n}
        /\ attach' = S!UnlockPrevious(n, [attach EXCEPT ![i] = n])
        /\ crossed' = (IF editor[n].id = i \/ \E h \in Hosts : host[h].id = i /\ host[h].at \in {"looked", "chosen", "emptied"}
                       THEN crossed \cup {i} ELSE crossed)
        /\ UNCHANGED <<meta, lock, note, host, exports>>
    BY <1>16 DEF S!Attach
  <2>2. t \in BOOLEAN
    OBVIOUS
  <2> HIDE DEF t
  <2>3. slot \in Attachments /\ slot.id = i /\ slot.meta = meta[i]
    <3>1. meta[i] \in Metas /\ meta[i].snap # 0
      BY <1>1, <2>1 DEF Metas
    <3> QED BY <2>2, <3>1 DEF Attachments
  <2> HIDE DEF slot
  <2>4. slot # S!NoSlot
    <3>1. S!NoSlot.id = None /\ None \notin SlotIds
      BY DEF S!NoSlot, SharedNamesAssumption
    <3> QED BY <2>3, <3>1
  <2>5. attach[slot.id] \notin Editors \ {n}
    BY <2>1, <2>3 DEF SharedNamesAssumption
  <2>6. /\ \A m \in Editors : editor'[m] = IF m = n THEN slot ELSE editor[m]
        /\ editor' \in [Editors -> Attachments \cup {S!NoSlot}]
        /\ attach' \in [SlotIds -> Editors \cup {None, Dead}]
        /\ HoldsItsLock'
        /\ \A j \in SlotIds : attach'[j] \in Editors => attach'[j] = attach[j] \/ j = i
    <3>1. attach' = S!UnlockPrevious(n, IF slot = S!NoSlot THEN attach ELSE [attach EXCEPT ![slot.id] = n])
      BY <2>1, <2>3, <2>4
    <3>2. crossed \subseteq crossed' /\ (editor[n].id = slot.id => slot.id \in crossed')
      BY <2>1, <2>3
    <3> QED BY <2>1, <2>3, <2>4, <2>5, <3>1, <3>2, EditorMoves
  <2>7. SlotTypes'
    BY <2>1, <2>6 DEF SlotsInv, SlotTypes
  <2>8. TakenIsFree'
    <3> SUFFICES ASSUME NEW g \in Hosts, host[g].at \in Taking, host[g].id \notin crossed' PROVE IsFree(host[g])'
      BY <2>1 DEF TakenIsFree, IsFree
    <3>1. host[g].id \in SlotIds /\ IsFree(host[g]) /\ host[g].id \notin crossed
      BY <1>1, <2>1 DEF Proper, Taking, Placed, Owning
    <3>2. host[g].id # i
      BY <2>1, <3>1 DEF IsFree, Taking
    <3> QED BY <2>1, <2>6, <3>1, <3>2 DEF IsFree
  <2>9. HostsOwnTheirs' /\ NotesFit'
    BY <2>1 DEF SlotsInv, HostsOwnTheirs, InSlot, NotesFit
  <2>10. HoldsTheSnapshot'
    BY <2>1, <2>3, <2>6 DEF SlotsInv, HoldsTheSnapshot, Holding
  <2> QED BY <2>1, <2>6, <2>7, <2>8, <2>9, <2>10 DEF SlotsInv, IdStep
<1>17. ASSUME NEW n \in Editors, S!AttachFails(n) PROVE SlotsInv' /\ IdStep
  <2> DEFINE f == FALSE
             slot == [editor[n] EXCEPT !.ready = f]
  <2>1. S!Attaches(n, slot) /\ editor[n].ready /\ UNCHANGED <<meta, lock, attach, note, host, exports, crossed>>
    BY <1>17 DEF S!AttachFails
  <2>2. Holding(n)
    BY <2>1 DEF Holding, S!NoSlot
  <2>3. f \in BOOLEAN
    OBVIOUS
  <2>4. editor[n] \in Attachments
    BY <2>2, Held
  <2> HIDE DEF f
  <2>5. slot \in Attachments /\ slot.id = editor[n].id /\ slot.meta = editor[n].meta
    BY <2>3, <2>4 DEF Attachments
  <2> HIDE DEF slot
  <2>6. /\ \A m \in Editors : editor'[m] = IF m = n THEN slot ELSE editor[m]
        /\ editor' \in [Editors -> Attachments \cup {S!NoSlot}]
    BY <2>1, <2>5 DEF SlotsInv, SlotTypes, S!Attaches
  <2>7. \A m \in Editors : editor'[m] # S!NoSlot =>
            Holding(m) /\ editor'[m].id = editor[m].id /\ editor'[m].meta = editor[m].meta
    BY <2>2, <2>5, <2>6 DEF Holding
  <2>8. SlotTypes'
    BY <2>1, <2>6 DEF SlotsInv, SlotTypes
  <2>9. HoldsItsLock' /\ HoldsTheSnapshot'
    BY <2>1, <2>7 DEF SlotsInv, HoldsItsLock, HoldsTheSnapshot, Holding
  <2>10. HostsOwnTheirs' /\ TakenIsFree' /\ NotesFit'
    BY <2>1 DEF SlotsInv, HostsOwnTheirs, InSlot, TakenIsFree, IsFree, NotesFit
  <2> QED BY <2>1, <2>8, <2>9, <2>10 DEF SlotsInv, IdStep
<1>18. ASSUME NEW n \in Editors, S!EditorDies(n) PROVE SlotsInv' /\ IdStep
  <2>1. /\ attach' = [i \in SlotIds |-> IF attach[i] = n THEN Dead ELSE attach[i]]
        /\ S!Attaches(n, S!NoSlot) /\ UNCHANGED <<meta, lock, note, host, exports, crossed>>
        /\ Dead \notin Editors
    BY <1>18 DEF S!EditorDies, SharedNamesAssumption
  <2>2. /\ \A m \in Editors : editor'[m] = IF m = n THEN S!NoSlot ELSE editor[m]
        /\ editor' \in [Editors -> Attachments \cup {S!NoSlot}]
    BY <2>1 DEF SlotsInv, SlotTypes, S!Attaches
  <2>3. attach' \in [SlotIds -> Editors \cup {None, Dead}]
        /\ \A i \in SlotIds : attach'[i] \in Editors => attach'[i] = attach[i]
    BY <1>1, <2>1
  <2>4. HoldsItsLock' /\ HoldsTheSnapshot'
    BY <2>1, <2>2, Held DEF HoldsItsLock, HoldsTheSnapshot, Holding
  <2>5. TakenIsFree'
    <3> SUFFICES ASSUME NEW g \in Hosts, host[g].at \in Taking PROVE IsFree(host[g])'
      BY <2>1 DEF TakenIsFree, IsFree
    <3>1. host[g].id \in SlotIds /\ IsFree(host[g])
      BY <1>1 DEF Proper, Taking, Placed, Owning
    <3> QED BY <2>1, <2>3, <3>1 DEF IsFree
  <2>6. SlotTypes' /\ HostsOwnTheirs' /\ NotesFit'
    BY <2>1, <2>2, <2>3 DEF SlotsInv, SlotTypes, HostsOwnTheirs, InSlot, NotesFit
  <2> QED BY <2>1, <2>4, <2>5, <2>6 DEF SlotsInv, IdStep
<1>19. ASSUME NEW n \in Editors, S!AttachLive(n) \/ S!Send(n) \/ S!CancelAttached(n) PROVE SlotsInv' /\ IdStep
  <2>1. Holding(n)
    BY <1>19 DEF S!AttachLive, S!Send, S!CancelAttached, Holding, S!NoSlot
  <2>2. editor[n].id \in SlotIds /\ editor[n].meta \in Metas /\ meta[editor[n].id] \in Metas
    BY <1>1, <2>1, Held
  <2>3. /\ meta = [meta EXCEPT ![editor[n].id] = meta[editor[n].id]]
        /\ note = [note EXCEPT ![editor[n].id] = note[editor[n].id]]
    BY <1>1
  <2>4. S!Attaches(n, S!NoSlot) /\ attach' = S!UnlockPrevious(n, attach) /\ UNCHANGED <<lock, host, exports, crossed>>
    BY <1>19 DEF S!AttachLive, S!Send, S!CancelAttached
  <2>5. CASE UNCHANGED <<meta, note>>
    BY <2>1, <2>2, <2>3, <2>4, <2>5, Returns
  <2>6. ASSUME NEW status \in {"sent", "cancelled"},
               meta' = [meta EXCEPT ![editor[n].id] = [editor[n].meta EXCEPT !.status = status]],
               editor[n].meta.snap # 0,
               NEW a \in {note[editor[n].id], editor[n].meta.snap}, note' = [note EXCEPT ![editor[n].id] = a],
               a = note[editor[n].id] \/ status = "sent"
        PROVE  SlotsInv' /\ IdStep
    <3> DEFINE m == [editor[n].meta EXCEPT !.status = status]
    <3>1. m \in Metas /\ m.snap = editor[n].meta.snap /\ m.status = status
      BY <2>2, <2>6 DEF Metas
    <3>2. meta' = [meta EXCEPT ![editor[n].id] = m]
      BY <2>6
    <3> HIDE DEF m
    <3> QED BY <2>1, <2>4, <2>6, <3>1, <3>2, Returns
  <2>7. editor[n].meta.snap # 0
    BY <2>1, Held DEF Attachments
  <2>8. CASE S!Send(n)
    BY <2>6, <2>7, <2>8 DEF S!Send
  <2>9. CASE S!CancelAttached(n)
    BY <2>3, <2>5, <2>6, <2>7, <2>9 DEF S!CancelAttached
  <2>10. CASE S!AttachLive(n)
    BY <2>5, <2>10 DEF S!AttachLive
  <2> QED BY <1>19, <2>8, <2>9, <2>10
<1>20. CASE UNCHANGED slots
  BY <1>20 DEF slots, SlotsInv, SlotTypes, HoldsItsLock, HostsOwnTheirs, InSlot, TakenIsFree, IsFree, NotesFit,
               HoldsTheSnapshot, Holding, IdStep
<1> QED BY <1>3, <1>4, <1>5, <1>6, <1>7, <1>8, <1>9, <1>10, <1>11, <1>12, <1>13, <1>14, <1>15, <1>16, <1>17,
           <1>18, <1>19, <1>20 DEF S!Next

(* A slot that no two processes got hold of at once is not recycled under  *)
(* the Neovim that is attached to it, also after its TTL, and an           *)
(* annotation is about the snapshot of its slot, for any numbers of        *)
(* command lines, Neovims and slots (file-store.ts, allocateId).           *)
THEOREM AttachedSlotsStay == S!Spec => []S!AttachedIsNotRecycled
<1>1. S!Init => SlotsInv
  BY SlotsInit, SharedNamesAssumption
<1>2. SlotsInv /\ [S!Next]_S!vars => SlotsInv'
  BY SlotsNext, SharedNamesAssumption DEF S!vars, slots
<1> QED BY <1>1, <1>2, SlotsInvMeans, PTL DEF S!Spec

(* ... and an id that was handed out names the same snapshot until Send,   *)
(* cancel or the TTL.                                                      *)
THEOREM IdsKeepTheirSnapshot == S!Spec => S!IdIsKept
<1>1. S!Init => SlotsInv
  BY SlotsInit, SharedNamesAssumption
<1>2. SlotsInv /\ [S!Next]_S!vars =>
          /\ SlotsInv'
          /\ [\A i \in SlotIds \ crossed' :
                meta[i].status = "exported" /\ ~meta[i].old => meta'[i].snap = meta[i].snap]_S!vars
  BY SlotsNext, SharedNamesAssumption DEF S!vars, slots, IdStep
<1> QED BY <1>1, <1>2, PTL DEF S!Spec, S!IdIsKept, S!vars

-----------------------------------------------------------------------------
(* The bridges.  What keeps one from outliving its session is the          *)
(* operation that starts it or the shutdown behind it in the queue.        *)

Orders == [do : {"show", "shutdown"}, gen : Nat]
Steps == {"none", "create", "stop stale", "stop", "reserve", "listen", "publish", "failed", "started",
          "refresh", "rename"}
Operations == [at : Steps, gen : Nat, b : Nat]
Cleanings == [at : {"none", "socket", "manifest"}, id : Nat, b : Nat]
Lives == {"unborn", "starting", "running", "stopping", "stopped", "lost"}

BridgeTypes ==
  /\ made \in 0..MaxBridges
  /\ reserved \in [BridgeIds -> Nat] /\ bridgeManifest \in [BridgeIds -> Nat]
  /\ socket \in [BridgeIds -> Nat]
  /\ state \in [B!Bridges -> Lives] /\ pi \in [B!Bridges -> Pis]
  /\ id \in [B!Bridges -> BridgeIds \cup {0}] /\ born \in [B!Bridges -> Nat]
  /\ piGeneration \in [Pis -> Nat] /\ bridge \in [Pis -> Nat]
  /\ waiting \in [Pis -> SUBSET Nat] /\ queue \in [Pis -> Seq(Orders)]
  /\ op \in [Pis -> Operations] /\ cleaner \in [Neovims -> Cleanings]

Starts(p) == op[p].at \in {"reserve", "listen", "publish"}
Refreshes(p) == op[p].at \in {"refresh", "rename"}
EndsSession(orders) == \E k \in 1..Len(orders) : orders[k].do = "shutdown"

(* What the operation of a process knows of the bridge it is about.        *)
KnowsItsBridge(p) ==
  /\ op[p].at = "none" => op[p] = B!NoOp
  /\ Starts(p) \/ op[p].at \in {"failed", "started"} =>
        op[p].b \in 1..made /\ pi[op[p].b] = p /\ born[op[p].b] = op[p].gen
  /\ Starts(p) => state[op[p].b] = "starting"
  /\ Starts(p) \/ op[p].at = "failed" => bridge[p] = op[p].b
  /\ op[p].at = "failed" => state[op[p].b] = "stopped"
  /\ op[p].at \in {"create", "stop stale"} => bridge[p] = 0
  /\ bridge[p] # 0 => bridge[p] \in 1..made /\ pi[bridge[p]] = p
  /\ Refreshes(p) => /\ op[p].b \in 1..made /\ pi[op[p].b] = p /\ bridge[p] \in {0, op[p].b}
                     /\ state[op[p].b] \in {"running", "stopping", "stopped"}

(* A bridge that starts has the operation that starts it; one that runs is *)
(* known to its process, and belongs to its session, is about to be looked *)
(* at, or has the end of its session in front of it.                       *)
LivesInASession(b) ==
  /\ state[b] = "unborn" <=> b > made
  /\ state[b] = "starting" => Starts(pi[b]) /\ op[pi[b]].b = b
  /\ state[b] = "running" =>
        /\ bridge[pi[b]] = b
        /\ \/ born[b] = piGeneration[pi[b]]
           \/ op[pi[b]].at = "started" /\ op[pi[b]].b = b
           \/ EndsSession(queue[pi[b]])

LifeInv ==
  /\ BridgeTypes
  /\ \A p \in Pis : KnowsItsBridge(p)
  /\ \A b \in B!Bridges : LivesInASession(b)

(* What a queue is told of when one enters and one leaves it.              *)
LEMMA QueueFacts ==
  ASSUME NEW orders \in Seq(Orders)
  PROVE  /\ ~EndsSession(<<>>)
         /\ \A o \in Orders : /\ Append(orders, o) \in Seq(Orders)
                              /\ EndsSession(orders) => EndsSession(Append(orders, o))
                              /\ o.do = "shutdown" => EndsSession(Append(orders, o))
         /\ orders # <<>> => /\ Head(orders) \in Orders /\ Tail(orders) \in Seq(Orders)
                             /\ EndsSession(orders) /\ Head(orders).do # "shutdown"
                                   => EndsSession(Tail(orders))
<1>1. ~EndsSession(<<>>)
  BY DEF EndsSession
<1>2. ASSUME NEW o \in Orders
      PROVE  /\ Append(orders, o) \in Seq(Orders)
             /\ EndsSession(orders) => EndsSession(Append(orders, o))
             /\ o.do = "shutdown" => EndsSession(Append(orders, o))
  <2>1. /\ Append(orders, o) \in Seq(Orders) /\ Len(Append(orders, o)) = Len(orders) + 1
        /\ \A k \in 1..Len(orders) : Append(orders, o)[k] = orders[k]
        /\ Append(orders, o)[Len(orders) + 1] = o
    OBVIOUS
  <2> QED BY <2>1 DEF EndsSession
<1>3. ASSUME orders # <<>>
      PROVE  /\ Head(orders) \in Orders /\ Tail(orders) \in Seq(Orders)
             /\ EndsSession(orders) /\ Head(orders).do # "shutdown" => EndsSession(Tail(orders))
  <2>1. /\ Head(orders) = orders[1] /\ Head(orders) \in Orders /\ Tail(orders) \in Seq(Orders)
        /\ Len(Tail(orders)) = Len(orders) - 1
        /\ \A k \in 1..Len(Tail(orders)) : Tail(orders)[k] = orders[k + 1]
    BY <1>3
  <2>2. ASSUME NEW k \in 1..Len(orders), orders[k].do = "shutdown", Head(orders).do # "shutdown"
        PROVE  k - 1 \in 1..Len(Tail(orders)) /\ Tail(orders)[k - 1].do = "shutdown"
    BY <2>1, <2>2
  <2> QED BY <2>1, <2>2 DEF EndsSession
<1> QED BY <1>1, <1>2, <1>3

LEMMA LifeInit ==
  ASSUME SharedNamesAssumption, B!Init
  PROVE  LifeInv
<1>1. B!NoOp \in Operations /\ B!NoOp.at = "none" /\ B!NotCleaning \in Cleanings
  BY DEF B!NoOp, B!NotCleaning, Operations, Steps, Cleanings
<1>2. BridgeTypes
  BY <1>1 DEF B!Init, BridgeTypes, SharedNamesAssumption, Lives
<1>3. \A p \in Pis : KnowsItsBridge(p)
  BY <1>1 DEF B!Init, KnowsItsBridge, Refreshes, Starts
<1>4. \A b \in B!Bridges : LivesInASession(b)
  BY DEF B!Init, LivesInASession, B!Bridges, SharedNamesAssumption
<1> QED BY <1>2, <1>3, <1>4 DEF LifeInv

(* Registry, waiting handlers and the cleaners do not matter here.         *)
LEMMA LifeUnmoved ==
  ASSUME LifeInv, BridgeTypes', UNCHANGED <<state, pi, born, piGeneration, bridge, queue, op, made>>
  PROVE  LifeInv'
<1>1. \A p \in Pis : KnowsItsBridge(p)'
  BY DEF LifeInv, KnowsItsBridge, Refreshes, Starts
<1>2. \A b \in B!Bridges : LivesInASession(b)'
  BY DEF LifeInv, LivesInASession, Starts
<1> QED BY <1>1, <1>2 DEF LifeInv

(* The commands, the events of the session and the end of the process.     *)
LEMMA LifeOfSessions ==
  ASSUME SharedNamesAssumption, LifeInv, NEW p \in Pis,
         \/ B!Command(p) \/ B!SessionShutdown(p) \/ B!Crash(p)
         \/ \E gen \in waiting[p] : B!PiIsIdle(p, gen)
  PROVE  LifeInv'
<1>1. BridgeTypes /\ queue[p] \in Seq(Orders)
  BY DEF LifeInv, BridgeTypes
<1>2. CASE B!Command(p)
  <2>1. BridgeTypes'
    BY <1>1, <1>2 DEF B!Command, B!registry, B!fixed, BridgeTypes
  <2> QED BY <1>2, <2>1, LifeUnmoved DEF B!Command, B!fixed
<1>3. ASSUME NEW gen \in waiting[p], B!PiIsIdle(p, gen) PROVE LifeInv'
  <2> DEFINE o == [do |-> "show", gen |-> gen]
  <2>1. o \in Orders
    BY <1>1 DEF Orders, BridgeTypes
  <2>2. UNCHANGED <<reserved, bridgeManifest, socket, state, pi, id, born, piGeneration, bridge, op, cleaner, made>>
        /\ waiting' = [waiting EXCEPT ![p] = @ \ {gen}]
        /\ (queue' = [queue EXCEPT ![p] = Append(@, o)] \/ queue' = queue)
    BY <1>3 DEF B!PiIsIdle, B!Enqueue, B!registry, B!fixed
  <2> HIDE DEF o
  <2>3. Append(queue[p], o) \in Seq(Orders) /\ (EndsSession(queue[p]) => EndsSession(Append(queue[p], o)))
    BY <1>1, <2>1, QueueFacts
  <2>4. BridgeTypes'
    <3>1. queue' \in [Pis -> Seq(Orders)]
      <4>1. PICK after \in Seq(Orders) : after = Append(queue[p], o)
        BY <2>3
      <4>2. queue' = [queue EXCEPT ![p] = after] \/ queue' = queue
        BY <2>2, <4>1
      <4> QED BY <1>1, <4>2 DEF BridgeTypes
    <3>2. waiting \in [Pis -> SUBSET Nat] /\ waiting[p] \ {gen} \in SUBSET Nat
      BY <1>1 DEF BridgeTypes
    <3>3. waiting' \in [Pis -> SUBSET Nat]
      BY <2>2, <3>2
    <3> QED BY <1>1, <2>2, <3>1, <3>3 DEF BridgeTypes
  <2>5. \A q \in Pis : EndsSession(queue[q]) => EndsSession(queue'[q])
    BY <1>1, <2>2, <2>3 DEF BridgeTypes
  <2>6. \A q \in Pis : KnowsItsBridge(q)'
    BY <2>2 DEF LifeInv, KnowsItsBridge, Refreshes, Starts
  <2>7. \A b \in B!Bridges : LivesInASession(b)'
    BY <1>1, <2>2, <2>5 DEF LifeInv, LivesInASession, Starts, BridgeTypes
  <2> QED BY <2>4, <2>6, <2>7 DEF LifeInv
<1>4. CASE B!SessionShutdown(p)
  <2> DEFINE o == [do |-> "shutdown", gen |-> 0]
  <2>1. o \in Orders /\ o.do = "shutdown"
    BY DEF Orders
  <2>2. UNCHANGED <<reserved, bridgeManifest, socket, state, pi, id, born, waiting, bridge, op, cleaner, made>>
        /\ piGeneration' = [piGeneration EXCEPT ![p] = @ + 1]
        /\ queue' = [queue EXCEPT ![p] = Append(@, o)]
    BY <1>4 DEF B!SessionShutdown, B!Enqueue, B!registry, B!fixed
  <2> HIDE DEF o
  <2>3. Append(queue[p], o) \in Seq(Orders) /\ EndsSession(Append(queue[p], o))
    BY <1>1, <2>1, QueueFacts
  <2>4. BridgeTypes'
    BY <1>1, <2>2, <2>3 DEF BridgeTypes
  <2>5. \A q \in Pis : \/ EndsSession(queue'[q])
                       \/ queue'[q] = queue[q] /\ piGeneration'[q] = piGeneration[q]
    BY <1>1, <2>2, <2>3 DEF BridgeTypes
  <2>6. \A q \in Pis : KnowsItsBridge(q)'
    BY <2>2 DEF LifeInv, KnowsItsBridge, Refreshes, Starts
  <2>7. \A b \in B!Bridges : LivesInASession(b)'
    BY <1>1, <2>2, <2>5 DEF LifeInv, LivesInASession, Starts, BridgeTypes
  <2> QED BY <2>4, <2>6, <2>7 DEF LifeInv
<1>5. CASE B!Crash(p)
  <2>1. /\ UNCHANGED <<reserved, bridgeManifest, socket, pi, id, born, cleaner, made>>
        /\ piGeneration' = [piGeneration EXCEPT ![p] = @ + 1]
        /\ state' = [b \in B!Bridges |->
              IF pi[b] = p /\ state[b] # "unborn" THEN "lost" ELSE state[b]]
        /\ bridge' = [bridge EXCEPT ![p] = 0] /\ waiting' = [waiting EXCEPT ![p] = {}]
        /\ queue' = [queue EXCEPT ![p] = <<>>] /\ op' = [op EXCEPT ![p] = B!NoOp]
    BY <1>5 DEF B!Crash, B!Serialized, B!registry, B!fixed
  <2>2. B!NoOp \in Operations /\ B!NoOp.at = "none" /\ <<>> \in Seq(Orders)
    BY DEF B!NoOp, Operations, Steps
  <2>3. BridgeTypes'
    <3>1. state' \in [B!Bridges -> Lives]
      BY <1>1, <2>1 DEF BridgeTypes, Lives
    <3> QED BY <1>1, <2>1, <2>2, <3>1 DEF BridgeTypes
  <2>4. \A q \in Pis \ {p} : op'[q] = op[q] /\ bridge'[q] = bridge[q] /\ queue'[q] = queue[q]
                             /\ piGeneration'[q] = piGeneration[q]
    BY <1>1, <2>1 DEF BridgeTypes
  <2>5. op'[p] = B!NoOp /\ bridge'[p] = 0
    BY <1>1, <2>1 DEF BridgeTypes
  <2>6. 1..made \subseteq B!Bridges
    BY <1>1 DEF BridgeTypes, B!Bridges, SharedNamesAssumption
  <2>7. ASSUME NEW q \in Pis PROVE KnowsItsBridge(q)'
    <3>1. CASE q = p
      BY <2>2, <2>5, <3>1 DEF KnowsItsBridge, Refreshes, Starts
    <3>2. CASE q # p
      <4>1. Starts(q) \/ Refreshes(q) \/ op[q].at \in {"failed", "started"} => state'[op[q].b] = state[op[q].b]
        BY <2>1, <2>6, <3>2 DEF LifeInv, KnowsItsBridge, Refreshes
      <4>2. op'[q] = op[q] /\ bridge'[q] = bridge[q] /\ UNCHANGED <<made, pi, born>>
        BY <2>1, <2>4, <3>2
      <4>3. KnowsItsBridge(q)
        BY DEF LifeInv
      <4> QED BY <4>1, <4>2, <4>3 DEF KnowsItsBridge, Refreshes, Starts
    <3> QED BY <3>1, <3>2
  <2>8. ASSUME NEW b \in B!Bridges PROVE LivesInASession(b)'
    <3>1. pi[b] \in Pis
      BY <1>1 DEF BridgeTypes
    <3>2. CASE pi[b] = p
      BY <2>1, <3>2 DEF LifeInv, LivesInASession
    <3>3. CASE pi[b] # p
      BY <2>1, <2>4, <3>1, <3>3 DEF LifeInv, LivesInASession, Starts
    <3> QED BY <3>2, <3>3
  <2> QED BY <2>3, <2>7, <2>8 DEF LifeInv
<1> QED BY <1>2, <1>3, <1>4, <1>5

(* What dequeues, and what an operation that starts no bridge does next.   *)
LEMMA LifeOfQueue ==
  ASSUME SharedNamesAssumption, LifeInv, NEW p \in Pis, B!ShowBegins(p) \/ B!ShutdownBegins(p)
  PROVE  LifeInv'
<1>1. BridgeTypes /\ queue[p] \in Seq(Orders) /\ queue[p] # <<>> /\ op[p] = B!NoOp /\ op[p].at = "none"
  <2>1. queue[p] # <<>> /\ op[p] = B!NoOp
    BY DEF B!ShowBegins, B!ShutdownBegins
  <2>2. op[p].at = "none"
    BY <2>1 DEF B!NoOp
  <2> QED BY <2>1, <2>2 DEF LifeInv, BridgeTypes
<1>2. /\ UNCHANGED <<reserved, bridgeManifest, socket, pi, id, born, piGeneration, waiting, cleaner, made>>
      /\ queue' = [queue EXCEPT ![p] = Tail(@)]
  BY DEF B!ShowBegins, B!ShutdownBegins, B!registry, B!fixed
<1>3. /\ Tail(queue[p]) \in Seq(Orders)
      /\ EndsSession(queue[p]) /\ Head(queue[p]).do # "shutdown" => EndsSession(Tail(queue[p]))
  BY <1>1, QueueFacts
<1>4. queue' \in [Pis -> Seq(Orders)] /\ queue'[p] = Tail(queue[p]) /\ \A q \in Pis \ {p} : queue'[q] = queue[q]
  BY <1>1, <1>2, <1>3 DEF BridgeTypes
<1>5. \A q \in Pis : KnowsItsBridge(q)
  BY DEF LifeInv
<1>6. \A b \in B!Bridges : LivesInASession(b) /\ pi[b] \in Pis
  BY <1>1 DEF LifeInv, BridgeTypes
<1>7. CASE UNCHANGED <<bridge, op, state>> /\ (Head(queue[p]).do # "shutdown" \/ bridge[p] = 0)
  <2>1. BridgeTypes'
    BY <1>1, <1>2, <1>4, <1>7 DEF BridgeTypes
  <2>2. \A q \in Pis : KnowsItsBridge(q)'
    BY <1>2, <1>5, <1>7 DEF KnowsItsBridge, Refreshes, Starts
  <2>3. ASSUME NEW b \in B!Bridges PROVE LivesInASession(b)'
    <3>1. b # 0
      BY DEF B!Bridges
    <3>2. state[b] = "running" => (EndsSession(queue[pi[b]]) => EndsSession(queue'[pi[b]]))
      BY <1>3, <1>4, <1>6, <1>7, <3>1 DEF LivesInASession
    <3> QED BY <1>2, <1>6, <1>7, <3>2 DEF LivesInASession, Starts
  <2> QED BY <2>1, <2>2, <2>3 DEF LifeInv
<1>12. ASSUME NEW next \in Operations, next.at = "refresh", next.b = bridge[p], op' = [op EXCEPT ![p] = next],
             UNCHANGED <<bridge, state>>, bridge[p] # 0, state[bridge[p]] = "running",
             Head(queue[p]).do # "shutdown", bridge[p] \in 1..made, pi[bridge[p]] = p
      PROVE  LifeInv'
  <2>1. op'[p] = next /\ \A q \in Pis \ {p} : op'[q] = op[q]
    BY <1>1, <1>12 DEF BridgeTypes
  <2>2. BridgeTypes'
    BY <1>1, <1>2, <1>4, <1>12 DEF BridgeTypes
  <2>3. ASSUME NEW q \in Pis PROVE KnowsItsBridge(q)'
    <3>1. CASE q = p
      <4>1. op'[p].at = "refresh" /\ op'[p].b = bridge[p] /\ op'[p] # B!NoOp
        BY <1>12, <2>1 DEF B!NoOp
      <4> QED BY <1>2, <1>12, <3>1, <4>1 DEF KnowsItsBridge, Refreshes, Starts
    <3>2. CASE q # p
      <4>1. op'[q] = op[q] /\ KnowsItsBridge(q) /\ UNCHANGED <<made, pi, born, bridge, state>>
        BY <1>2, <1>5, <1>12, <2>1, <3>2
      <4> QED BY <4>1 DEF KnowsItsBridge, Refreshes, Starts
    <3> QED BY <3>1, <3>2
  <2>4. ASSUME NEW b \in B!Bridges PROVE LivesInASession(b)'
    <3>1. EndsSession(queue[pi[b]]) => EndsSession(queue'[pi[b]])
      BY <1>3, <1>4, <1>6, <1>12
    <3>2. pi[b] = p => state[b] # "starting" /\ ~(op[p].at = "started")
      BY <1>1, <1>6 DEF LivesInASession, Starts
    <3> QED BY <1>2, <1>6, <1>12, <2>1, <3>1, <3>2 DEF LivesInASession, Starts
  <2> QED BY <2>2, <2>3, <2>4 DEF LifeInv
<1>8. ASSUME NEW next \in Operations, next.at \in {"create", "stop stale", "stop"}, op' = [op EXCEPT ![p] = next],
             B!Forgets(p, bridge[p]),
             \/ bridge[p] = 0 /\ state' = state
             \/ bridge[p] # 0 /\ state' = B!Stopping(bridge[p])
      PROVE  LifeInv'
  <2>1. bridge' \in [Pis -> Nat] /\ bridge'[p] = 0 /\ \A q \in Pis \ {p} : bridge'[q] = bridge[q]
    BY <1>1, <1>8 DEF B!Forgets, BridgeTypes
  <2>2. op'[p] = next /\ \A q \in Pis \ {p} : op'[q] = op[q]
    BY <1>1, <1>8 DEF BridgeTypes
  <2>3. /\ state' \in [B!Bridges -> Lives]
        /\ \A b \in B!Bridges : /\ state'[b] = state[b] \/ (state[b] = "running" /\ state'[b] = "stopping")
                                /\ b = bridge[p] => state'[b] # "running"
    <3>1. \/ state' = state /\ (bridge[p] = 0 \/ state[bridge[p]] # "running")
          \/ state[bridge[p]] = "running" /\ state' = [state EXCEPT ![bridge[p]] = "stopping"]
      BY <1>8 DEF B!Stopping
    <3>2. "stopping" \in Lives /\ 0 \notin B!Bridges
      BY DEF Lives, B!Bridges
    <3>3. state \in [B!Bridges -> Lives]
      BY <1>1 DEF BridgeTypes
    <3> QED BY <3>1, <3>2, <3>3
  <2>4. BridgeTypes'
    BY <1>1, <1>2, <1>4, <1>8, <2>1, <2>3 DEF BridgeTypes
  <2>5. 1..made \subseteq B!Bridges
    BY <1>1 DEF BridgeTypes, B!Bridges, SharedNamesAssumption
  <2>6. ASSUME NEW q \in Pis PROVE KnowsItsBridge(q)'
    <3>1. CASE q = p
      BY <1>8, <2>1, <2>2, <3>1 DEF KnowsItsBridge, Refreshes, Starts
    <3>2. CASE q # p
      <4>1. op'[q] = op[q] /\ bridge'[q] = bridge[q] /\ UNCHANGED <<made, pi, born>> /\ KnowsItsBridge(q)
        BY <1>2, <1>5, <2>1, <2>2, <3>2
      <4>2. /\ Starts(q) => op[q].b \in B!Bridges /\ state'[op[q].b] = "starting"
            /\ op[q].at = "failed" => op[q].b \in B!Bridges /\ state'[op[q].b] = "stopped"
            /\ Refreshes(q) => op[q].b \in B!Bridges /\ state'[op[q].b] \in {"running", "stopping", "stopped"}
        BY <2>3, <2>5, <4>1 DEF KnowsItsBridge, Refreshes
      <4> QED BY <4>1, <4>2 DEF KnowsItsBridge, Refreshes, Starts
    <3> QED BY <3>1, <3>2
  <2>7. ASSUME NEW b \in B!Bridges PROVE LivesInASession(b)'
    <3>1. LivesInASession(b) /\ pi[b] \in Pis
      BY <1>6
    <3>2. (state'[b] = "unborn" <=> state[b] = "unborn") /\ (state'[b] = "starting" => state[b] = "starting")
          /\ (state'[b] = "running" => state[b] = "running" /\ b # bridge[p])
      BY <2>3
    <3>3. state[b] = "starting" => pi[b] # p
      BY <1>1, <3>1 DEF LivesInASession, Starts
    <3>4. state'[b] = "running" => pi[b] # p
      BY <3>1, <3>2 DEF LivesInASession
    <3> QED BY <1>2, <1>4, <2>1, <2>2, <3>1, <3>2, <3>3, <3>4 DEF LivesInASession, Starts
  <2> QED BY <2>4, <2>6, <2>7 DEF LifeInv
<1>9. bridge[p] \in Nat /\ piGeneration[p] \in Nat /\ Head(queue[p]) \in Orders
  BY <1>1, QueueFacts DEF BridgeTypes
<1>10. CASE B!ShowBegins(p)
  <2> DEFINE next == [at |-> IF bridge[p] = 0 THEN "create" ELSE "stop stale",
                      gen |-> Head(queue[p]).gen, b |-> bridge[p]]
  <2>1. next \in Operations /\ next.at \in {"create", "stop stale", "stop"}
    BY <1>9 DEF Operations, Steps, Orders
  <2>2. Head(queue[p]).do = "show"
    BY <1>10 DEF B!ShowBegins
  <2> DEFINE again == [at |-> "refresh", gen |-> Head(queue[p]).gen, b |-> bridge[p]]
  <2>4. again \in Operations /\ again.at = "refresh" /\ again.b = bridge[p]
    BY <1>9 DEF Operations, Steps, Orders
  <2>3. \/ UNCHANGED <<bridge, op, state>>
        \/ /\ op' = [op EXCEPT ![p] = again] /\ UNCHANGED <<bridge, state>>
           /\ bridge[p] # 0 /\ state[bridge[p]] = "running"
        \/ /\ op' = [op EXCEPT ![p] = next] /\ B!Forgets(p, bridge[p])
           /\ \/ bridge[p] = 0 /\ state' = state
              \/ bridge[p] # 0 /\ state' = B!Stopping(bridge[p])
    BY <1>10 DEF B!ShowBegins, B!Serialized, B!Stopping
  <2> HIDE DEF next, again
  <2>5. bridge[p] # 0 => bridge[p] \in 1..made /\ pi[bridge[p]] = p
    BY <1>5 DEF KnowsItsBridge
  <2> QED BY <1>7, <1>8, <1>12, <2>1, <2>2, <2>3, <2>4, <2>5
<1>11. CASE B!ShutdownBegins(p)
  <2> DEFINE next == [at |-> "stop", gen |-> 0, b |-> bridge[p]]
  <2>1. next \in Operations /\ next.at \in {"create", "stop stale", "stop"}
    BY <1>9 DEF Operations, Steps, Orders
  <2>2. \/ UNCHANGED <<bridge, op, state>> /\ bridge[p] = 0
        \/ /\ op' = [op EXCEPT ![p] = next] /\ B!Forgets(p, bridge[p])
           /\ bridge[p] # 0 /\ state' = B!Stopping(bridge[p])
    BY <1>11 DEF B!ShutdownBegins, B!Serialized
  <2> HIDE DEF next
  <2> QED BY <1>7, <1>8, <2>1, <2>2
<1> QED BY <1>10, <1>11

(* What creates and starts a bridge.                                       *)
LEMMA LifeOfStarts ==
  ASSUME SharedNamesAssumption, LifeInv, NEW p \in Pis,
         B!Create(p) \/ (\E i \in BridgeIds : B!Reserve(p, i)) \/ B!Listen(p) \/ B!Publish(p) \/ B!StartFails(p)
  PROVE  LifeInv'
<1>1. BridgeTypes /\ op[p] \in Operations /\ (\A q \in Pis : KnowsItsBridge(q))
      /\ \A b \in B!Bridges : LivesInASession(b) /\ pi[b] \in Pis
  BY DEF LifeInv, BridgeTypes
<1>2. 1..made \subseteq B!Bridges /\ made \in Nat /\ BridgeIds \subseteq Nat
  BY <1>1 DEF BridgeTypes, B!Bridges, SharedNamesAssumption
<1>3. CASE B!Create(p)
  <2>1. PICK c \in 1..MaxBridges : c = made + 1
    BY <1>2, <1>3 DEF B!Create, SharedNamesAssumption
  <2>2. PICK next : next = [op[p] EXCEPT !.at = "reserve", !.b = c]
    OBVIOUS
  <2>3. /\ made' = c /\ state' = [state EXCEPT ![c] = "starting"] /\ pi' = [pi EXCEPT ![c] = p]
        /\ born' = [born EXCEPT ![c] = op[p].gen] /\ bridge' = [bridge EXCEPT ![p] = c]
        /\ op' = [op EXCEPT ![p] = next]
        /\ UNCHANGED <<reserved, bridgeManifest, socket, id, piGeneration, waiting, queue, cleaner>>
        /\ op[p].at = "create"
    BY <1>3, <2>1, <2>2 DEF B!Create, B!Serialized, B!registry
  <2>4. next \in Operations /\ next.at = "reserve" /\ next.b = c /\ next.gen = op[p].gen /\ op[p].gen \in Nat
    <3>1. op[p].gen \in Nat
      BY <1>1 DEF Operations
    <3>2. next \in Operations
      <4>1. c \in Nat
        BY <2>1
      <4> QED BY <1>1, <2>2, <4>1 DEF Operations, Steps
    <3>3. next.at = "reserve" /\ next.b = c /\ next.gen = op[p].gen
      BY <1>1, <2>2 DEF Operations
    <3> QED BY <3>1, <3>2, <3>3
  <2>5. /\ op'[p] = next /\ bridge'[p] = c
        /\ \A q \in Pis \ {p} : op'[q] = op[q] /\ bridge'[q] = bridge[q]
    BY <1>1, <2>3 DEF BridgeTypes
  <2>6. /\ state'[c] = "starting" /\ pi'[c] = p /\ born'[c] = op[p].gen
        /\ \A b \in B!Bridges \ {c} : state'[b] = state[b] /\ pi'[b] = pi[b] /\ born'[b] = born[b]
    BY <1>1, <2>1, <2>3 DEF BridgeTypes, B!Bridges
  <2>7. bridge[p] = 0
    BY <1>1, <2>3 DEF KnowsItsBridge, Refreshes
  <2>8. BridgeTypes'
    <3>1. state' \in [B!Bridges -> Lives] /\ pi' \in [B!Bridges -> Pis] /\ born' \in [B!Bridges -> Nat]
      BY <1>1, <2>1, <2>3, <2>4 DEF BridgeTypes, Lives, B!Bridges
    <3>2. bridge' \in [Pis -> Nat] /\ op' \in [Pis -> Operations] /\ made' \in 0..MaxBridges
      BY <1>1, <2>1, <2>3, <2>4 DEF BridgeTypes
    <3> QED BY <1>1, <2>3, <3>1, <3>2 DEF BridgeTypes
  <2>9. ASSUME NEW q \in Pis PROVE KnowsItsBridge(q)'
    <3>1. CASE q = p
      <4>1. op'[q].at = "reserve" /\ op'[q].b = c /\ op'[q].gen = op[p].gen /\ bridge'[q] = c
        BY <2>4, <2>5, <3>1
      <4>2. c \in 1..made' /\ pi'[c] = q /\ born'[c] = op[p].gen /\ state'[c] = "starting"
        BY <2>1, <2>3, <2>6, <3>1
      <4> QED BY <4>1, <4>2 DEF KnowsItsBridge, Refreshes
    <3>2. CASE q # p
      <4>1. op'[q] = op[q] /\ bridge'[q] = bridge[q] /\ KnowsItsBridge(q)
        BY <1>1, <2>5, <3>2
      <4>2. ASSUME NEW b \in 1..made
            PROVE  b \in 1..made' /\ state'[b] = state[b] /\ pi'[b] = pi[b] /\ born'[b] = born[b]
        BY <1>2, <2>1, <2>3, <2>6
      <4> QED BY <4>1, <4>2 DEF KnowsItsBridge, Refreshes, Starts
    <3> QED BY <3>1, <3>2
  <2>10. ASSUME NEW b \in B!Bridges PROVE LivesInASession(b)'
    <3>1. CASE b = c
      BY <2>1, <2>3, <2>4, <2>5, <2>6, <3>1 DEF LivesInASession, Starts
    <3>2. CASE b # c
      <4>1. state'[b] = state[b] /\ pi'[b] = pi[b] /\ born'[b] = born[b] /\ LivesInASession(b) /\ pi[b] \in Pis
        BY <1>1, <2>6, <3>2
      <4>2. (b > made <=> b > made')
        BY <1>2, <2>1, <2>3, <3>2 DEF B!Bridges
      <4>3. state[b] \in {"starting", "running"} => pi[b] # p
        BY <2>3, <2>7, <4>1 DEF LivesInASession, Starts, B!Bridges
      <4> QED BY <2>3, <2>5, <4>1, <4>2, <4>3 DEF LivesInASession, Starts
    <3> QED BY <3>1, <3>2
  <2> QED BY <2>8, <2>9, <2>10 DEF LifeInv
<1>4. ASSUME NEW next \in Operations, op' = [op EXCEPT ![p] = next], next.b = op[p].b, next.gen = op[p].gen,
             Starts(p), BridgeTypes', UNCHANGED <<pi, born, piGeneration, bridge, queue, made>>,
             \/ next.at \in {"listen", "publish"} /\ state' = state
             \/ next.at = "failed" /\ state' = [state EXCEPT ![op[p].b] = "stopped"]
             \/ next.at = "started" /\ state' = [state EXCEPT ![op[p].b] = "running"]
      PROVE  LifeInv'
  <2>1. PICK c \in B!Bridges : c = op[p].b
    BY <1>1, <1>2, <1>4 DEF KnowsItsBridge, Refreshes
  <2>2. c \in 1..made /\ pi[c] = p /\ born[c] = op[p].gen /\ state[c] = "starting" /\ bridge[p] = c
    BY <1>1, <1>4, <2>1 DEF KnowsItsBridge, Refreshes
  <2>3. op'[p] = next /\ \A q \in Pis \ {p} : op'[q] = op[q]
    BY <1>1, <1>4 DEF BridgeTypes
  <2>4. \A b \in B!Bridges \ {c} : state'[b] = state[b]
    BY <1>1, <1>4, <2>1 DEF BridgeTypes
  <2>5. /\ next.at \in {"listen", "publish", "failed", "started"}
        /\ next.at \in {"listen", "publish"} => state'[c] = "starting"
        /\ next.at = "failed" => state'[c] = "stopped"
        /\ next.at = "started" => state'[c] = "running"
    BY <1>1, <1>4, <2>1, <2>2 DEF BridgeTypes
  <2>6. ASSUME NEW q \in Pis PROVE KnowsItsBridge(q)'
    <3>1. CASE q = p
      <4>1. /\ op'[p].b = c /\ op'[p].gen = op[p].gen /\ op'[p].at = next.at
            /\ Starts(p)' => next.at \in {"listen", "publish"}
        BY <1>4, <2>1, <2>3, <2>5 DEF Starts
      <4>2. KnowsItsBridge(p)
        BY <1>1
      <4> QED BY <1>4, <2>1, <2>2, <2>5, <3>1, <4>1, <4>2 DEF KnowsItsBridge, Refreshes
    <3>2. CASE q # p
      <4>1. op'[q] = op[q] /\ KnowsItsBridge(q)
        BY <1>1, <2>3, <3>2
      <4>2. Starts(q) \/ Refreshes(q) \/ op[q].at = "failed" =>
                op[q].b \in B!Bridges /\ state'[op[q].b] = state[op[q].b]
        BY <1>2, <2>2, <2>4, <3>2, <4>1 DEF KnowsItsBridge, Refreshes
      <4> QED BY <1>4, <4>1, <4>2 DEF KnowsItsBridge, Refreshes, Starts
    <3> QED BY <3>1, <3>2
  <2>7. ASSUME NEW b \in B!Bridges PROVE LivesInASession(b)'
    <3>1. CASE b = c
      BY <1>1, <1>2, <1>4, <2>1, <2>2, <2>3, <2>5, <3>1 DEF LivesInASession, Starts
    <3>2. CASE b # c
      <4>1. state'[b] = state[b] /\ LivesInASession(b) /\ pi[b] \in Pis
        BY <1>1, <2>4, <3>2
      <4>2. state[b] \in {"starting", "running"} => pi[b] # p
        BY <2>1, <2>2, <3>2, <4>1 DEF LivesInASession
      <4> QED BY <1>4, <2>3, <4>1, <4>2 DEF LivesInASession, Starts
    <3> QED BY <3>1, <3>2
  <2> QED BY <1>4, <2>6, <2>7 DEF LifeInv
<1>5. ASSUME Starts(p), NEW at \in Steps
      PROVE  [op[p] EXCEPT !.at = at] \in Operations /\ [op[p] EXCEPT !.at = at].at = at
             /\ [op[p] EXCEPT !.at = at].b = op[p].b /\ [op[p] EXCEPT !.at = at].gen = op[p].gen
  BY <1>1 DEF Operations
<1>6. Starts(p) => op[p].b \in B!Bridges /\ op[p].b \in Nat /\ id[op[p].b] \in BridgeIds \cup {0}
  <2>1. Starts(p) => op[p].b \in 1..made
    BY <1>1 DEF KnowsItsBridge, Refreshes
  <2>2. id \in [B!Bridges -> BridgeIds \cup {0}]
    BY <1>1 DEF BridgeTypes
  <2> QED BY <1>2, <2>1, <2>2
<1>7. ASSUME NEW i \in BridgeIds, B!Reserve(p, i) PROVE LifeInv'
  <2>1. PICK next : next = [op[p] EXCEPT !.at = "listen"]
    OBVIOUS
  <2>2. Starts(p) /\ op' = [op EXCEPT ![p] = next]
        /\ UNCHANGED <<bridgeManifest, socket, state, pi, born, piGeneration, bridge, waiting, queue, cleaner, made>>
        /\ reserved' = [reserved EXCEPT ![i] = op[p].b] /\ id' = [id EXCEPT ![op[p].b] = i]
    BY <1>7, <2>1 DEF B!Reserve, B!Serialized, Starts
  <2>3. next \in Operations /\ next.at = "listen" /\ next.b = op[p].b /\ next.gen = op[p].gen
    BY <1>5, <2>1, <2>2 DEF Steps
  <2>4. BridgeTypes'
    BY <1>1, <1>6, <2>2, <2>3 DEF BridgeTypes
  <2> QED BY <1>4, <2>2, <2>3, <2>4
<1>8. CASE B!Listen(p)
  <2>1. PICK next : next = [op[p] EXCEPT !.at = "publish"]
    OBVIOUS
  <2>2. Starts(p) /\ op' = [op EXCEPT ![p] = next]
        /\ UNCHANGED <<reserved, bridgeManifest, state, pi, id, born, piGeneration, bridge, waiting, queue, cleaner, made>>
        /\ socket' = [socket EXCEPT ![id[op[p].b]] = op[p].b]
    BY <1>8, <2>1 DEF B!Listen, B!Serialized, B!fixed, Starts
  <2>3. next \in Operations /\ next.at = "publish" /\ next.b = op[p].b /\ next.gen = op[p].gen
    BY <1>5, <2>1, <2>2 DEF Steps
  <2>4. BridgeTypes'
    BY <1>1, <1>6, <2>2, <2>3 DEF BridgeTypes
  <2> QED BY <1>4, <2>2, <2>3, <2>4
<1>9. CASE B!Publish(p)
  <2>1. PICK next : next = [op[p] EXCEPT !.at = "started"]
    OBVIOUS
  <2>2. Starts(p) /\ op' = [op EXCEPT ![p] = next]
        /\ UNCHANGED <<socket, pi, id, born, piGeneration, bridge, waiting, queue, cleaner, made>>
        /\ reserved' = [reserved EXCEPT ![id[op[p].b]] = 0]
        /\ bridgeManifest' = [bridgeManifest EXCEPT ![id[op[p].b]] = op[p].b]
        /\ state' = [state EXCEPT ![op[p].b] = "running"]
    BY <1>9, <2>1 DEF B!Publish, B!Serialized, B!fixed, Starts
  <2>3. next \in Operations /\ next.at = "started" /\ next.b = op[p].b /\ next.gen = op[p].gen
    BY <1>5, <2>1, <2>2 DEF Steps
  <2>4. BridgeTypes'
    <3>1. state' \in [B!Bridges -> Lives] /\ op' \in [Pis -> Operations]
      BY <1>1, <2>2, <2>3 DEF BridgeTypes, Lives
    <3>2. reserved' \in [BridgeIds -> Nat] /\ bridgeManifest' \in [BridgeIds -> Nat]
      BY <1>1, <1>6, <2>2 DEF BridgeTypes
    <3> QED BY <1>1, <2>2, <3>1, <3>2 DEF BridgeTypes
  <2> QED BY <1>4, <2>2, <2>3, <2>4
<1>10. CASE B!StartFails(p)
  <2>1. PICK next : next = [op[p] EXCEPT !.at = "failed"]
    OBVIOUS
  <2>2. Starts(p) /\ op' = [op EXCEPT ![p] = next]
        /\ UNCHANGED <<pi, id, born, piGeneration, bridge, waiting, queue, cleaner, made>>
        /\ reserved' = B!Unnamed(reserved, op[p].b) /\ socket' = B!Unnamed(socket, op[p].b)
        /\ bridgeManifest' \in {bridgeManifest, [bridgeManifest EXCEPT ![id[op[p].b]] = op[p].b]}
        /\ state' = [state EXCEPT ![op[p].b] = "stopped"]
    BY <1>10, <2>1 DEF B!StartFails, B!Serialized, B!fixed, Starts
  <2>3. next \in Operations /\ next.at = "failed" /\ next.b = op[p].b /\ next.gen = op[p].gen
    BY <1>5, <2>1, <2>2 DEF Steps
  <2>4. BridgeTypes'
    <3>1. state' \in [B!Bridges -> Lives] /\ op' \in [Pis -> Operations]
      BY <1>1, <2>2, <2>3 DEF BridgeTypes, Lives
    <3>2. reserved' \in [BridgeIds -> Nat] /\ socket' \in [BridgeIds -> Nat]
      BY <1>1, <2>2 DEF BridgeTypes, B!Unnamed
    <3>3. bridgeManifest' \in [BridgeIds -> Nat]
      BY <1>1, <1>6, <2>2 DEF BridgeTypes
    <3> QED BY <1>1, <2>2, <3>1, <3>2, <3>3 DEF BridgeTypes
  <2> QED BY <1>4, <2>2, <2>3, <2>4
<1> QED BY <1>3, <1>7, <1>8, <1>9, <1>10

(* What an operation does with a bridge that started, failed or stopped.   *)
LEMMA LifeOfEnds ==
  ASSUME SharedNamesAssumption, LifeInv, NEW p \in Pis, B!StopFailed(p) \/ B!Started(p) \/ B!Awaited(p)
  PROVE  LifeInv'
<1>1. BridgeTypes /\ op[p] \in Operations /\ (\A q \in Pis : KnowsItsBridge(q))
      /\ \A b \in B!Bridges : LivesInASession(b) /\ pi[b] \in Pis
  BY DEF LifeInv, BridgeTypes
<1>2. 1..made \subseteq B!Bridges /\ made \in Nat /\ BridgeIds \subseteq Nat
  BY <1>1 DEF BridgeTypes, B!Bridges, SharedNamesAssumption
<1>3. B!NoOp \in Operations /\ B!NoOp.at = "none"
  BY DEF B!NoOp, Operations, Steps
<1> DEFINE StopsOnly(c) == \A b \in B!Bridges :
              state'[b] = state[b] \/ (b = c /\ state[b] = "running" /\ state'[b] = "stopping")
<1>4. ASSUME NEW next \in Operations, op' = [op EXCEPT ![p] = next], BridgeTypes',
             next = B!NoOp \/ next.at \in {"stop", "create"},
             UNCHANGED <<pi, born, piGeneration, queue, made>>,
             NEW away, away # 0 => op[p].at \in {"failed", "started"} /\ away = op[p].b,
             bridge' = IF away # 0 /\ bridge[p] = away THEN [bridge EXCEPT ![p] = 0] ELSE bridge,
             next.at = "create" => bridge'[p] = 0,
             StopsOnly(away),
             away # 0 => away \in B!Bridges /\ state'[away] # "running",
             op[p].at = "started" /\ away = 0 => born[op[p].b] = piGeneration[p],
             ~Starts(p)
      PROVE  LifeInv'
  <2>1. /\ op'[p] = next /\ \A q \in Pis \ {p} : op'[q] = op[q] /\ bridge'[q] = bridge[q]
        /\ bridge'[p] = bridge[p] \/ (away # 0 /\ bridge[p] = away /\ bridge'[p] = 0)
    BY <1>1, <1>4 DEF BridgeTypes
  <2>2. away # 0 => pi[away] = p
    <3>1. KnowsItsBridge(p)
      BY <1>1
    <3> QED BY <1>4, <3>1 DEF KnowsItsBridge, Refreshes
  <2>3. ASSUME NEW q \in Pis PROVE KnowsItsBridge(q)'
    <3>1. CASE q = p
      <4>1. bridge'[p] # 0 => bridge'[p] \in 1..made /\ pi[bridge'[p]] = p
        BY <1>1, <2>1 DEF KnowsItsBridge
      <4> QED BY <1>3, <1>4, <2>1, <3>1, <4>1 DEF KnowsItsBridge, Refreshes, Starts
    <3>2. CASE q # p
      <4>1. op'[q] = op[q] /\ bridge'[q] = bridge[q] /\ KnowsItsBridge(q)
        BY <1>1, <2>1, <3>2
      <4>2. Starts(q) \/ Refreshes(q) \/ op[q].at = "failed" =>
                op[q].b \in B!Bridges /\ state'[op[q].b] = state[op[q].b]
        <5>1. Starts(q) \/ Refreshes(q) \/ op[q].at = "failed" => op[q].b \in 1..made /\ pi[op[q].b] = q
          BY <4>1 DEF KnowsItsBridge
        <5> QED BY <1>2, <1>4, <2>2, <3>2, <5>1
      <4> QED BY <1>4, <4>1, <4>2 DEF KnowsItsBridge, Refreshes, Starts
    <3> QED BY <3>1, <3>2
  <2>4. ASSUME NEW b \in B!Bridges PROVE LivesInASession(b)'
    <3>1. LivesInASession(b) /\ pi[b] \in Pis
      BY <1>1
    <3>2. (state'[b] = "unborn" <=> state[b] = "unborn") /\ (state'[b] = "starting" => state[b] = "starting")
          /\ (state'[b] = "running" => state[b] = "running" /\ (away # 0 => b # away))
      BY <1>4
    <3>3. state'[b] = "starting" => Starts(pi[b])' /\ op'[pi[b]].b = b
      <4>1. state'[b] = "starting" => Starts(pi[b]) /\ op[pi[b]].b = b /\ pi[b] # p
        BY <1>4, <3>1, <3>2 DEF LivesInASession
      <4> QED BY <1>4, <2>1, <3>1, <4>1 DEF Starts
    <3>4. ASSUME state'[b] = "running"
          PROVE  /\ bridge'[pi[b]] = b
                 /\ \/ born[b] = piGeneration[pi[b]]
                    \/ op'[pi[b]].at = "started" /\ op'[pi[b]].b = b
                    \/ EndsSession(queue[pi[b]])
      <4>1. /\ bridge[pi[b]] = b
            /\ \/ born[b] = piGeneration[pi[b]]
               \/ op[pi[b]].at = "started" /\ op[pi[b]].b = b
               \/ EndsSession(queue[pi[b]])
        BY <3>1, <3>2, <3>4 DEF LivesInASession
      <4>2. CASE pi[b] = p
        BY <1>4, <2>1, <3>2, <3>4, <4>1, <4>2
      <4>3. CASE pi[b] # p
        BY <2>1, <3>1, <4>1, <4>3
      <4> QED BY <4>2, <4>3
    <3> QED BY <1>4, <3>1, <3>2, <3>3, <3>4 DEF LivesInASession
  <2> QED BY <1>4, <2>3, <2>4 DEF LifeInv
<1>5. op[p].at \in {"failed", "started"} =>
          op[p].b \in B!Bridges /\ op[p].b # 0 /\ pi[op[p].b] = p /\ born[op[p].b] = op[p].gen
  <2>1. KnowsItsBridge(p)
    BY <1>1
  <2>2. op[p].at \in {"failed", "started"} =>
            op[p].b \in 1..made /\ pi[op[p].b] = p /\ born[op[p].b] = op[p].gen
    BY <2>1 DEF KnowsItsBridge, Refreshes
  <2> QED BY <1>2, <2>2
<1>6. CASE B!StopFailed(p)
  <2>1. /\ op[p].at = "failed" /\ B!Forgets(p, op[p].b) /\ op' = [op EXCEPT ![p] = B!NoOp]
        /\ socket' = B!Unnamed(socket, op[p].b) /\ reserved' = B!Unnamed(reserved, op[p].b)
        /\ UNCHANGED <<bridgeManifest, state, pi, id, born, piGeneration, waiting, queue, cleaner, made>>
    BY <1>6 DEF B!StopFailed, B!Serialized, B!fixed
  <2>2. state[op[p].b] = "stopped"
    BY <1>1, <2>1 DEF KnowsItsBridge, Refreshes
  <2>3. BridgeTypes'
    <3>1. reserved' \in [BridgeIds -> Nat] /\ socket' \in [BridgeIds -> Nat]
      BY <1>1, <2>1 DEF BridgeTypes, B!Unnamed
    <3>2. bridge' \in [Pis -> Nat] /\ op' \in [Pis -> Operations]
      BY <1>1, <1>3, <2>1 DEF BridgeTypes, B!Forgets
    <3> QED BY <1>1, <2>1, <3>1, <3>2 DEF BridgeTypes
  <2>4. bridge' = IF op[p].b # 0 /\ bridge[p] = op[p].b THEN [bridge EXCEPT ![p] = 0] ELSE bridge
    BY <1>5, <2>1 DEF B!Forgets
  <2>5. ~Starts(p)
    BY <2>1 DEF Starts
  <2> QED BY <1>3, <1>4, <1>5, <2>1, <2>2, <2>3, <2>4, <2>5
<1>7. CASE B!Started(p) /\ B!Current(p, op[p].gen)
  <2>1. /\ op[p].at = "started" /\ op' = [op EXCEPT ![p] = B!NoOp]
        /\ UNCHANGED <<reserved, bridgeManifest, socket, state, pi, id, born, piGeneration, bridge, waiting,
                       queue, cleaner, made>>
    BY <1>7 DEF B!Started, B!Serialized, B!registry, B!fixed
  <2>2. BridgeTypes'
    BY <1>1, <1>3, <2>1 DEF BridgeTypes
  <2>3. born[op[p].b] = piGeneration[p]
    BY <1>5, <1>7, <2>1 DEF B!Current
  <2>4. ~Starts(p)
    BY <2>1 DEF Starts
  <2>5. PICK none : none = 0
    OBVIOUS
  <2> QED BY <1>3, <1>4, <2>1, <2>2, <2>3, <2>4, <2>5
<1>8. CASE B!Started(p) /\ ~B!Current(p, op[p].gen)
  <2>1. PICK next : next = [op[p] EXCEPT !.at = "stop"]
    OBVIOUS
  <2>2. /\ op[p].at = "started" /\ op' = [op EXCEPT ![p] = next]
        /\ B!Forgets(p, op[p].b) /\ state' = B!Stopping(op[p].b)
        /\ UNCHANGED <<reserved, bridgeManifest, socket, pi, id, born, piGeneration, waiting, queue, cleaner, made>>
    BY <1>8, <2>1 DEF B!Started, B!Serialized, B!registry, B!fixed
  <2>3. next \in Operations /\ next.at = "stop"
    BY <1>1, <2>1 DEF Operations, Steps
  <2>4. /\ state' \in [B!Bridges -> Lives]
        /\ \A b \in B!Bridges : state'[b] = state[b] \/ (b = op[p].b /\ state[b] = "running" /\ state'[b] = "stopping")
        /\ state'[op[p].b] # "running"
    <3>1. PICK c \in B!Bridges : c = op[p].b
      BY <1>5, <2>2
    <3>2. \/ state' = state /\ state[c] # "running"
          \/ state[c] = "running" /\ state' = [state EXCEPT ![c] = "stopping"]
      BY <2>2, <3>1 DEF B!Stopping
    <3>3. "stopping" \in Lives /\ state \in [B!Bridges -> Lives]
      BY <1>1 DEF BridgeTypes, Lives
    <3> QED BY <3>1, <3>2, <3>3
  <2>5. BridgeTypes'
    <3>1. bridge' \in [Pis -> Nat] /\ op' \in [Pis -> Operations]
      BY <1>1, <2>2, <2>3 DEF BridgeTypes, B!Forgets
    <3> QED BY <1>1, <2>2, <2>4, <3>1 DEF BridgeTypes
  <2>6. bridge' = IF op[p].b # 0 /\ bridge[p] = op[p].b THEN [bridge EXCEPT ![p] = 0] ELSE bridge
    BY <1>5, <2>2 DEF B!Forgets
  <2>7. ~Starts(p)
    BY <2>2 DEF Starts
  <2>8. PICK away : away = op[p].b
    OBVIOUS
  <2>9. away \in B!Bridges /\ away # 0 /\ state'[away] # "running"
    BY <1>5, <2>2, <2>4, <2>8
  <2>10. bridge' = IF away # 0 /\ bridge[p] = away THEN [bridge EXCEPT ![p] = 0] ELSE bridge
    BY <2>6, <2>8
  <2>11. StopsOnly(away)
    BY <2>4, <2>8
  <2>12. op[p].at \in {"failed", "started"} /\ away = op[p].b
         /\ UNCHANGED <<pi, born, piGeneration, queue, made>> /\ op' = [op EXCEPT ![p] = next]
         /\ next.at # "create"
    BY <2>2, <2>3, <2>8
  <2> HIDE DEF StopsOnly
  <2> QED BY <1>4, <2>3, <2>5, <2>7, <2>9, <2>10, <2>11, <2>12
<1>9. CASE B!Awaited(p)
  <2>1. PICK next : next = IF op[p].at = "stop" THEN B!NoOp ELSE [op[p] EXCEPT !.at = "create", !.b = 0]
    OBVIOUS
  <2>2. /\ op[p].at \in {"stop", "stop stale"} /\ op' = [op EXCEPT ![p] = next]
        /\ UNCHANGED <<reserved, bridgeManifest, socket, state, pi, id, born, piGeneration, bridge, waiting,
                       queue, cleaner, made>>
    BY <1>9, <2>1 DEF B!Awaited, B!Serialized, B!registry, B!fixed
  <2>3. next \in Operations /\ (next = B!NoOp \/ (next.at = "create" /\ op[p].at = "stop stale"))
    BY <1>1, <1>3, <2>1, <2>2 DEF Operations, Steps
  <2>4. BridgeTypes'
    BY <1>1, <2>2, <2>3 DEF BridgeTypes
  <2>5. next.at = "create" => bridge'[p] = 0
    BY <1>1, <1>3, <2>2, <2>3 DEF KnowsItsBridge, Refreshes
  <2>6. ~Starts(p)
    BY <2>2 DEF Starts
  <2>7. PICK none : none = 0
    OBVIOUS
  <2> QED BY <1>4, <2>2, <2>3, <2>4, <2>5, <2>6, <2>7
<1> QED BY <1>6, <1>7, <1>8, <1>9

(* A refresh: what it writes is the manifest.                              *)
LEMMA LifeOfRefreshes ==
  ASSUME SharedNamesAssumption, LifeInv, NEW p \in Pis,
         B!ReadManifest(p) \/ B!RenameManifest(p) \/ B!RefreshFails(p)
  PROVE  LifeInv'
<1>1. BridgeTypes /\ op[p] \in Operations /\ (\A q \in Pis : KnowsItsBridge(q))
      /\ \A b \in B!Bridges : LivesInASession(b) /\ pi[b] \in Pis
  BY DEF LifeInv, BridgeTypes
<1>2. PICK renaming : renaming = [op[p] EXCEPT !.at = "rename"]
  OBVIOUS
<1>3. PICK next \in {B!NoOp, renaming} :
          /\ op' = [op EXCEPT ![p] = next] /\ Refreshes(p)
          /\ UNCHANGED <<reserved, socket, state, pi, id, born, piGeneration, bridge, waiting, queue, cleaner, made>>
          /\ bridgeManifest' \in {bridgeManifest, [bridgeManifest EXCEPT ![id[op[p].b]] = op[p].b]}
  BY <1>2 DEF B!ReadManifest, B!RenameManifest, B!RefreshFails, B!Serialized, B!registry, B!fixed, Refreshes
<1>4. /\ next \in Operations
      /\ \/ next = B!NoOp /\ next.at = "none"
         \/ next.at = "rename" /\ next.b = op[p].b
  <2>1. B!NoOp \in Operations /\ B!NoOp.at = "none"
    BY DEF B!NoOp, Operations, Steps
  <2>2. renaming \in Operations /\ renaming.at = "rename" /\ renaming.b = op[p].b
    BY <1>1, <1>2 DEF Operations, Steps
  <2>3. CASE next = B!NoOp
    BY <2>1, <2>3
  <2>4. CASE next = renaming
    BY <2>2, <2>4
  <2> QED BY <1>3, <2>3, <2>4
<1>5. op'[p] = next /\ \A q \in Pis \ {p} : op'[q] = op[q]
  BY <1>1, <1>3 DEF BridgeTypes
<1>6. BridgeTypes'
  <2>1. op' \in [Pis -> Operations]
    BY <1>1, <1>3, <1>4 DEF BridgeTypes
  <2>2. op[p].b \in Nat
    BY <1>1 DEF Operations
  <2>3. bridgeManifest' \in [BridgeIds -> Nat]
    BY <1>1, <1>3, <2>2 DEF BridgeTypes
  <2> QED BY <1>1, <1>3, <2>1, <2>3 DEF BridgeTypes
<1>7. ASSUME NEW q \in Pis PROVE KnowsItsBridge(q)'
  <2>1. KnowsItsBridge(q) /\ UNCHANGED <<state, pi, born, bridge, made>>
    BY <1>1, <1>3
  <2>2. CASE q = p /\ next = B!NoOp
    <3>1. op'[q] = B!NoOp /\ op'[q].at = "none"
      BY <1>4, <1>5, <2>2 DEF B!NoOp
    <3> QED BY <2>1, <3>1 DEF KnowsItsBridge, Refreshes, Starts
  <2>3. CASE q = p /\ next # B!NoOp
    <3>1. op'[q].at = "rename" /\ op'[q].b = op[q].b /\ Refreshes(q)
      BY <1>3, <1>4, <1>5, <2>3
    <3> QED BY <2>1, <3>1 DEF KnowsItsBridge, Refreshes, Starts
  <2>4. CASE q # p
    BY <1>5, <2>1, <2>4 DEF KnowsItsBridge, Refreshes, Starts
  <2> QED BY <2>2, <2>3, <2>4
<1>8. ASSUME NEW b \in B!Bridges PROVE LivesInASession(b)'
  <2>1. pi[b] = p => ~Starts(p) /\ op[p].at # "started"
    BY <1>3 DEF Starts, Refreshes
  <2> QED BY <1>1, <1>3, <1>5, <2>1 DEF LivesInASession, Starts
<1> QED BY <1>6, <1>7, <1>8 DEF LifeInv

(* A bridge is finished with by a Neovim, and stops.                       *)
LEMMA LifeOfFinish ==
  ASSUME SharedNamesAssumption, LifeInv, NEW c \in B!Bridges, B!Finish(c) \/ B!Stops(c) \/ B!StopBreaks(c)
  PROVE  LifeInv'
<1>1. BridgeTypes /\ (\A q \in Pis : KnowsItsBridge(q))
      /\ \A b \in B!Bridges : LivesInASession(b) /\ pi[b] \in Pis
  BY DEF LifeInv, BridgeTypes
<1>2. 1..made \subseteq B!Bridges /\ made \in Nat
  BY <1>1 DEF BridgeTypes, B!Bridges, SharedNamesAssumption
<1>3. PICK now \in {"stopping", "stopped"} :
          /\ state' = [state EXCEPT ![c] = now] /\ state[c] \in {"running", "stopping"}
          /\ UNCHANGED <<pi, born, piGeneration, queue, op, made>>
          /\ bridge' = bridge \/ B!Forgets(pi[c], c)
  <2>1. CASE B!Finish(c)
    <3>1. state' = [state EXCEPT ![c] = "stopping"] /\ state[c] = "running"
          /\ UNCHANGED <<pi, born, piGeneration, queue, op, made, bridge>>
      BY <2>1 DEF B!Finish, B!Stopping, B!fixed, B!extension
    <3> QED BY <3>1
  <2>2. CASE B!Stops(c) \/ B!StopBreaks(c)
    <3>1. state' = [state EXCEPT ![c] = "stopped"] /\ state[c] = "stopping" /\ B!Forgets(pi[c], c)
          /\ UNCHANGED <<pi, born, piGeneration, queue, op, made>>
      BY <2>2 DEF B!Stops, B!StopBreaks, B!fixed
    <3> QED BY <3>1
  <2> QED BY <2>1, <2>2
<1>4. /\ state' \in [B!Bridges -> Lives] /\ state'[c] = now
      /\ \A b \in B!Bridges \ {c} : state'[b] = state[b]
  BY <1>1, <1>3 DEF BridgeTypes, Lives
<1>5. /\ bridge' \in [Pis -> Nat]
      /\ \A q \in Pis : bridge'[q] = bridge[q] \/ (bridge[q] = c /\ q = pi[c] /\ bridge'[q] = 0)
      /\ \A q \in Pis : bridge[q] = 0 => bridge'[q] = 0
  <2>1. pi[c] \in Pis /\ bridge \in [Pis -> Nat]
    BY <1>1 DEF BridgeTypes
  <2> QED BY <1>3, <2>1 DEF B!Forgets
<1>6. BridgeTypes'
  <2>1. socket' \in [BridgeIds -> Nat] /\ bridgeManifest' \in [BridgeIds -> Nat]
        /\ UNCHANGED <<reserved, id, waiting, cleaner>>
    <3>1. CASE B!Finish(c)
      BY <1>1, <3>1 DEF B!Finish, B!registry, B!fixed, B!extension, BridgeTypes
    <3>2. CASE B!Stops(c)
      BY <1>1, <3>2 DEF B!Stops, B!Without, B!fixed, BridgeTypes
    <3>3. CASE B!StopBreaks(c)
      <4>1. socket \in [BridgeIds -> Nat] /\ B!Without(socket, c) \in [BridgeIds -> Nat]
        BY <1>1 DEF B!Without, BridgeTypes
      <4>2. socket' \in {socket, B!Without(socket, c)} /\ UNCHANGED <<bridgeManifest, reserved, id, waiting, cleaner>>
        BY <3>3 DEF B!StopBreaks, B!fixed
      <4> QED BY <1>1, <4>1, <4>2 DEF BridgeTypes
    <3> QED BY <3>1, <3>2, <3>3
  <2> QED BY <1>1, <1>3, <1>4, <1>5, <2>1 DEF BridgeTypes
<1>7. ASSUME NEW q \in Pis PROVE KnowsItsBridge(q)'
  <2>1. KnowsItsBridge(q) /\ op'[q] = op[q] /\ UNCHANGED <<pi, born, made>>
    BY <1>1, <1>3
  <2>2. Starts(q) \/ op[q].at = "failed" => op[q].b \in B!Bridges /\ op[q].b # c
    BY <1>2, <1>3, <2>1 DEF KnowsItsBridge, Refreshes
  <2>3. Starts(q) \/ op[q].at = "failed" => state'[op[q].b] = state[op[q].b] /\ bridge'[q] = bridge[q]
    BY <1>4, <1>5, <2>1, <2>2 DEF KnowsItsBridge, Refreshes
  <2>4. Refreshes(q) => op[q].b \in B!Bridges /\ state'[op[q].b] \in {"running", "stopping", "stopped"}
    BY <1>2, <1>3, <1>4, <2>1 DEF KnowsItsBridge
  <2> QED BY <1>5, <2>1, <2>3, <2>4 DEF KnowsItsBridge, Refreshes, Starts
<1>8. ASSUME NEW b \in B!Bridges PROVE LivesInASession(b)'
  <2>1. LivesInASession(b) /\ pi[b] \in Pis
    BY <1>1
  <2>2. CASE b = c
    BY <1>3, <1>4, <2>1, <2>2 DEF LivesInASession
  <2>3. CASE b # c
    <3>1. state'[b] = state[b] /\ (bridge[pi[b]] = b => bridge'[pi[b]] = b)
      BY <1>4, <1>5, <2>1, <2>3
    <3> QED BY <1>3, <2>1, <3>1 DEF LivesInASession, Starts
  <2> QED BY <2>2, <2>3
<1> QED BY <1>6, <1>7, <1>8 DEF LifeInv

(* A Neovim that removes a stale locator touches the registry only.        *)
LEMMA LifeOfCleaners ==
  ASSUME SharedNamesAssumption, LifeInv, NEW n \in Neovims,
         B!RemoveStaleSocket(n) \/ B!RemoveStaleManifest(n) \/ \E i \in BridgeIds : B!LookUp(n, i)
  PROVE  LifeInv'
<1>1. BridgeTypes /\ cleaner[n] \in Cleanings
  BY DEF LifeInv, BridgeTypes
<1>2. UNCHANGED <<reserved, state, pi, id, born, piGeneration, bridge, waiting, queue, op, made>>
  BY DEF B!RemoveStaleSocket, B!RemoveStaleManifest, B!LookUp, B!registry, B!fixed, B!extension
<1>3. socket' \in [BridgeIds -> Nat] /\ bridgeManifest' \in [BridgeIds -> Nat]
  <2>1. socket' = socket \/ socket' = [socket EXCEPT ![cleaner[n].id] = 0]
    BY DEF B!RemoveStaleSocket, B!RemoveStaleManifest, B!LookUp, B!registry
  <2>2. bridgeManifest' = bridgeManifest \/ bridgeManifest' = [bridgeManifest EXCEPT ![cleaner[n].id] = 0]
    BY DEF B!RemoveStaleSocket, B!RemoveStaleManifest, B!LookUp, B!registry
  <2>3. socket \in [BridgeIds -> Nat] /\ bridgeManifest \in [BridgeIds -> Nat]
    BY <1>1 DEF BridgeTypes
  <2>4. socket' \in [BridgeIds -> Nat]
    BY <2>1, <2>3
  <2>5. bridgeManifest' \in [BridgeIds -> Nat]
    BY <2>2, <2>3
  <2> QED BY <2>4, <2>5
<1>4. cleaner' \in [Neovims -> Cleanings]
  <2>1. \E next \in Cleanings : cleaner' = [cleaner EXCEPT ![n] = next]
    <3>1. B!NotCleaning \in Cleanings
      BY DEF B!NotCleaning, Cleanings
    <3>2. ASSUME NEW i \in BridgeIds, B!LookUp(n, i)
          PROVE  \E next \in Cleanings : cleaner' = [cleaner EXCEPT ![n] = next]
      <4>1. i \in Nat /\ bridgeManifest[i] \in Nat
        BY <1>1 DEF BridgeTypes, SharedNamesAssumption
      <4>2. PICK next : next = [at |-> "socket", id |-> i, b |-> bridgeManifest[i]]
        OBVIOUS
      <4>3. cleaner' = [cleaner EXCEPT ![n] = next]
        BY <3>2, <4>2 DEF B!LookUp, B!Cleans
      <4> QED BY <4>1, <4>2, <4>3 DEF Cleanings
    <3>3. ASSUME B!RemoveStaleSocket(n)
          PROVE  \E next \in Cleanings : cleaner' = [cleaner EXCEPT ![n] = next]
      <4>1. PICK next : next = [cleaner[n] EXCEPT !.at = "manifest"]
        OBVIOUS
      <4>2. next \in Cleanings
        BY <1>1, <4>1 DEF Cleanings
      <4>3. cleaner' = [cleaner EXCEPT ![n] = next] \/ cleaner' = [cleaner EXCEPT ![n] = B!NotCleaning]
        BY <3>3, <4>1 DEF B!RemoveStaleSocket, B!Cleans
      <4> QED BY <3>1, <4>2, <4>3
    <3>4. ASSUME B!RemoveStaleManifest(n)
          PROVE  \E next \in Cleanings : cleaner' = [cleaner EXCEPT ![n] = next]
      BY <3>1, <3>4 DEF B!RemoveStaleManifest, B!Cleans
    <3> QED BY <3>2, <3>3, <3>4
  <2> QED BY <1>1, <2>1 DEF BridgeTypes
<1>5. BridgeTypes'
  BY <1>1, <1>2, <1>3, <1>4 DEF BridgeTypes
<1> QED BY <1>2, <1>5, LifeUnmoved

LEMMA LifeNext ==
  ASSUME SharedNamesAssumption, LifeInv, [B!Next]_bridges
  PROVE  LifeInv'
<1>1. ASSUME NEW p \in Pis, B!Operation(p) PROVE LifeInv'
  BY <1>1, LifeOfQueue, LifeOfRefreshes, LifeOfStarts, LifeOfEnds DEF B!Operation
<1>2. ASSUME NEW p \in Pis, \/ B!Command(p) \/ B!SessionShutdown(p) \/ B!Crash(p)
                            \/ \E gen \in waiting[p] : B!PiIsIdle(p, gen)
      PROVE  LifeInv'
  BY <1>2, LifeOfSessions
<1>3. ASSUME NEW b \in B!Bridges, B!Finish(b) \/ B!Stops(b) \/ B!StopBreaks(b) PROVE LifeInv'
  BY <1>3, LifeOfFinish
<1>4. ASSUME NEW n \in Neovims,
             B!RemoveStaleSocket(n) \/ B!RemoveStaleManifest(n) \/ \E i \in BridgeIds : B!LookUp(n, i)
      PROVE  LifeInv'
  BY <1>4, LifeOfCleaners
<1>5. CASE UNCHANGED bridges
  <2>1. UNCHANGED <<reserved, bridgeManifest, socket, state, pi, id, born, piGeneration, bridge, waiting, queue,
                    op, cleaner, made>>
    BY <1>5 DEF bridges
  <2>2. BridgeTypes'
    BY <2>1 DEF LifeInv, BridgeTypes
  <2> QED BY <2>1, <2>2, LifeUnmoved
<1> QED BY <1>1, <1>2, <1>3, <1>4, <1>5 DEF B!Next

LEMMA LifeMeans ==
  ASSUME LifeInv
  PROVE  B!NothingOutlivesItsSession
<1> SUFFICES ASSUME NEW b \in B!Bridges, state[b] \in {"starting", "running"},
                    op[pi[b]] = B!NoOp, queue[pi[b]] = <<>>
             PROVE  bridge[pi[b]] = b /\ born[b] = piGeneration[pi[b]]
  BY DEF B!NothingOutlivesItsSession
<1>1. op[pi[b]].at = "none" /\ LivesInASession(b)
  BY DEF B!NoOp, LifeInv
<1>2. ~EndsSession(queue[pi[b]])
  BY QueueFacts DEF EndsSession
<1> QED BY <1>1, <1>2 DEF LivesInASession, Starts

(* No bridge outlives the session that it was started for, for every       *)
(* number of Pi processes and whoever overlaps with whom (index.ts,        *)
(* startOrRefresh and the session_shutdown handler).                       *)
THEOREM BridgesEndWithTheirSession == B!Spec => []B!NothingOutlivesItsSession
<1>1. B!Init => LifeInv
  BY LifeInit, SharedNamesAssumption
<1>2. LifeInv /\ [B!Next]_B!vars => LifeInv'
  BY LifeNext, SharedNamesAssumption
     DEF B!vars, bridges, B!registry, B!fixed, B!extension
<1>3. LifeInv => B!NothingOutlivesItsSession
  BY LifeMeans
<1> QED BY <1>1, <1>2, <1>3, PTL DEF B!Spec

-----------------------------------------------------------------------------
(* The registry, with one Pi process: with two of them the second removal  *)
(* of a failed start, which is by name, takes a reservation or a socket    *)
(* from whoever has taken the id in between, and so does the rename of a   *)
(* refresh whose bridge has stopped with the manifest (README, section 4). *)

OneProcess == \A p, q \in Pis : p = q

(* A file is named by the id of a bridge that is, or was, behind it.       *)
Listens(b) == op[pi[b]].b = b /\ op[pi[b]].at \in {"listen", "publish"}

(* What a bridge leaves: it has not stopped, or not in an orderly way.     *)
Left(b) == state[b] \in {"running", "stopping", "lost"} \/ (state[b] = "stopped" /\ b \in untidy)

FilesAreOwned(i) ==
  /\ reserved[i] # 0 => /\ reserved[i] \in 1..made /\ id[reserved[i]] = i
                        /\ state[reserved[i]] = "lost" \/ Listens(reserved[i])
  /\ bridgeManifest[i] # 0 => /\ bridgeManifest[i] \in 1..made /\ id[bridgeManifest[i]] = i
                              /\ Left(bridgeManifest[i])
  /\ socket[i] # 0 => /\ socket[i] \in 1..made /\ id[socket[i]] = i
                      /\ state[socket[i]] = "starting" \/ Left(socket[i])

StartOwnsFiles(p) ==
  /\ op[p].at = "reserve" => id[op[p].b] = 0
  /\ op[p].at \in {"listen", "publish"} =>
        /\ id[op[p].b] \in BridgeIds /\ reserved[id[op[p].b]] = op[p].b
        /\ bridgeManifest[id[op[p].b]] = 0
  /\ op[p].at = "publish" => socket[id[op[p].b]] = op[p].b
  /\ Refreshes(p) => id[op[p].b] \in BridgeIds

RunsUnderItsId(b) ==
  /\ state[b] = "unborn" => id[b] = 0
  /\ state[b] = "running" => id[b] \in BridgeIds /\ bridgeManifest[id[b]] = b /\ socket[id[b]] = b

CleansTheLost(n) ==
  cleaner[n].at # "none" =>
      cleaner[n].id \in BridgeIds /\ cleaner[n].b \in 1..made /\ state[cleaner[n].b] = "lost"

RegistryInv ==
  /\ \A i \in BridgeIds : FilesAreOwned(i)
  /\ \A p \in Pis : StartOwnsFiles(p)
  /\ \A b \in B!Bridges : RunsUnderItsId(b)
  /\ \A n \in Neovims : CleansTheLost(n)

LEMMA RegistryInit ==
  ASSUME SharedNamesAssumption, B!Init
  PROVE  RegistryInv
<1>1. B!NoOp.at = "none" /\ B!NotCleaning.at = "none"
  BY DEF B!NoOp, B!NotCleaning
<1>2. (\A i \in BridgeIds : FilesAreOwned(i)) /\ \A b \in B!Bridges : RunsUnderItsId(b)
  BY DEF B!Init, FilesAreOwned, RunsUnderItsId
<1>3. (\A p \in Pis : StartOwnsFiles(p)) /\ \A n \in Neovims : CleansTheLost(n)
  BY <1>1 DEF B!Init, StartOwnsFiles, Refreshes, CleansTheLost
<1> QED BY <1>2, <1>3 DEF RegistryInv

LEMMA NumbersOfBridges ==
  ASSUME SharedNamesAssumption, LifeInv
  PROVE  /\ BridgeTypes /\ made \in Nat /\ 1..made \subseteq B!Bridges
         /\ 0 \notin BridgeIds /\ 0 \notin B!Bridges
<1>1. BridgeTypes
  BY DEF LifeInv
<1>2. 0 \notin BridgeIds /\ 0 \notin B!Bridges
  BY DEF SharedNamesAssumption, B!Bridges
<1>3. made \in Nat /\ 1..made \subseteq B!Bridges
  BY <1>1 DEF BridgeTypes, B!Bridges, SharedNamesAssumption
<1> QED BY <1>1, <1>2, <1>3

(* What both invariants say of the operation of the one process.           *)
LEMMA OneStart ==
  ASSUME SharedNamesAssumption, OneProcess, LifeInv, RegistryInv, NEW p \in Pis
  PROVE  /\ BridgeTypes /\ made \in Nat /\ 0 \notin BridgeIds /\ 0 \notin B!Bridges /\ 1..made \subseteq B!Bridges
         /\ KnowsItsBridge(p) /\ StartOwnsFiles(p)
         /\ \A b \in B!Bridges : pi[b] = p /\ LivesInASession(b) /\ RunsUnderItsId(b)
         /\ \A i \in BridgeIds : FilesAreOwned(i)
         /\ Starts(p) \/ op[p].at = "failed" =>
               op[p].b \in B!Bridges /\ \A b \in B!Bridges : state[b] # "running"
         /\ Refreshes(p) => /\ op[p].b \in 1..made /\ id[op[p].b] \in BridgeIds
                            /\ state[op[p].b] \in {"running", "stopping", "stopped"}
                            /\ \A b \in B!Bridges : state[b] = "running" => b = op[p].b
<1>1. /\ BridgeTypes /\ made \in Nat /\ 0 \notin BridgeIds /\ 0 \notin B!Bridges /\ 1..made \subseteq B!Bridges
  BY NumbersOfBridges
<1>2. KnowsItsBridge(p) /\ StartOwnsFiles(p)
  BY DEF LifeInv, RegistryInv
<1>3. \A b \in B!Bridges : pi[b] = p /\ LivesInASession(b) /\ RunsUnderItsId(b)
  BY DEF LifeInv, RegistryInv, BridgeTypes, OneProcess
<1>4. Starts(p) \/ op[p].at = "failed" =>
          op[p].b \in B!Bridges /\ \A b \in B!Bridges : state[b] # "running"
  <2>1. Starts(p) \/ op[p].at = "failed" =>
            op[p].b \in B!Bridges /\ bridge[p] = op[p].b /\ state[op[p].b] \in {"starting", "stopped"}
    BY <1>1, <1>2 DEF KnowsItsBridge, Refreshes
  <2> QED BY <1>3, <2>1 DEF LivesInASession
<1>5. ASSUME Refreshes(p)
      PROVE  /\ op[p].b \in 1..made /\ id[op[p].b] \in BridgeIds
             /\ state[op[p].b] \in {"running", "stopping", "stopped"}
             /\ \A b \in B!Bridges : state[b] = "running" => b = op[p].b
  <2>1. /\ op[p].b \in 1..made /\ bridge[p] \in {0, op[p].b} /\ id[op[p].b] \in BridgeIds
        /\ state[op[p].b] \in {"running", "stopping", "stopped"}
    BY <1>2, <1>5 DEF KnowsItsBridge, StartOwnsFiles
  <2> QED BY <1>1, <1>3, <2>1 DEF LivesInASession
<1> QED BY <1>1, <1>2, <1>3, <1>4, <1>5 DEF RegistryInv

(* Steps that leave the files alone, start no bridge and end no start.     *)
LEMMA RegistryUntouched ==
  ASSUME SharedNamesAssumption, LifeInv, RegistryInv,
         UNCHANGED <<reserved, bridgeManifest, socket, pi, id, cleaner, made, untidy>>,
         \A b \in B!Bridges : state'[b] = state[b] \/ (state[b] = "running" /\ state'[b] = "stopping"),
         \A p \in Pis : \/ op'[p] = op[p]
                        \/ ~(Starts(p) \/ Starts(p)') /\ (Refreshes(p)' => id[op'[p].b] \in BridgeIds)
  PROVE  RegistryInv'
<1>1. BridgeTypes /\ 1..made \subseteq B!Bridges
  BY NumbersOfBridges
<1>2. ASSUME NEW i \in BridgeIds PROVE FilesAreOwned(i)'
  <2>1. FilesAreOwned(i)
    BY DEF RegistryInv
  <2>2. reserved[i] # 0 => pi[reserved[i]] \in Pis /\ state'[reserved[i]] \in {state[reserved[i]], "stopping"}
                           /\ (state[reserved[i]] = "lost" => state'[reserved[i]] = "lost")
    BY <1>1, <2>1 DEF FilesAreOwned, BridgeTypes
  <2>3. reserved[i] # 0 /\ Listens(reserved[i]) => Listens(reserved[i])'
    BY <2>2 DEF Listens, Starts
  <2>4. bridgeManifest[i] # 0 => Left(bridgeManifest[i])'
    BY <1>1, <2>1 DEF FilesAreOwned, Left
  <2>5. socket[i] # 0 => state'[socket[i]] = "starting" \/ Left(socket[i])'
    BY <1>1, <2>1 DEF FilesAreOwned, Left
  <2> QED BY <2>1, <2>2, <2>3, <2>4, <2>5 DEF FilesAreOwned
<1>3. ASSUME NEW p \in Pis PROVE StartOwnsFiles(p)'
  BY DEF RegistryInv, StartOwnsFiles, Starts, Refreshes
<1>4. ASSUME NEW b \in B!Bridges PROVE RunsUnderItsId(b)'
  BY DEF RegistryInv, RunsUnderItsId
<1>5. ASSUME NEW n \in Neovims PROVE CleansTheLost(n)'
  BY <1>1 DEF RegistryInv, CleansTheLost
<1> QED BY <1>2, <1>3, <1>4, <1>5 DEF RegistryInv

(* The start of a bridge, step by step: while it lasts no bridge runs.     *)
LEMMA RegistryCreate ==
  ASSUME SharedNamesAssumption, OneProcess, LifeInv, RegistryInv, NEW p \in Pis, B!Create(p)
  PROVE  RegistryInv'
<1>1. PICK c \in B!Bridges : c = made + 1
  BY NumbersOfBridges DEF B!Create, B!Bridges, SharedNamesAssumption
<1>2. /\ UNCHANGED <<reserved, bridgeManifest, socket, id, cleaner, untidy>>
      /\ made' = c /\ state' = [state EXCEPT ![c] = "starting"]
      /\ op' = [op EXCEPT ![p] = [op[p] EXCEPT !.at = "reserve", !.b = c]]
      /\ op[p].at = "create"
  BY <1>1 DEF B!Create, B!Serialized, B!registry
<1>3. op'[p].at = "reserve" /\ op'[p].b = c
  BY <1>2 DEF LifeInv, BridgeTypes, Operations
<1>4. \A b \in 1..made : b \in B!Bridges /\ b \in 1..made' /\ state'[b] = state[b]
  <2>1. state \in [B!Bridges -> Lives]
    BY DEF LifeInv, BridgeTypes
  <2>2. \A b \in 1..made : b \in B!Bridges /\ b # c /\ b \in 1..made'
    BY <1>1, <1>2, NumbersOfBridges DEF B!Bridges
  <2> QED BY <1>2, <2>1, <2>2
<1>5. id[c] = 0
  BY <1>1, NumbersOfBridges DEF LifeInv, LivesInASession, RegistryInv, RunsUnderItsId
<1>6. ASSUME NEW i \in BridgeIds PROVE FilesAreOwned(i)'
  <2>1. FilesAreOwned(i) /\ pi[c] \in Pis
    BY DEF RegistryInv, LifeInv, BridgeTypes
  <2>2. reserved[i] # 0 => ~Listens(reserved[i])
    BY <1>2, <1>4, <2>1 DEF FilesAreOwned, Listens, OneProcess, LifeInv, BridgeTypes
  <2> QED BY <1>2, <1>4, <2>1, <2>2 DEF FilesAreOwned, Left
<1>7. ASSUME NEW q \in Pis PROVE StartOwnsFiles(q)'
  BY <1>2, <1>3, <1>5 DEF StartOwnsFiles, Refreshes, OneProcess
<1>8. ASSUME NEW b \in B!Bridges PROVE RunsUnderItsId(b)'
  <2>1. state'[b] = state[b] \/ (b = c /\ state'[b] = "starting")
    BY <1>2 DEF LifeInv, BridgeTypes
  <2> QED BY <1>2, <2>1 DEF RegistryInv, RunsUnderItsId
<1>9. ASSUME NEW n \in Neovims PROVE CleansTheLost(n)'
  BY <1>2, <1>4 DEF RegistryInv, CleansTheLost
<1> QED BY <1>6, <1>7, <1>8, <1>9 DEF RegistryInv

LEMMA RegistryReserve ==
  ASSUME SharedNamesAssumption, OneProcess, LifeInv, RegistryInv, NEW p \in Pis, NEW i \in BridgeIds,
         B!Reserve(p, i)
  PROVE  RegistryInv'
<1>1. PICK c : c = op[p].b
  OBVIOUS
<1>2. /\ UNCHANGED <<bridgeManifest, socket, state, pi, cleaner, made, untidy>>
      /\ reserved' = [reserved EXCEPT ![i] = c] /\ id' = [id EXCEPT ![c] = i]
      /\ op' = [op EXCEPT ![p] = [op[p] EXCEPT !.at = "listen"]]
      /\ op[p].at = "reserve" /\ reserved[i] = 0 /\ bridgeManifest[i] = 0 /\ Starts(p)
  BY <1>1 DEF B!Reserve, B!Serialized, Starts
<1>3. op'[p].at = "listen" /\ op'[p].b = c
  BY <1>1, <1>2 DEF LifeInv, BridgeTypes, Operations
<1>4. c \in B!Bridges /\ c \in 1..made /\ pi[c] = p /\ id[c] = 0 /\ c # 0
  <2>1. KnowsItsBridge(p) /\ StartOwnsFiles(p) /\ 1..made \subseteq B!Bridges /\ 0 \notin B!Bridges
    BY OneStart
  <2>2. c \in 1..made /\ pi[c] = p /\ id[c] = 0
    BY <1>1, <1>2, <2>1 DEF KnowsItsBridge, Refreshes, StartOwnsFiles
  <2> QED BY <2>1, <2>2
<1>5. reserved'[i] = c /\ id'[c] = i /\ (\A b \in B!Bridges \ {c} : id'[b] = id[b])
      /\ \A k \in BridgeIds \ {i} : reserved'[k] = reserved[k]
  BY <1>2, <1>4 DEF LifeInv, BridgeTypes
<1>6. ASSUME NEW k \in BridgeIds PROVE FilesAreOwned(k)'
  <2>1. FilesAreOwned(k) /\ k # 0
    BY NumbersOfBridges DEF RegistryInv
  <2>2. /\ bridgeManifest[k] # 0 => bridgeManifest[k] # c /\ bridgeManifest[k] \in B!Bridges
        /\ socket[k] # 0 => socket[k] # c /\ socket[k] \in B!Bridges
        /\ reserved[k] # 0 => reserved[k] # c /\ reserved[k] \in B!Bridges /\ ~Listens(reserved[k])
    BY <1>2, <1>4, <2>1, NumbersOfBridges, OneStart DEF FilesAreOwned, Listens
  <2>3. reserved'[k] # 0 => /\ reserved'[k] \in 1..made /\ id'[reserved'[k]] = k
                            /\ (state[reserved[k]] = "lost" \/ Listens(reserved[k]))'
    <3>1. CASE k = i
      <4>1. Listens(c)'
        BY <1>2, <1>3, <1>4 DEF Listens
      <4> QED BY <1>4, <1>5, <3>1, <4>1
    <3>2. CASE k # i
      BY <1>2, <1>5, <2>1, <2>2, <3>2 DEF FilesAreOwned
    <3> QED BY <3>1, <3>2
  <2> QED BY <1>2, <1>5, <2>1, <2>2, <2>3 DEF FilesAreOwned, Left
<1>7. ASSUME NEW q \in Pis PROVE StartOwnsFiles(q)'
  BY <1>2, <1>3, <1>5 DEF StartOwnsFiles, Refreshes, OneProcess
<1>8. ASSUME NEW b \in B!Bridges PROVE RunsUnderItsId(b)'
  <2>1. state[c] = "starting"
    BY <1>1, <1>2, OneStart DEF KnowsItsBridge, Refreshes
  <2> QED BY <1>2, <1>5, <2>1 DEF RegistryInv, RunsUnderItsId
<1>9. ASSUME NEW n \in Neovims PROVE CleansTheLost(n)'
  BY <1>2 DEF RegistryInv, CleansTheLost
<1> QED BY <1>6, <1>7, <1>8, <1>9 DEF RegistryInv

LEMMA RegistryListen ==
  ASSUME SharedNamesAssumption, OneProcess, LifeInv, RegistryInv, NEW p \in Pis, B!Listen(p)
  PROVE  RegistryInv'
<1>1. PICK c : c = op[p].b
  OBVIOUS
<1>2. /\ UNCHANGED <<reserved, bridgeManifest, id, state, pi, cleaner, made, untidy>>
      /\ socket' = [socket EXCEPT ![id[c]] = c]
      /\ op' = [op EXCEPT ![p] = [op[p] EXCEPT !.at = "publish"]]
      /\ op[p].at = "listen" /\ Starts(p)
  BY <1>1 DEF B!Listen, B!Serialized, B!fixed, Starts
<1>3. op'[p].at = "publish" /\ op'[p].b = c
  BY <1>1, <1>2 DEF LifeInv, BridgeTypes, Operations
<1>4. c \in 1..made /\ state[c] = "starting" /\ id[c] \in BridgeIds /\ reserved[id[c]] = c
      /\ bridgeManifest[id[c]] = 0
  BY <1>1, <1>2, OneStart DEF KnowsItsBridge, Refreshes, StartOwnsFiles
<1>5. socket'[id[c]] = c /\ \A k \in BridgeIds \ {id[c]} : socket'[k] = socket[k]
  BY <1>2, <1>4 DEF LifeInv, BridgeTypes
<1>6. ASSUME NEW k \in BridgeIds PROVE FilesAreOwned(k)'
  <2>1. FilesAreOwned(k)
    BY DEF RegistryInv
  <2>2. \A b \in 1..made : Listens(b) => Listens(b)'
    BY <1>1, <1>2, <1>3, OneStart DEF Listens
  <2> QED BY <1>2, <1>4, <1>5, <2>1, <2>2 DEF FilesAreOwned, Left
<1>7. ASSUME NEW q \in Pis PROVE StartOwnsFiles(q)'
  BY <1>2, <1>3, <1>4, <1>5 DEF StartOwnsFiles, Refreshes, OneProcess
<1>8. ASSUME NEW b \in B!Bridges PROVE RunsUnderItsId(b)'
  BY <1>2, OneStart DEF RunsUnderItsId
<1>9. ASSUME NEW n \in Neovims PROVE CleansTheLost(n)'
  BY <1>2 DEF RegistryInv, CleansTheLost
<1> QED BY <1>6, <1>7, <1>8, <1>9 DEF RegistryInv

LEMMA RegistryPublish ==
  ASSUME SharedNamesAssumption, OneProcess, LifeInv, RegistryInv, NEW p \in Pis, B!Publish(p)
  PROVE  RegistryInv'
<1>1. PICK c : c = op[p].b
  OBVIOUS
<1>2. /\ UNCHANGED <<socket, id, pi, cleaner, made, untidy>>
      /\ bridgeManifest' = [bridgeManifest EXCEPT ![id[c]] = c] /\ reserved' = [reserved EXCEPT ![id[c]] = 0]
      /\ state' = [state EXCEPT ![c] = "running"]
      /\ op' = [op EXCEPT ![p] = [op[p] EXCEPT !.at = "started"]]
      /\ op[p].at = "publish" /\ Starts(p)
  BY <1>1 DEF B!Publish, B!Serialized, B!fixed, Starts
<1>3. op'[p].at = "started"
  BY <1>2 DEF LifeInv, BridgeTypes, Operations
<1>4. c \in 1..made /\ c \in B!Bridges /\ state[c] = "starting" /\ id[c] \in BridgeIds /\ reserved[id[c]] = c
      /\ bridgeManifest[id[c]] = 0 /\ socket[id[c]] = c
  BY <1>1, <1>2, OneStart DEF KnowsItsBridge, Refreshes, StartOwnsFiles
<1>5. /\ bridgeManifest'[id[c]] = c /\ reserved'[id[c]] = 0 /\ state'[c] = "running"
      /\ \A k \in BridgeIds \ {id[c]} : bridgeManifest'[k] = bridgeManifest[k] /\ reserved'[k] = reserved[k]
      /\ \A b \in B!Bridges \ {c} : state'[b] = state[b]
  BY <1>2, <1>4 DEF LifeInv, BridgeTypes
<1>6. ASSUME NEW k \in BridgeIds PROVE FilesAreOwned(k)'
  <2>1. FilesAreOwned(k)
    BY DEF RegistryInv
  <2>2. reserved[k] # 0 /\ k # id[c] => state[reserved[k]] = "lost" /\ reserved[k] # c /\ reserved[k] \in B!Bridges
    BY <1>1, <1>4, <2>1, OneStart DEF FilesAreOwned, Listens
  <2>3. socket[k] # 0 => socket[k] \in B!Bridges /\ (state[socket[k]] = "starting" \/ Left(socket[k]))'
    BY <1>2, <1>5, <2>1, NumbersOfBridges DEF FilesAreOwned, Left
  <2>4. bridgeManifest[k] # 0 => bridgeManifest[k] \in B!Bridges \ {c}
    BY <1>4, <2>1, NumbersOfBridges DEF FilesAreOwned
  <2>5. /\ reserved'[k] # 0 => /\ reserved'[k] \in 1..made /\ id[reserved'[k]] = k
                               /\ state'[reserved'[k]] = "lost"
        /\ bridgeManifest'[k] # 0 => /\ bridgeManifest'[k] \in 1..made /\ id[bridgeManifest'[k]] = k
                                     /\ Left(bridgeManifest[k])'
    BY <1>2, <1>4, <1>5, <2>1, <2>2, <2>4 DEF FilesAreOwned, Left
  <2> QED BY <1>2, <2>1, <2>3, <2>5 DEF FilesAreOwned
<1>7. ASSUME NEW q \in Pis PROVE StartOwnsFiles(q)'
  BY <1>3 DEF StartOwnsFiles, Refreshes, OneProcess
<1>8. ASSUME NEW b \in B!Bridges PROVE RunsUnderItsId(b)'
  BY <1>2, <1>4, <1>5, OneStart DEF RunsUnderItsId
<1>9. ASSUME NEW n \in Neovims PROVE CleansTheLost(n)'
  BY <1>2, <1>4, <1>5, NumbersOfBridges DEF RegistryInv, CleansTheLost
<1> QED BY <1>6, <1>7, <1>8, <1>9 DEF RegistryInv

(* A start that fails removes what it had made, and once more when it is   *)
(* stopped: no bridge runs meanwhile that could have the id.               *)
LEMMA RegistryFails ==
  ASSUME SharedNamesAssumption, OneProcess, LifeInv, RegistryInv, NEW p \in Pis,
         B!StartFails(p) \/ B!StopFailed(p)
  PROVE  RegistryInv'
<1>1. PICK c : c = op[p].b
  OBVIOUS
<1>2. /\ UNCHANGED <<id, pi, cleaner, made>>
      /\ \/ UNCHANGED <<bridgeManifest, untidy>>
         \/ /\ op[p].at = "publish" /\ bridgeManifest' = [bridgeManifest EXCEPT ![id[c]] = c]
            /\ untidy' = untidy \cup {c}
      /\ reserved' = B!Unnamed(reserved, c) /\ socket' = B!Unnamed(socket, c)
      /\ op'[p].at \in {"failed", "none"} /\ (Starts(p) \/ op[p].at = "failed")
      /\ \/ Starts(p) /\ state' = [state EXCEPT ![c] = "stopped"]
         \/ op[p].at = "failed" /\ state' = state
  <2>1. CASE B!StartFails(p)
    <3>1. op' = [op EXCEPT ![p] = [op[p] EXCEPT !.at = "failed"]]
      BY <2>1 DEF B!StartFails, B!Serialized
    <3>2. op'[p].at = "failed"
      BY <3>1 DEF LifeInv, BridgeTypes, Operations
    <3> QED BY <1>1, <2>1, <3>2 DEF B!StartFails, B!fixed, Starts
  <2>2. CASE B!StopFailed(p)
    <3>1. op' = [op EXCEPT ![p] = B!NoOp]
      BY <2>2 DEF B!StopFailed, B!Serialized
    <3>2. op'[p].at = "none"
      BY <3>1 DEF LifeInv, BridgeTypes, B!NoOp
    <3> QED BY <1>1, <2>2, <3>2 DEF B!StopFailed, B!fixed
  <2> QED BY <2>1, <2>2
<1>3. c \in 1..made /\ c \in B!Bridges /\ id[c] \in BridgeIds \cup {0} /\ state[c] \in {"starting", "stopped"}
      /\ state'[c] = "stopped" /\ \A b \in B!Bridges \ {c} : state'[b] = state[b]
  <2>1. KnowsItsBridge(p) /\ BridgeTypes /\ 1..made \subseteq B!Bridges
    BY OneStart
  <2>2. c \in 1..made /\ (Starts(p) => state[c] = "starting") /\ (op[p].at = "failed" => state[c] = "stopped")
    BY <1>1, <1>2, <2>1 DEF KnowsItsBridge, Refreshes
  <2>3. state \in [B!Bridges -> Lives] /\ id \in [B!Bridges -> BridgeIds \cup {0}]
    BY <2>1 DEF BridgeTypes
  <2> QED BY <1>2, <2>1, <2>2, <2>3
<1>4. \A k \in BridgeIds :
          /\ reserved'[k] = IF k = id[c] THEN 0 ELSE reserved[k]
          /\ socket'[k] = IF k = id[c] THEN 0 ELSE socket[k]
  BY <1>2, <1>3, NumbersOfBridges DEF B!Unnamed, BridgeTypes
<1>5. ASSUME NEW k \in BridgeIds PROVE FilesAreOwned(k)'
  <2>1. FilesAreOwned(k)
    BY DEF RegistryInv
  <2>2. reserved[k] # 0 /\ k # id[c] => reserved[k] # c /\ reserved[k] \in B!Bridges /\ ~Listens(reserved[k])
    BY <1>1, <2>1, OneStart DEF FilesAreOwned, Listens
  <2>3. socket[k] # 0 /\ k # id[c] => socket[k] # c /\ socket[k] \in B!Bridges
    BY <2>1, NumbersOfBridges DEF FilesAreOwned
  <2>4. bridgeManifest'[k] # 0 => /\ bridgeManifest'[k] \in 1..made /\ id[bridgeManifest'[k]] = k
                                  /\ Left(bridgeManifest[k])'
    <3>1. bridgeManifest[k] # 0 => bridgeManifest[k] \in B!Bridges /\ Left(bridgeManifest[k])
      BY <2>1, NumbersOfBridges DEF FilesAreOwned
    <3>2. Left(c)' \/ ~Left(c)
      BY <1>2, <1>3 DEF Left
    <3>3. CASE bridgeManifest' = bridgeManifest
      BY <1>2, <1>3, <2>1, <3>1, <3>2, <3>3 DEF FilesAreOwned, Left
    <3>4. CASE bridgeManifest' = [bridgeManifest EXCEPT ![id[c]] = c] /\ untidy' = untidy \cup {c}
      <4>1. bridgeManifest'[k] = IF k = id[c] THEN c ELSE bridgeManifest[k]
        BY <3>4 DEF LifeInv, BridgeTypes
      <4> QED BY <1>2, <1>3, <2>1, <3>1, <3>4, <4>1 DEF FilesAreOwned, Left
    <3> QED BY <1>2, <3>3, <3>4
  <2>5. reserved'[k] # 0 => /\ reserved'[k] \in 1..made /\ id[reserved'[k]] = k
                            /\ state'[reserved'[k]] = "lost"
    BY <1>3, <1>4, <2>1, <2>2 DEF FilesAreOwned
  <2>6. socket'[k] # 0 => /\ socket'[k] \in 1..made /\ id[socket'[k]] = k
                          /\ (state[socket[k]] = "starting" \/ Left(socket[k]))'
    BY <1>2, <1>3, <1>4, <2>1, <2>3 DEF FilesAreOwned, Left
  <2> QED BY <1>2, <1>3, <2>1, <2>4, <2>5, <2>6 DEF FilesAreOwned
<1>6. ASSUME NEW q \in Pis PROVE StartOwnsFiles(q)'
  BY <1>2 DEF StartOwnsFiles, Refreshes, OneProcess
<1>7. ASSUME NEW b \in B!Bridges PROVE RunsUnderItsId(b)'
  <2>1. state[b] # "running" /\ RunsUnderItsId(b)
    BY <1>2, OneStart
  <2>2. state'[b] # "running" /\ (state'[b] = "unborn" => state[b] = "unborn")
    BY <1>3, <2>1
  <2> QED BY <1>2, <2>1, <2>2 DEF RunsUnderItsId
<1>8. ASSUME NEW n \in Neovims PROVE CleansTheLost(n)'
  BY <1>2, <1>3, NumbersOfBridges DEF RegistryInv, CleansTheLost
<1> QED BY <1>5, <1>6, <1>7, <1>8 DEF RegistryInv

(* A bridge that stops removes what is its own; a killed process leaves    *)
(* everything, and nobody of it runs or starts.                            *)
LEMMA RegistryStops ==
  ASSUME SharedNamesAssumption, OneProcess, LifeInv, RegistryInv, NEW c \in B!Bridges,
         B!Stops(c) \/ B!StopBreaks(c)
  PROVE  RegistryInv'
<1>1. /\ UNCHANGED <<reserved, pi, id, op, cleaner, made>> /\ state[c] = "stopping"
      /\ state' = [state EXCEPT ![c] = "stopped"]
      /\ \/ /\ socket' = B!Without(socket, c) /\ bridgeManifest' = B!Without(bridgeManifest, c)
            /\ untidy' = untidy
         \/ /\ socket' \in {socket, B!Without(socket, c)} /\ bridgeManifest' = bridgeManifest
            /\ untidy' = untidy \cup {c}
  BY DEF B!Stops, B!StopBreaks, B!fixed
<1>2. state'[c] = "stopped" /\ (\A b \in B!Bridges \ {c} : state'[b] = state[b]) /\ c # 0
      /\ 1..made \subseteq B!Bridges
  BY <1>1, NumbersOfBridges DEF BridgeTypes
<1>3. \A k \in BridgeIds :
          /\ socket'[k] = socket[k] \/ (socket[k] = c /\ socket'[k] = 0)
          /\ bridgeManifest'[k] = bridgeManifest[k] \/ (bridgeManifest[k] = c /\ bridgeManifest'[k] = 0)
          /\ c \in {socket'[k], bridgeManifest'[k]} => c \in untidy'
  BY <1>1, <1>2 DEF B!Without
<1>4. ASSUME NEW p \in Pis PROVE Starts(p) => op[p].b # c
  BY <1>1 DEF LifeInv, KnowsItsBridge, Refreshes
<1>5. ASSUME NEW k \in BridgeIds PROVE FilesAreOwned(k)'
  <2>1. FilesAreOwned(k) /\ pi[c] \in Pis
    BY DEF RegistryInv, LifeInv, BridgeTypes
  <2>2. reserved[k] # c \/ reserved[k] = 0
    BY <1>1, <1>4, <2>1 DEF FilesAreOwned, Listens, Starts
  <2>3. reserved[k] # 0 => /\ (Listens(reserved[k]) => Listens(reserved[k])')
                           /\ state'[reserved[k]] = state[reserved[k]]
    BY <1>1, <1>2, <2>1, <2>2 DEF FilesAreOwned, Listens
  <2>4. socket'[k] # 0 => /\ socket'[k] = socket[k]
                          /\ state'[socket[k]] = state[socket[k]] \/ socket[k] = c
    BY <1>2, <1>3, <2>1 DEF FilesAreOwned
  <2>5. bridgeManifest'[k] # 0 => /\ bridgeManifest'[k] = bridgeManifest[k]
                                  /\ state'[bridgeManifest[k]] = state[bridgeManifest[k]] \/ bridgeManifest[k] = c
    BY <1>2, <1>3, <2>1 DEF FilesAreOwned
  <2>6. \A b \in untidy : b \in untidy'
    BY <1>1
  <2> QED BY <1>1, <1>2, <1>3, <2>1, <2>3, <2>4, <2>5, <2>6 DEF FilesAreOwned, Left
<1>6. ASSUME NEW q \in Pis PROVE StartOwnsFiles(q)'
  <2>1. StartOwnsFiles(q)
    BY DEF RegistryInv
  <2>2. op[q].at = "publish" => op[q].b # c
    BY <1>4 DEF Starts
  <2> QED BY <1>1, <1>2, <1>3, <2>1, <2>2 DEF StartOwnsFiles, Refreshes
<1>7. ASSUME NEW b \in B!Bridges PROVE RunsUnderItsId(b)'
  BY <1>1, <1>2, <1>3 DEF RegistryInv, RunsUnderItsId
<1>8. ASSUME NEW n \in Neovims PROVE CleansTheLost(n)'
  BY <1>1, <1>2 DEF RegistryInv, CleansTheLost
<1> QED BY <1>5, <1>6, <1>7, <1>8 DEF RegistryInv

LEMMA RegistryCrash ==
  ASSUME SharedNamesAssumption, OneProcess, LifeInv, RegistryInv, NEW p \in Pis, B!Crash(p)
  PROVE  RegistryInv'
<1>1. /\ UNCHANGED <<reserved, bridgeManifest, socket, pi, id, cleaner, made, untidy>>
      /\ op' = [op EXCEPT ![p] = B!NoOp]
      /\ state' = [b \in B!Bridges |->
            IF pi[b] = p /\ state[b] # "unborn" THEN "lost" ELSE state[b]]
  BY DEF B!Crash, B!Serialized, B!registry, B!fixed
<1>2. op'[p].at = "none"
  BY <1>1 DEF LifeInv, BridgeTypes, B!NoOp
<1>3. \A b \in B!Bridges :
          state'[b] = IF state[b] # "unborn" THEN "lost" ELSE state[b]
  BY <1>1, OneStart
<1>4. ASSUME NEW k \in BridgeIds PROVE FilesAreOwned(k)'
  <2>1. FilesAreOwned(k) /\ 1..made \subseteq B!Bridges
    BY NumbersOfBridges DEF RegistryInv
  <2>2. \A b \in B!Bridges : Listens(b) => state[b] = "starting"
    <3>1. ASSUME NEW b \in B!Bridges, Listens(b) PROVE state[b] = "starting"
      <4>1. pi[b] = p /\ KnowsItsBridge(p)
        BY OneStart
      <4> QED BY <3>1, <4>1 DEF Listens, KnowsItsBridge, Starts
    <3> QED BY <3>1
  <2>3. \A b \in 1..made : state[b] # "unborn"
    BY <2>1 DEF LifeInv, LivesInASession, BridgeTypes
  <2> QED BY <1>1, <1>3, <2>1, <2>2, <2>3 DEF FilesAreOwned, Left
<1>5. ASSUME NEW q \in Pis PROVE StartOwnsFiles(q)'
  BY <1>2 DEF StartOwnsFiles, Refreshes, OneProcess
<1>6. ASSUME NEW b \in B!Bridges PROVE RunsUnderItsId(b)'
  BY <1>1, <1>3 DEF RegistryInv, RunsUnderItsId
<1>7. ASSUME NEW n \in Neovims PROVE CleansTheLost(n)'
  BY <1>1, <1>3, NumbersOfBridges DEF RegistryInv, CleansTheLost
<1> QED BY <1>4, <1>5, <1>6, <1>7 DEF RegistryInv

(* A Neovim takes nothing from a bridge that starts or runs: the manifest  *)
(* that it looks at again names a bridge whose process is gone.            *)
LEMMA RegistryCleaned ==
  ASSUME SharedNamesAssumption, LifeInv, RegistryInv, NEW n \in Neovims,
         B!RemoveStaleSocket(n) \/ B!RemoveStaleManifest(n) \/ \E i \in BridgeIds : B!LookUp(n, i)
  PROVE  RegistryInv'
<1>1. /\ UNCHANGED <<reserved, state, pi, id, op, made, untidy>>
      /\ \A m \in Neovims \ {n} : cleaner'[m] = cleaner[m]
  BY DEF B!RemoveStaleSocket, B!RemoveStaleManifest, B!LookUp, B!registry, B!fixed, B!extension, B!Cleans,
         LifeInv, BridgeTypes
<1>2. /\ \A k \in BridgeIds : socket'[k] = socket[k] \/ (socket'[k] = 0 /\ B!SameManifest(cleaner[n])
                                                         /\ cleaner[n].at # "none" /\ k = cleaner[n].id)
      /\ \A k \in BridgeIds : \/ bridgeManifest'[k] = bridgeManifest[k]
                              \/ /\ bridgeManifest'[k] = 0 /\ B!SameManifest(cleaner[n])
                                 /\ cleaner[n].at # "none" /\ k = cleaner[n].id
  BY DEF B!RemoveStaleSocket, B!RemoveStaleManifest, B!LookUp, B!registry, LifeInv, BridgeTypes
<1>3. \A k \in BridgeIds :
          B!SameManifest(cleaner[n]) /\ cleaner[n].at # "none" /\ k = cleaner[n].id
            => bridgeManifest[k] # 0 /\ state[bridgeManifest[k]] = "lost"
  BY DEF B!SameManifest, RegistryInv, CleansTheLost
<1>4. ASSUME NEW k \in BridgeIds PROVE FilesAreOwned(k)'
  <2>1. \A b : Listens(b) <=> Listens(b)'
    BY <1>1 DEF Listens
  <2>2. FilesAreOwned(k)
    BY DEF RegistryInv
  <2> QED BY <1>1, <1>2, <2>1, <2>2 DEF FilesAreOwned, Left
<1>5. ASSUME NEW q \in Pis PROVE StartOwnsFiles(q)'
  <2>1. StartOwnsFiles(q)
    BY DEF RegistryInv
  <2> QED BY <1>1, <1>2, <1>3, <2>1 DEF StartOwnsFiles, Refreshes
<1>6. ASSUME NEW b \in B!Bridges PROVE RunsUnderItsId(b)'
  <2>1. RunsUnderItsId(b)
    BY DEF RegistryInv
  <2> QED BY <1>1, <1>2, <1>3, <2>1 DEF RunsUnderItsId
<1>7. ASSUME NEW m \in Neovims PROVE CleansTheLost(m)'
  <2>1. CleansTheLost(m)
    BY DEF RegistryInv
  <2>2. CASE m # n
    BY <1>1, <2>1, <2>2 DEF CleansTheLost
  <2>3. CASE m = n
    <3>1. ASSUME NEW i \in BridgeIds, B!LookUp(n, i) PROVE CleansTheLost(n)'
      <4>1. /\ cleaner' = [cleaner EXCEPT ![n] = [at |-> "socket", id |-> i, b |-> bridgeManifest[i]]]
            /\ bridgeManifest[i] # 0 /\ state[bridgeManifest[i]] = "lost"
        BY <3>1 DEF B!LookUp, B!Cleans
      <4>2. cleaner'[n] = [at |-> "socket", id |-> i, b |-> bridgeManifest[i]]
        BY <4>1 DEF LifeInv, BridgeTypes
      <4>3. cleaner'[n].id = i /\ cleaner'[n].b = bridgeManifest[i]
        BY <4>2
      <4>4. bridgeManifest[i] \in 1..made
        BY <4>1 DEF RegistryInv, FilesAreOwned
      <4> QED BY <1>1, <4>1, <4>3, <4>4 DEF CleansTheLost
    <3>2. ASSUME B!RemoveStaleSocket(n) PROVE CleansTheLost(n)'
      <4>1. \/ cleaner' = [cleaner EXCEPT ![n] = [cleaner[n] EXCEPT !.at = "manifest"]]
            \/ cleaner' = [cleaner EXCEPT ![n] = B!NotCleaning]
        BY <3>2 DEF B!RemoveStaleSocket, B!Cleans
      <4>2. cleaner[n].at # "none"
        BY <3>2 DEF B!RemoveStaleSocket
      <4>3. \/ cleaner'[n].id = cleaner[n].id /\ cleaner'[n].b = cleaner[n].b
            \/ cleaner'[n].at = "none"
        BY <4>1 DEF LifeInv, BridgeTypes, Cleanings, B!NotCleaning
      <4> QED BY <1>1, <2>1, <2>3, <4>2, <4>3 DEF CleansTheLost
    <3>3. ASSUME B!RemoveStaleManifest(n) PROVE CleansTheLost(n)'
      <4>1. cleaner'[n].at = "none"
        BY <3>3 DEF B!RemoveStaleManifest, B!Cleans, LifeInv, BridgeTypes, B!NotCleaning
      <4> QED BY <4>1 DEF CleansTheLost
    <3> QED BY <2>3, <3>1, <3>2, <3>3
  <2> QED BY <2>2, <2>3
<1> QED BY <1>4, <1>5, <1>6, <1>7 DEF RegistryInv

(* A refresh renames over nothing but the bridge's own manifest, or none:  *)
(* while it lasts the process starts no other bridge.                      *)
LEMMA RegistryRefreshed ==
  ASSUME SharedNamesAssumption, OneProcess, LifeInv, RegistryInv, NEW p \in Pis,
         B!ReadManifest(p) \/ B!RenameManifest(p) \/ B!RefreshFails(p)
  PROVE  RegistryInv'
<1>1. PICK c : c = op[p].b
  OBVIOUS
<1>2. /\ UNCHANGED <<reserved, socket, state, pi, id, cleaner, made>> /\ Refreshes(p)
      /\ \/ UNCHANGED <<bridgeManifest, untidy>>
         \/ /\ bridgeManifest' = [bridgeManifest EXCEPT ![id[c]] = c]
            /\ untidy' = IF state[c] = "stopped" THEN untidy \cup {c} ELSE untidy
      /\ op' = [op EXCEPT ![p] = B!NoOp] \/ op' = [op EXCEPT ![p] = [op[p] EXCEPT !.at = "rename"]]
  BY <1>1 DEF B!ReadManifest, B!RenameManifest, B!RefreshFails, B!Serialized, B!registry, B!fixed, Refreshes
<1>3. ~Starts(p) /\ ~Starts(p)' /\ (Refreshes(p)' => op'[p].b = c)
  <2>1. op'[p] = B!NoOp \/ op'[p] = [op[p] EXCEPT !.at = "rename"]
    BY <1>2 DEF LifeInv, BridgeTypes
  <2>2. op[p] \in Operations
    BY DEF LifeInv, BridgeTypes
  <2>3. op'[p].at = "none" \/ (op'[p].at = "rename" /\ op'[p].b = c)
    BY <1>1, <2>1, <2>2 DEF Operations, B!NoOp
  <2> QED BY <1>2, <2>3 DEF Starts, Refreshes
<1>4. /\ c \in 1..made /\ c \in B!Bridges /\ id[c] \in BridgeIds /\ c # 0
      /\ state[c] \in {"running", "stopping", "stopped"}
      /\ \A b \in B!Bridges : state[b] = "running" => b = c
  BY <1>1, <1>2, OneStart
<1>5. \A k \in BridgeIds : bridgeManifest'[k] = bridgeManifest[k] \/ (k = id[c] /\ bridgeManifest'[k] = c)
  BY <1>2, <1>4 DEF LifeInv, BridgeTypes
<1>6. ASSUME NEW k \in BridgeIds PROVE FilesAreOwned(k)'
  <2>1. FilesAreOwned(k) /\ (reserved[k] # 0 => ~Listens(reserved[k]))
    BY <1>3, OneStart DEF FilesAreOwned, Listens, Starts
  <2>2. \A b : Left(b) => Left(b)'
    BY <1>2 DEF Left
  <2>3. bridgeManifest'[k] # bridgeManifest[k] => Left(c)' /\ bridgeManifest'[k] = c /\ k = id[c]
    BY <1>2, <1>4, <1>5 DEF Left
  <2> QED BY <1>2, <1>4, <2>1, <2>2, <2>3 DEF FilesAreOwned
<1>7. ASSUME NEW q \in Pis PROVE StartOwnsFiles(q)'
  <2>1. q = p
    BY DEF OneProcess
  <2> QED BY <1>2, <1>3, <1>4, <2>1 DEF StartOwnsFiles, Starts
<1>8. ASSUME NEW b \in B!Bridges PROVE RunsUnderItsId(b)'
  <2>1. RunsUnderItsId(b)
    BY DEF RegistryInv
  <2> QED BY <1>2, <1>4, <1>5, <2>1 DEF RunsUnderItsId
<1>9. ASSUME NEW n \in Neovims PROVE CleansTheLost(n)'
  BY <1>2 DEF RegistryInv, CleansTheLost
<1> QED BY <1>6, <1>7, <1>8, <1>9 DEF RegistryInv

LEMMA RegistryNext ==
  ASSUME SharedNamesAssumption, OneProcess, LifeInv, RegistryInv, [B!Next]_bridges
  PROVE  RegistryInv'
<1>1. ASSUME UNCHANGED <<reserved, bridgeManifest, socket, pi, id, cleaner, made, untidy, state, op>> PROVE RegistryInv'
  BY <1>1, RegistryUntouched
<1>2. ASSUME NEW p \in Pis, UNCHANGED <<reserved, bridgeManifest, socket, pi, id, cleaner, made, untidy>>, ~Starts(p),
             NEW next \in Operations, next.at \notin {"reserve", "listen", "publish"},
             next.at \in {"refresh", "rename"} => id[next.b] \in BridgeIds,
             op' = op \/ op' = [op EXCEPT ![p] = next],
             NEW b, state' = state \/ state' = B!Stopping(b)
      PROVE  RegistryInv'
  <2>1. \A c \in B!Bridges : state'[c] = state[c] \/ (state[c] = "running" /\ state'[c] = "stopping")
    BY <1>2 DEF B!Stopping, LifeInv, BridgeTypes
  <2>2. \A q \in Pis : \/ op'[q] = op[q]
                       \/ ~(Starts(q) \/ Starts(q)') /\ (Refreshes(q)' => id[op'[q].b] \in BridgeIds)
    <3>1. ASSUME NEW q \in Pis
          PROVE  op'[q] = op[q] \/ (q = p /\ op'[q] = next)
      BY <1>2 DEF LifeInv, BridgeTypes
    <3>2. ASSUME op'[p] = next
          PROVE  ~(Starts(p) \/ Starts(p)') /\ (Refreshes(p)' => id[op'[p].b] \in BridgeIds)
      BY <1>2, <3>2 DEF Starts, Refreshes
    <3> QED BY <3>1, <3>2
  <2> QED BY <1>2, <2>1, <2>2, RegistryUntouched
<1>3. ASSUME NEW p \in Pis, B!Command(p) \/ B!SessionShutdown(p) \/ \E gen \in waiting[p] : B!PiIsIdle(p, gen)
      PROVE  RegistryInv'
  BY <1>1, <1>3 DEF B!Command, B!SessionShutdown, B!PiIsIdle, B!registry, B!fixed
<1>4. B!NoOp \in Operations /\ B!NoOp.at = "none"
  BY DEF B!NoOp, Operations, Steps
<1>5. ASSUME NEW p \in Pis, B!ShowBegins(p) \/ B!ShutdownBegins(p) PROVE RegistryInv'
  <2>1. op[p] = B!NoOp /\ queue[p] # <<>> /\ UNCHANGED <<reserved, bridgeManifest, socket, pi, id, cleaner, made, untidy>>
        /\ (state' = state \/ state' = B!Stopping(bridge[p]))
    BY <1>5 DEF B!ShowBegins, B!ShutdownBegins, B!registry, B!fixed
  <2>2. ~Starts(p)
    BY <1>4, <2>1 DEF Starts
  <2>3. bridge[p] \in Nat /\ Head(queue[p]) \in Orders
    BY <2>1, QueueFacts DEF LifeInv, BridgeTypes
  <2>4. \E next \in Operations : /\ next.at \notin {"reserve", "listen", "publish"}
                                 /\ next.at \in {"refresh", "rename"} => id[next.b] \in BridgeIds
                                 /\ op' = op \/ op' = [op EXCEPT ![p] = next]
    <3>1. CASE B!ShowBegins(p)
      <4>1. PICK next : next = [at |-> IF bridge[p] = 0 THEN "create" ELSE "stop stale",
                                gen |-> Head(queue[p]).gen, b |-> bridge[p]]
        OBVIOUS
      <4>2. next \in Operations /\ next.at \in {"create", "stop stale"}
        BY <2>3, <4>1 DEF Operations, Steps, Orders
      <4>3. PICK again : again = [at |-> "refresh", gen |-> Head(queue[p]).gen, b |-> bridge[p]]
        OBVIOUS
      <4>4. again \in Operations /\ again.at = "refresh" /\ again.b = bridge[p]
        BY <2>3, <4>3 DEF Operations, Steps, Orders
      <4>5. \/ op' = op \/ op' = [op EXCEPT ![p] = next]
            \/ op' = [op EXCEPT ![p] = again] /\ bridge[p] # 0 /\ state[bridge[p]] = "running"
        BY <3>1, <4>1, <4>3 DEF B!ShowBegins, B!Serialized
      <4>6. bridge[p] # 0 => bridge[p] \in 1..made
        BY DEF LifeInv, KnowsItsBridge
      <4>7. bridge[p] # 0 /\ state[bridge[p]] = "running" => id[bridge[p]] \in BridgeIds
        BY <4>6, NumbersOfBridges DEF RegistryInv, RunsUnderItsId
      <4> QED BY <4>2, <4>4, <4>5, <4>7
    <3>2. CASE B!ShutdownBegins(p)
      <4>1. PICK next : next = [at |-> "stop", gen |-> 0, b |-> bridge[p]]
        OBVIOUS
      <4>2. next \in Operations /\ next.at = "stop"
        BY <2>3, <4>1 DEF Operations, Steps
      <4>3. op' = op \/ op' = [op EXCEPT ![p] = next]
        BY <3>2, <4>1 DEF B!ShutdownBegins, B!Serialized
      <4> QED BY <4>2, <4>3
    <3> QED BY <1>5, <3>1, <3>2
  <2> QED BY <1>2, <2>1, <2>2, <2>4
<1>6. ASSUME NEW p \in Pis, B!Started(p) \/ B!Awaited(p) PROVE RegistryInv'
  <2>1. op[p] \in Operations /\ op[p].at \in {"started", "stop", "stop stale"}
        /\ UNCHANGED <<reserved, bridgeManifest, socket, pi, id, cleaner, made, untidy>>
        /\ (state' = state \/ state' = B!Stopping(op[p].b))
    BY <1>6 DEF B!Started, B!Awaited, B!registry, B!fixed, LifeInv, BridgeTypes
  <2>2. ~Starts(p)
    BY <2>1 DEF Starts
  <2>3. \E next \in Operations : next.at \in {"none", "stop", "create"} /\ op' = [op EXCEPT ![p] = next]
    <3>1. PICK stop : stop = [op[p] EXCEPT !.at = "stop"]
      OBVIOUS
    <3>2. PICK create : create = [op[p] EXCEPT !.at = "create", !.b = 0]
      OBVIOUS
    <3>3. stop \in Operations /\ stop.at = "stop" /\ create \in Operations /\ create.at = "create"
      BY <2>1, <3>1, <3>2 DEF Operations, Steps
    <3>4. \/ op' = [op EXCEPT ![p] = B!NoOp] \/ op' = [op EXCEPT ![p] = stop] \/ op' = [op EXCEPT ![p] = create]
      BY <1>6, <3>1, <3>2 DEF B!Started, B!Awaited, B!Serialized
    <3> QED BY <1>4, <3>3, <3>4
  <2> QED BY <1>2, <2>1, <2>2, <2>3
<1>7. ASSUME NEW p \in Pis, \/ B!Create(p) \/ (\E i \in BridgeIds : B!Reserve(p, i)) \/ B!Listen(p) \/ B!Publish(p)
                            \/ B!StartFails(p) \/ B!StopFailed(p)
      PROVE  RegistryInv'
  BY <1>7, RegistryCreate, RegistryReserve, RegistryListen, RegistryPublish, RegistryFails
<1>8. ASSUME NEW b \in B!Bridges, B!Finish(b) PROVE RegistryInv'
  <2>1. UNCHANGED <<reserved, bridgeManifest, socket, pi, id, cleaner, made, untidy, op>> /\ state' = B!Stopping(b)
    BY <1>8 DEF B!Finish, B!registry, B!fixed, B!extension
  <2>2. \A c \in B!Bridges : state'[c] = state[c] \/ (state[c] = "running" /\ state'[c] = "stopping")
    BY <2>1 DEF B!Stopping, LifeInv, BridgeTypes
  <2> QED BY <2>1, <2>2, RegistryUntouched
<1>10. ASSUME NEW p \in Pis, B!ReadManifest(p) \/ B!RenameManifest(p) \/ B!RefreshFails(p)
       PROVE  RegistryInv'
  BY <1>10, RegistryRefreshed
<1>9. CASE UNCHANGED bridges
  BY <1>1, <1>9 DEF bridges
<1> QED BY <1>3, <1>5, <1>6, <1>7, <1>8, <1>9, <1>10, RegistryStops, RegistryCrash, RegistryCleaned DEF B!Next, B!Operation

LEMMA RegistryMeans ==
  ASSUME SharedNamesAssumption, OneProcess, LifeInv, RegistryInv
  PROVE  B!RegistryIsTrue
<1> SUFFICES ASSUME NEW b \in B!Bridges
             PROVE  /\ state[b] = "running" => bridgeManifest[id[b]] = b /\ socket[id[b]] = b
                    /\ state[b] = "stopped" =>
                          \A i \in BridgeIds : /\ reserved[i] # b
                                               /\ b \in {bridgeManifest[i], socket[i]} => b \in untidy
  BY DEF B!RegistryIsTrue
<1>1. state[b] = "running" => bridgeManifest[id[b]] = b /\ socket[id[b]] = b
  BY DEF RegistryInv, RunsUnderItsId
<1>2. ASSUME NEW i \in BridgeIds, state[b] = "stopped"
      PROVE  reserved[i] # b /\ (b \in {bridgeManifest[i], socket[i]} => b \in untidy)
  <2>1. FilesAreOwned(i) /\ b # 0 /\ pi[b] \in Pis
    BY NumbersOfBridges DEF RegistryInv, BridgeTypes
  <2>2. ~Listens(b)
    BY <1>2, <2>1 DEF Listens, LifeInv, KnowsItsBridge, Refreshes, Starts
  <2> QED BY <1>2, <2>1, <2>2 DEF FilesAreOwned, Left
<1> QED BY <1>1, <1>2

(* With one Pi process the registry tells the truth, whatever crashes,     *)
(* whatever refresh is on its way when a bridge stops and whatever a       *)
(* Neovim cleans up meanwhile (registry.ts, publishManifest and            *)
(* updateManifest; registry.lua, remove_stale).                            *)
THEOREM RegistryTellsTheTruth == OneProcess => (B!Spec => []B!RegistryIsTrue)
<1> SUFFICES ASSUME OneProcess PROVE B!Spec => []B!RegistryIsTrue
  OBVIOUS
<1>1. B!Init => LifeInv /\ RegistryInv
  BY LifeInit, RegistryInit, SharedNamesAssumption
<1>2. LifeInv /\ RegistryInv /\ [B!Next]_B!vars => LifeInv' /\ RegistryInv'
  BY LifeNext, RegistryNext, SharedNamesAssumption
     DEF B!vars, bridges, B!registry, B!fixed, B!extension
<1>3. LifeInv /\ RegistryInv => B!RegistryIsTrue
  BY RegistryMeans, SharedNamesAssumption
<1> QED BY <1>1, <1>2, <1>3, PTL DEF B!Spec
=============================================================================
