-------------------------------- MODULE Journal --------------------------------
(***************************************************************************)
(* WorkflowJournal (src/journal.ts): the append-only JSONL file a run      *)
(* leaves behind and a resumed run replays.                                *)
(*                                                                         *)
(* The file is what a reader can tell of it: `good`, the keys on complete  *)
(* lines, and `tail`, what follows the last newline: nothing, a fragment   *)
(* no parser accepts, or a whole entry that only lacks its newline.  Lines *)
(* that do not parse are skipped by every reader and are not represented.  *)
(*                                                                         *)
(* A process is one opening of the journal.  Within it open and append are *)
(* synchronous; but nothing locks the file, so a second process may resume *)
(* the same run meanwhile, and its steps fall between the look at the last *)
(* byte and the write.  A write that fails (the process dies, or the disk  *)
(* is full and it lives on) leaves a prefix of what it was to write.       *)
(***************************************************************************)
EXTENDS Naturals, FiniteSets

CONSTANTS
    Keys,       \* agent keys
    Procs,      \* processes; one that ended may be started again
    None,       \* no write under way
    MaxFailures \* bound: writes that fail

ASSUME JournalAssumption ==
    /\ "clean" \notin Keys /\ "torn" \notin Keys
    /\ None \notin [key : Keys, heal : BOOLEAN]
    /\ IsFiniteSet(Keys)
    /\ MaxFailures \in Nat

VARIABLES
    good,        \* keys on complete, parseable lines
    tail,        \* behind the last newline: "clean", "torn" or a key
    up,          \* processes that have the journal open
    cache,       \* `cache` of each process
    firstAppend, \* `firstAppend` of each process
    writing,     \* the append each process is in, or None
    served,      \* history: keys whose result some script was given
    acked,       \* history: keys whose append returned
    exposed,     \* history: failed writes left to a process that heals no more
    failures     \* counter of the bound

file == <<good, tail>>
jvars == <<file, up, cache, firstAppend, writing, served, acked, exposed, failures>>

Tails == {"clean", "torn"} \cup Keys
Writes == [key : Keys, heal : BOOLEAN]

-----------------------------------------------------------------------------
(* Mutants: slips in the journal that the properties must notice.          *)

NeedsHeal_Never(p) == FALSE
Salvaged_Blindly == IF tail = "clean" THEN {} ELSE {tail}
Parsed_AllOrNothing == IF tail = "clean" THEN good ELSE {}

-----------------------------------------------------------------------------
(* The entry the tail holds, if it parses.                                 *)
Salvaged == IF tail \in Keys THEN {tail} ELSE {}

(* readJournalEntries: every line that parses, the last one included.      *)
Parsed == good \cup Salvaged

JInit ==
    /\ good = {} /\ tail = "clean"
    /\ up = {}
    /\ cache = [p \in Procs |-> {}]
    /\ firstAppend = [p \in Procs |-> TRUE]
    /\ writing = [p \in Procs |-> None]
    /\ served = {} /\ acked = {}
    /\ exposed = 0 /\ failures = 0

(* WorkflowJournal.open, with its replay: the script will be given what it *)
(* finds in the cache.                                                     *)
Open(p) ==
    /\ p \notin up
    /\ up' = up \cup {p}
    /\ cache' = [cache EXCEPT ![p] = Parsed]
    /\ firstAppend' = [firstAppend EXCEPT ![p] = TRUE]
    /\ served' = served \cup Parsed
    /\ UNCHANGED <<file, writing, acked, exposed, failures>>

(* hasTornTail, looked at by the first append of a process only.           *)
NeedsHeal(p) == firstAppend[p] /\ tail # "clean"

(* append() of a key it does not have, up to the write.                    *)
AppendBegins(p, k) ==
    /\ p \in up
    /\ writing[p] = None
    /\ k \notin cache[p]
    /\ cache' = [cache EXCEPT ![p] = @ \cup {k}]
    /\ writing' = [writing EXCEPT ![p] = [key |-> k, heal |-> NeedsHeal(p)]]
    /\ firstAppend' = [firstAppend EXCEPT ![p] = FALSE]
    /\ UNCHANGED <<file, up, served, acked, exposed, failures>>

(* The write starts on a line of its own; otherwise it glues onto the tail *)
(* and neither parses any more.                                            *)
OwnLine(w) == w.heal \/ tail = "clean"

(* The keys on complete lines once the newline that heals is written.      *)
Kept(w) == IF w.heal THEN good \cup Salvaged ELSE good

WriteCompletes(p) ==
    /\ writing[p] # None
    /\ LET w == writing[p] IN
       /\ good' = Kept(w) \cup (IF OwnLine(w) THEN {w.key} ELSE {})
       /\ tail' = "clean"
       /\ served' = served \cup {w.key}
       /\ acked' = acked \cup {w.key}
    /\ writing' = [writing EXCEPT ![p] = None]
    /\ UNCHANGED <<up, cache, firstAppend, exposed, failures>>

(* What a failed write may leave: nothing new, the healing newline only, a *)
(* part of the line, or the line without its newline.                      *)
Remains(w) ==
    {<<good, tail>>, <<Kept(w), "torn">>}
    \cup (IF w.heal THEN {<<Kept(w), "clean">>} ELSE {})
    \cup (IF OwnLine(w) THEN {<<Kept(w), w.key>>} ELSE {})

(* q, were it to append next, would not look at the tail.                  *)
Blind(q) == ~firstAppend[q] /\ (writing[q] = None \/ ~writing[q].heal)

(* The write fails.  `survives` tells a full disk, after which agent()     *)
(* catches the error and the run goes on, from the end of the process.     *)
WriteFails(p, survives) ==
    /\ writing[p] # None
    /\ failures < MaxFailures
    /\ failures' = failures + 1
    /\ \E left \in Remains(writing[p]) : good' = left[1] /\ tail' = left[2]
    /\ writing' = [writing EXCEPT ![p] = None]
    /\ up' = IF survives THEN up ELSE up \ {p}
    /\ UNCHANGED <<cache, firstAppend, served, acked>>
    /\ exposed' = IF tail' # "clean" /\ \E q \in up' : Blind(q)' THEN exposed + 1 ELSE exposed

(* The run ends, or its process dies outside an append.                    *)
Stop(p) ==
    /\ p \in up
    /\ writing[p] = None
    /\ up' = up \ {p}
    /\ UNCHANGED <<file, cache, firstAppend, writing, served, acked, exposed, failures>>

JNext ==
    \E p \in Procs :
        \/ Open(p)
        \/ \E k \in Keys : AppendBegins(p, k)
        \/ WriteCompletes(p)
        \/ \E survives \in BOOLEAN : WriteFails(p, survives)
        \/ Stop(p)

JSpec == JInit /\ [][JNext]_jvars

-----------------------------------------------------------------------------
(* The types: the file is complete lines and one tail, and a process is in *)
(* at most one append.                                                     *)
JTypeOK ==
    /\ good \subseteq Keys
    /\ tail \in Tails
    /\ up \subseteq Procs
    /\ cache \in [Procs -> SUBSET Keys]
    /\ firstAppend \in [Procs -> BOOLEAN]
    /\ writing \in [Procs -> Writes \cup {None}]
    /\ served \subseteq Keys /\ acked \subseteq Keys
    /\ exposed \in Nat /\ failures \in Nat

(* journal.ts: an entry "survives a process crash".  Whatever a script was *)
(* given, freshly appended or replayed from a line that had lost its       *)
(* newline, is found by every later opening, after any crashes and heals   *)
(* and with other processes appending, unless a failed write was left to a *)
(* process that had made its first append and heals no more.               *)
ServedStays == exposed = 0 => served \subseteq Parsed

(* ... and then the damage is contained: each such failure costs at most   *)
(* one acknowledged entry, the file is never poisoned beyond it.           *)
LossIsContained == Cardinality(acked \ Parsed) <= exposed
=============================================================================
