------------------------------- MODULE Installer -------------------------------
(***************************************************************************)
(* The bootstrap of the prompt magazine's native dependency                *)
(* (dependencies.ts): several Pi processes find better-sqlite3 missing,    *)
(* one of them runs npm under a lock directory, the others wait.  The npm  *)
(* process is a child in a group of its own: it survives a crash of its    *)
(* parent, and the lock directory stays behind.                            *)
(***************************************************************************)
EXTENDS Integers, FiniteSets

CONSTANTS
    Procs,      \* Pi processes that share the extension directory
    None        \* the lock directory does not exist

VARIABLES
    package,    \* what require("better-sqlite3") finds in the directory
    lockDir,    \* None, or who made .pi-magazine-install.lock
    task,       \* where each process is in ensureDatabaseDependency
    npm         \* the processes whose npm child runs, also when they crashed

vars == <<package, lockDir, task, npm>>

Settled == {"ready", "failed"}
Tasks == Settled \cup {"idle", "looking", "probing", "waiting", "locked", "installing"}

-----------------------------------------------------------------------------
(* Mutants: slips in the bootstrap that the properties must notice.        *)

Unlock_Anyones(p) == None
LockFree_Stale(p) == \A q \in Procs : lockDir = q => task[q] = "idle"

-----------------------------------------------------------------------------
Init ==
    /\ package \in {"missing", "present", "broken"}
    /\ lockDir = None
    /\ task = [p \in Procs |-> "idle"]
    /\ npm = {}

At(p, where) == task[p] = where
Goes(p, where) == task' = [task EXCEPT ![p] = where]

(* session_start; a process runs one task at a time.                       *)
Begin(p) ==
    /\ At(p, "idle")
    /\ Goes(p, "looking")
    /\ UNCHANGED <<package, lockDir, npm>>

(* The lock is looked for first; two file system calls of one job, which   *)
(* another process can get between.                                        *)
LookForLock(p) ==
    /\ At(p, "looking")
    /\ Goes(p, IF lockDir = None THEN "probing" ELSE "waiting")
    /\ UNCHANGED <<package, lockDir, npm>>

(* Only a missing package is installed; a broken one is an error.          *)
Probe(p) ==
    /\ At(p, "probing")
    /\ Goes(p, CASE package = "present" -> "ready"
                 [] package = "missing" -> "waiting"
                 [] package = "broken"  -> "failed")
    /\ UNCHANGED <<package, lockDir, npm>>

(* PI_PROMPT_MAGAZINE_AUTO_INSTALL=0, or the wait for the lock times out.  *)
GivesUpWaiting(p) ==
    /\ At(p, "waiting")
    /\ Goes(p, "failed")
    /\ UNCHANGED <<package, lockDir, npm>>

LockFree(p) == lockDir = None

(* mkdir succeeds for one process.                                         *)
MakeLock(p) ==
    /\ At(p, "waiting")
    /\ LockFree(p)
    /\ lockDir' = p
    /\ Goes(p, "locked")
    /\ UNCHANGED <<package, npm>>

OwnsLock(p) == At(p, "locked") \/ At(p, "installing")

(* What the finally block leaves of the lock: it removes its own only.     *)
Unlock(p) == IF OwnsLock(p) THEN None ELSE lockDir

(* With the lock held the package is probed again; npm is started on a     *)
(* missing one, and what it writes is loadable only when it is done.       *)
ProbeLocked(p) ==
    /\ At(p, "locked")
    /\ \/ /\ package # "missing"
          /\ Goes(p, IF package = "present" THEN "ready" ELSE "failed")
          /\ lockDir' = Unlock(p)
          /\ UNCHANGED <<package, npm>>
       \/ /\ package = "missing"
          /\ package' = "broken"
          /\ npm' = npm \cup {p}
          /\ Goes(p, "installing")
          /\ UNCHANGED lockDir

(* npm ends by itself: the package is complete, or npm took back or left   *)
(* what it had written.  An orphan's end is seen by nobody.                *)
NpmEnds(p) ==
    /\ p \in npm
    /\ npm' = npm \ {p}
    /\ \E left \in {"present", "missing", "broken"} :
          /\ package' = left
          /\ IF At(p, "installing")
             THEN /\ Goes(p, IF left = "present" THEN "ready" ELSE "failed")
                  /\ lockDir' = Unlock(p)
             ELSE UNCHANGED <<task, lockDir>>

(* Session teardown aborts the task and awaits it: npm's process group is  *)
(* killed and the lock removed.                                            *)
Aborted(p) ==
    /\ ~At(p, "idle")
    /\ Goes(p, "idle")
    /\ lockDir' = Unlock(p)
    /\ IF At(p, "installing")
       THEN npm' = npm \ {p} /\ package' \in {"missing", "broken"}
       ELSE UNCHANGED <<npm, package>>

(* A crash removes nothing and kills nobody.                               *)
Dies(p) ==
    /\ ~At(p, "idle")
    /\ Goes(p, "idle")
    /\ UNCHANGED <<package, lockDir, npm>>

(* The user removes a stale lock directory after making sure that no       *)
(* installation runs, as the message of the timeout asks.                  *)
UserRemovesLock ==
    /\ lockDir # None
    /\ npm = {}
    /\ ~OwnsLock(lockDir)
    /\ lockDir' = None
    /\ UNCHANGED <<package, task, npm>>

(* The user repairs a package that npm left broken.                        *)
UserRepairs ==
    /\ package = "broken"
    /\ npm = {}
    /\ package' = "present"
    /\ UNCHANGED <<lockDir, task, npm>>

Task(p) ==
    \/ Begin(p) \/ LookForLock(p) \/ Probe(p) \/ GivesUpWaiting(p)
    \/ MakeLock(p) \/ ProbeLocked(p) \/ Aborted(p) \/ Dies(p)

Next ==
    \/ \E p \in Procs : Task(p) \/ NpmEnds(p)
    \/ UserRemovesLock \/ UserRepairs

Spec == Init /\ [][Next]_vars

-----------------------------------------------------------------------------
TypeOK ==
    /\ package \in {"missing", "present", "broken"}
    /\ lockDir \in Procs \cup {None}
    /\ task \in [Procs -> Tasks]
    /\ npm \subseteq Procs

(* The lock directory serializes the installers, also across a crash of    *)
(* the one that holds it, a timeout of the ones that wait and a removal by *)
(* the user: never two npm processes in the directory, and none without    *)
(* the lock.                                                               *)
OneInstaller ==
    /\ \A p \in npm : lockDir = p
    /\ \A p \in Procs : OwnsLock(p) => lockDir = p
=============================================================================
