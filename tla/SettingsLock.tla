------------------------------ MODULE SettingsLock ------------------------------
(***************************************************************************)
(* The lock directory beside Pi's settings.json under which mid-turn       *)
(* compaction reads and saves its preference (0020-mid-turn-compact.ts):   *)
(* several Pi processes make the directory, take it from one that has not  *)
(* touched it for ten seconds, merge what the file says with a value of    *)
(* their own and write it in place.  The calls of one process are          *)
(* synchronous, the processes are not.                                     *)
(*                                                                         *)
(* Every process saves a value of its own, as the other writers of the     *)
(* file do that keep to the lock.  A process that died comes back.         *)
(***************************************************************************)
EXTENDS Integers

CONSTANTS
    Savers,     \* Pi processes
    Inodes,     \* what the file system gives a new directory; it may be one that was used before
    SETTINGS_LOCK_MAX_ATTEMPTS,
    MaxUses, MaxDeaths,    \* bounds
    None

VARIABLES
    settingsFile,   \* the value of each process, as settings.json has it
    torn,           \* settings.json is half written
    lockDirectory,  \* its inode, or None; is it older than SETTINGS_LOCK_STALE_MS; who made it
    saver,          \* where each process is in withSettingsLock
    uses, deaths,   \* how often a process went for the lock, and how many died
    saved,          \* the value that each process saved last
    spoiled         \* a process was under the lock for SETTINGS_LOCK_STALE_MS, or two found it
                    \* stale and went on to remove it

vars == <<settingsFile, torn, lockDirectory, saver, uses, deaths, saved, spoiled>>
file == <<settingsFile, torn, saved>>

Idle ==
    [at |-> "idle", op |-> None, value |-> 0, contentionAttempts |-> 0, totalAttempts |-> 0,
     identity |-> None, settings |-> None]
Nothing == [p \in Savers |-> 0]
NoDirectory == [inode |-> None, old |-> FALSE, by |-> None]
Exists == lockDirectory.inode # None

(* The process made the directory and has not removed it.                  *)
Owning == {"probe", "undo", "read", "truncate", "write", "release", "remove own"}
Owns(p) == saver[p].at \in Owning

-----------------------------------------------------------------------------
(* Mutants: slips in the extension that the properties must notice.        *)

Merged_FromScratch(p) == [Nothing EXCEPT ![p] = saver[p].value]
Stale_Always(p) == TRUE

-----------------------------------------------------------------------------
Init ==
    /\ settingsFile = Nothing /\ torn = FALSE /\ saved = Nothing
    /\ lockDirectory = NoDirectory
    /\ saver = [p \in Savers |-> Idle]
    /\ uses = 0 /\ deaths = 0
    /\ spoiled = FALSE

At(p, where) == saver[p].at = where
Goes(p, where) == saver' = [saver EXCEPT ![p] = [@ EXCEPT !.at = where]]
Ends(p) == saver' = [saver EXCEPT ![p] = Idle]

(* rmdir, of whatever is there now.                                        *)
RemovesDirectory == lockDirectory' = NoDirectory

(* readPersistedMidTurnCompactEnabled, persistMidTurnCompactEnabled        *)
Begins(p, op) ==
    /\ At(p, "idle") /\ uses < MaxUses
    /\ uses' = uses + 1
    /\ saver' = [saver EXCEPT ![p] = [Idle EXCEPT !.at = "mkdir", !.op = op, !.value = uses']]
    /\ UNCHANGED <<file, lockDirectory, deaths, spoiled>>

-----------------------------------------------------------------------------
(* withSettingsLock up to the operation.                                   *)

MayTry(p) ==
    /\ saver[p].contentionAttempts < SETTINGS_LOCK_MAX_ATTEMPTS
    /\ saver[p].totalAttempts < SETTINGS_LOCK_MAX_ATTEMPTS * 2

Tries(p, where) ==
    saver' = [saver EXCEPT ![p] = [@ EXCEPT !.at = where, !.totalAttempts = saver[p].totalAttempts + 1]]

MakesLock(p, inode) ==
    /\ At(p, "mkdir") /\ MayTry(p) /\ ~Exists
    /\ lockDirectory' = [inode |-> inode, old |-> FALSE, by |-> p]
    /\ Tries(p, "probe")
    /\ UNCHANGED <<file, uses, deaths, spoiled>>

FindsLock(p) ==
    /\ At(p, "mkdir") /\ MayTry(p) /\ Exists
    /\ Tries(p, "look")
    /\ UNCHANGED <<file, lockDirectory, uses, deaths, spoiled>>

(* Out of attempts, or mkdir, stat or rmdir fails otherwise; a directory   *)
(* that could not be removed stays.                                        *)
GivesUp(p) ==
    /\ saver[p].at \in {"mkdir", "look", "remove", "undo", "release", "remove own"}
    /\ Ends(p)
    /\ UNCHANGED <<file, lockDirectory, uses, deaths, spoiled>>

(* reclaimStaleSettingsLock; first it looks, then it removes.              *)
Stale(p) == lockDirectory.old

Looks(p) ==
    /\ At(p, "look")
    /\ IF ~Exists THEN Goes(p, "mkdir") /\ UNCHANGED spoiled
       ELSE IF Stale(p)
       THEN /\ Goes(p, "remove")
            /\ spoiled' = (spoiled \/ \E q \in Savers \ {p} : At(q, "remove"))
       ELSE /\ saver' = [saver EXCEPT ![p] = [@ EXCEPT !.at = "mkdir", !.contentionAttempts = saver[p].contentionAttempts + 1]]
            /\ UNCHANGED spoiled
    /\ UNCHANGED <<file, lockDirectory, uses, deaths>>

Reclaims(p) ==
    /\ At(p, "remove")
    /\ RemovesDirectory
    /\ Goes(p, "mkdir")
    /\ UNCHANGED <<file, uses, deaths, spoiled>>

(* The identity of the directory, by which it is recognized at the end.    *)
ProbesIdentity(p, found) ==
    /\ At(p, "probe")
    /\ found => Exists
    /\ saver' = IF found
                THEN [saver EXCEPT ![p] = [@ EXCEPT !.at = "read", !.identity = lockDirectory.inode]]
                ELSE [saver EXCEPT ![p] = [@ EXCEPT !.at = "undo"]]
    /\ UNCHANGED <<file, lockDirectory, uses, deaths, spoiled>>

Undoes(p) ==
    /\ At(p, "undo")
    /\ RemovesDirectory
    /\ Ends(p)
    /\ UNCHANGED <<file, uses, deaths, spoiled>>

-----------------------------------------------------------------------------
(* The operation: a file that does not parse is left alone; writeFileSync  *)
(* truncates before it writes, and both may fail.                          *)

Merged(p) == [settingsFile EXCEPT ![p] = saver[p].value]

Reads(p) ==
    /\ At(p, "read")
    /\ IF torn \/ saver[p].op = "read"
       THEN Goes(p, "release")
       ELSE saver' = [saver EXCEPT ![p] = [@ EXCEPT !.at = "truncate", !.settings = Merged(p)]]
    /\ UNCHANGED <<file, lockDirectory, uses, deaths, spoiled>>

Truncates(p, opened) ==
    /\ At(p, "truncate")
    /\ IF opened
       THEN torn' = TRUE /\ settingsFile' = Nothing /\ Goes(p, "write")
       ELSE UNCHANGED <<torn, settingsFile>> /\ Goes(p, "release")
    /\ UNCHANGED <<saved, lockDirectory, uses, deaths, spoiled>>

Writes(p, full) ==
    /\ At(p, "write")
    /\ IF full
       THEN /\ settingsFile' = saver[p].settings /\ torn' = FALSE
            /\ saved' = [saved EXCEPT ![p] = saver[p].settings[p]]
       ELSE UNCHANGED file
    /\ Goes(p, "release")
    /\ UNCHANGED <<lockDirectory, uses, deaths, spoiled>>

-----------------------------------------------------------------------------
(* The end of withSettingsLock: the directory is compared, then removed.   *)

Releases(p) ==
    /\ At(p, "release")
    /\ IF Exists /\ lockDirectory.inode = saver[p].identity THEN Goes(p, "remove own") ELSE Ends(p)
    /\ UNCHANGED <<file, lockDirectory, uses, deaths, spoiled>>

RemovesOwn(p) ==
    /\ At(p, "remove own")
    /\ RemovesDirectory
    /\ Ends(p)
    /\ UNCHANGED <<file, uses, deaths, spoiled>>

-----------------------------------------------------------------------------
Dies(p) ==
    /\ ~At(p, "idle") /\ deaths < MaxDeaths
    /\ deaths' = deaths + 1
    /\ Ends(p)
    /\ UNCHANGED <<file, lockDirectory, uses, spoiled>>

(* Ten seconds go by; nobody touches a directory that he made.             *)
Ages ==
    /\ Exists /\ ~lockDirectory.old
    /\ lockDirectory' = [lockDirectory EXCEPT !.old = TRUE]
    /\ spoiled' = (spoiled \/ \E p \in Savers : lockDirectory.by = p /\ Owns(p))
    /\ UNCHANGED <<file, saver, uses, deaths>>

Next ==
    \/ \E p \in Savers :
          \/ \E op \in {"read", "save"} : Begins(p, op)
          \/ \E inode \in Inodes : MakesLock(p, inode)
          \/ FindsLock(p) \/ GivesUp(p) \/ Looks(p) \/ Reclaims(p) \/ Undoes(p)
          \/ Reads(p) \/ Releases(p) \/ RemovesOwn(p) \/ Dies(p)
          \/ \E b \in BOOLEAN : ProbesIdentity(p, b) \/ Truncates(p, b) \/ Writes(p, b)
    \/ Ages

Spec == Init /\ [][Next]_vars

-----------------------------------------------------------------------------
(* Properties.                                                             *)

(* Nobody works under the lock for ten seconds, and no two processes go on *)
(* to remove the same stale directory: then the directory excludes.  One   *)
(* process is under it, and it is the one that made it.                    *)
OneSaver ==
    ~spoiled =>
        /\ \A p, q \in Savers : Owns(p) /\ Owns(q) => p = q
        /\ \A p \in Savers : Owns(p) => Exists /\ lockDirectory.by = p

(* And a save keeps what every other process saved: settings.json has the  *)
(* last value of each, unless a crash or a full disk left it half written, *)
(* and a half written one is not written over.                             *)
SettingsAreMerged == OneSaver /\ (~spoiled /\ ~torn => settingsFile = saved)
=============================================================================
