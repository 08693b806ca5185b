------------------------------- MODULE SharedNames ------------------------------
(***************************************************************************)
(* The components by which processes of one machine share names in the     *)
(* file system: the journal of a run (Journal), the lock directories under *)
(* which a native dependency is installed (Installer) and Pi's settings    *)
(* are saved (SettingsLock), the slots of the file store (Slots) and the   *)
(* registry of the bridges (Bridge).  They share no state with one         *)
(* another; SideBySide checks them next to the others, and                 *)
(* SharedNamesProofs is about them.                                        *)
(***************************************************************************)
EXTENDS Journal, Integers, Sequences

CONSTANTS
    Installers,
    Savers, Inodes, SETTINGS_LOCK_MAX_ATTEMPTS, MaxUses, MaxDeaths,
    SlotIds, Hosts, Editors, MaxExports,
    Pis, Neovims, BridgeIds, MaxBridges, MaxCommands, MaxGenerations,
    Dead

ASSUME SharedNamesAssumption ==
    /\ None \notin Installers \cup Savers \cup Inodes
    /\ Cardinality({None, Dead}) = 2 /\ {None, Dead} \cap (SlotIds \cup Hosts \cup Editors) = {}
    /\ BridgeIds \subseteq Nat \ {0} /\ MaxBridges \in Nat

VARIABLES
    package, lockDir, task, npm,
    settingsFile, torn, lockDirectory, saver, uses, deaths, saved, spoiled,
    meta, lock, attach, note, host, editor, exports, crossed,
    reserved, bridgeManifest, socket, state, pi, id, born, piGeneration, bridge, waiting, queue,
    op, cleaner, made, commands, untidy

I == INSTANCE Installer WITH Procs <- Installers
G == INSTANCE SettingsLock
S == INSTANCE Slots
B == INSTANCE Bridge WITH manifest <- bridgeManifest, generation <- piGeneration

installer == <<package, lockDir, task, npm>>
locked == <<settingsFile, torn, lockDirectory, saver, uses, deaths, saved, spoiled>>
slots == <<meta, lock, attach, note, host, editor, exports, crossed>>
bridges == <<reserved, bridgeManifest, socket, state, pi, id, born, piGeneration, bridge, waiting,
             queue, op, cleaner, made, commands, untidy>>
=============================================================================
