------------------------------- MODULE SideBySide ------------------------------
(***************************************************************************)
(* Components that share no state, checked side by side and not in each    *)
(* other's product: a behaviour is a behaviour of one of them, and the     *)
(* others rest.                                                            *)
(*                                                                         *)
(* Those by which processes of one machine share names in the file system  *)
(* (SharedNames).  Those of a session that outlive the calls into them     *)
(* (SessionParts): the feedback over a bridge (Annotations) and the run    *)
(* that a tool call hands over to its session (BackgroundRun).             *)
(*                                                                         *)
(* Those that keep their state in the entries of a session's branch and    *)
(* rewrite what is sent to the model: the server-side compaction           *)
(* (NativeCompaction) and live context management (Clm), of which the      *)
(* document that is edited (ContextDocument) and the budget (ClmBudget)    *)
(* are parts of their own.                                                 *)
(*                                                                         *)
(* Those that work on files which others write meanwhile: the edit tool    *)
(* with its payloads (UnifiedEdit, HashLines), the discovery of the Claude *)
(* session (ClaudeSession) and the shared prompt history (PromptHistory).  *)
(***************************************************************************)
EXTENDS SharedNames, SessionParts, EditParts

CONSTANTS
    MaxExchanges, MaxEdits,
    Budgets, Reserves, Reminds, Caps, GuardModes, Windows, Counts, Sizes, MARGIN, MAX_TOKENS,
    MaxHooks, MaxChanges, MaxRaw,
    MaxLines, MaxOperations,
    Claudes, CommandIsWritten, MaxClaudeSessions, MaxTranscript,
    MAX_SEEN_IDS, MaxPrompts, MaxPieces, MaxTrims, MaxPiSessions

VARIABLES
    component,
    editingMode, rendered, doc, preamble, envelope, edits,
    budgetPolicy, contextWindow, rawMessages, accepted, enabled, tracker, calibrator,
    lastBudgetReading, outcomeNotice, lastRequest, inFlight, reminders, learned, unseen, hooks, changes,
    lineCount, seenLines, section,
    transcript, touched, metadata, current, screen, command,
    history, mine, written, half, pieces, trims, piSession, sync, seenIds, sessionTexts, piEditor,
    pendingHistory, overlapped

D == INSTANCE ContextDocument WITH snapshot <- rendered
K == INSTANCE ClmBudget
H == INSTANCE HashLines
L == INSTANCE ClaudeSession WITH MaxSessions <- MaxClaudeSessions, MaxEntries <- MaxTranscript
P == INSTANCE PromptHistory
     WITH MaxSessions <- MaxPiSessions, session <- piSession, editor <- piEditor

document == <<editingMode, rendered, doc, preamble, envelope, edits>>
budget == <<budgetPolicy, contextWindow, rawMessages, accepted, enabled, tracker, calibrator,
            lastBudgetReading, outcomeNotice, lastRequest, inFlight, reminders, learned, unseen,
            hooks, changes>>
payload == <<lineCount, seenLines, section>>
claude == <<transcript, touched, metadata, current, screen, command>>
prompts == <<history, mine, written, half, pieces, trims, piSession, sync, seenIds, sessionTexts,
             piEditor, pendingHistory, overlapped>>

ofMachine == <<jvars, installer, locked, slots, bridges, feedback>>
ofContext == <<native, context, document, budget>>
ofFiles == <<edit, payload, claude, prompts, runs>>
vars == <<component, ofMachine, ofContext, ofFiles>>

Components ==
    {"journal", "installer", "settings", "slots", "bridge", "feedback", "native", "context", "document",
     "budget", "edit", "payload", "claude", "prompts", "runs"}

(* A component that rests does so in one of its initial states.            *)
Init ==
    /\ component \in Components
    /\ JInit
    /\ I!Init /\ (component # "installer" => package = "missing")
    /\ G!Init /\ B!Init /\ A!Init
    /\ S!Init /\ (component # "slots" => \A i \in SlotIds : meta[i] = S!NoMeta)
    /\ N!Init /\ (component # "native" => leaf = 0 /\ model = CHOOSE m \in Decorated : TRUE)
    /\ C!Init /\ (component # "context" => mode = "clm" /\ turnPhase = "idle")
    /\ D!DocumentInit
    /\ component # "document" => editingMode = "clm" /\ \A m \in DOMAIN rendered : rendered[m].role = "user"
    /\ K!Init /\ (component # "budget" => enabled /\ budgetPolicy = CHOOSE p \in K!Policies : TRUE)
    /\ component # "budget" => contextWindow = CHOOSE w \in Windows : TRUE
    /\ U!Init /\ (component # "edit" => \A f \in Files : edited[f] # Absent)
    /\ H!PayloadInit /\ (component # "payload" => lineCount = 0)
    /\ L!ClaudeInit /\ P!HistoryInit /\ R!InitRuns

Next ==
    /\ UNCHANGED component
    /\ \/ component = "journal" /\ JNext
          /\ UNCHANGED <<installer, locked, slots, bridges, feedback, ofContext, ofFiles>>
       \/ component = "installer" /\ I!Next
          /\ UNCHANGED <<jvars, locked, slots, bridges, feedback, ofContext, ofFiles>>
       \/ component = "settings" /\ G!Next
          /\ UNCHANGED <<jvars, installer, slots, bridges, feedback, ofContext, ofFiles>>
       \/ component = "slots" /\ S!Next
          /\ UNCHANGED <<jvars, installer, locked, bridges, feedback, ofContext, ofFiles>>
       \/ component = "bridge" /\ B!Next
          /\ UNCHANGED <<jvars, installer, locked, slots, feedback, ofContext, ofFiles>>
       \/ component = "feedback" /\ A!Next
          /\ UNCHANGED <<jvars, installer, locked, slots, bridges, ofContext, ofFiles>>
       \/ component = "native" /\ N!Next
          /\ UNCHANGED <<ofMachine, context, document, budget, ofFiles>>
       \/ component = "context" /\ C!Next
          /\ UNCHANGED <<ofMachine, native, document, budget, ofFiles>>
       \/ component = "document" /\ D!DocumentNext
          /\ UNCHANGED <<ofMachine, native, context, budget, ofFiles>>
       \/ component = "budget" /\ K!Next
          /\ UNCHANGED <<ofMachine, native, context, document, ofFiles>>
       \/ component = "edit" /\ U!Next
          /\ UNCHANGED <<ofMachine, ofContext, payload, claude, prompts, runs>>
       \/ component = "payload" /\ H!PayloadNext
          /\ UNCHANGED <<ofMachine, ofContext, edit, claude, prompts, runs>>
       \/ component = "claude" /\ L!ClaudeNext
          /\ UNCHANGED <<ofMachine, ofContext, edit, payload, prompts, runs>>
       \/ component = "prompts" /\ P!HistoryNext
          /\ UNCHANGED <<ofMachine, ofContext, edit, payload, claude, runs>>
       \/ component = "runs" /\ R!NextOfRuns
          /\ UNCHANGED <<ofMachine, ofContext, edit, payload, claude, prompts>>

Spec == Init /\ [][Next]_vars

-----------------------------------------------------------------------------
(* Properties; each says in its module what it is about.                   *)

(* What processes share has one owner: the lock directory of the bootstrap *)
(* serializes the npm processes, that of the settings the saves of a       *)
(* preference, which lose nobody else's; a slot that nobody crossed in is  *)
(* not recycled under the Neovim that is attached to it, and a bridge does *)
(* not outlive the session that it was started for and is found under its  *)
(* id while it runs.                                                       *)
SharedNamesHaveOneOwner ==
    /\ component = "installer" => I!OneInstaller
    /\ component = "settings" => G!SettingsAreMerged
    /\ component = "slots" => S!AttachedIsNotRecycled
    /\ component = "bridge" => B!NothingOutlivesItsSession /\ B!RegistryIsTrue

(* Nothing is taken away from where it was handed to: a slot id that no    *)
(* two processes got hold of at once keeps its snapshot until Send, cancel *)
(* or the TTL, and a run that its session took over is aborted by a kill   *)
(* or the shutdown only.                                                   *)
NothingIsTakenAway == S!IdIsKept /\ R!OnlyOwnersAbort

(* A submission reaches the model once, whatever is lost or repeated, and  *)
(* an annotation is on the screen, in a draft or with the model.           *)
FeedbackArrivesOnce == component = "feedback" => A!SubmittedOnce /\ A!NoAnnotationLost

(* A compaction by the provider forgets nothing: every message of the      *)
(* branch is in the opaque history that covers it or is sent, and a        *)
(* request owned by the extension is sent in full.                         *)
HistoryIsKept == component = "native" => N!NothingForgotten /\ N!SentInFull

(* Live context management: a resumed session has the state that was       *)
(* persisted, and what is sent holds nothing foreign and drops nothing     *)
(* that the model has not seen.                                            *)
ContextIsTrue ==
    component = "context" => C!ResumeRestoresState /\ C!NothingForeignIsSent /\ C!NothingUnseenIsDropped

(* An edit of files touches lines that were shown only, and waits for no   *)
(* call that waits for it.                                                 *)
EditsTouchWhatWasShown == component = "edit" => U!OnlyShownLines /\ U!NoQueueCycle

(* Edits land as a whole and on what they were made from: those of several *)
(* files, and those of the context document, on the branch of its snapshot.*)
EditsLandWhole == U!EditsAreAtomic /\ C!EditFitsItsBranch

(* What others wrote is taken as it was meant: an edit of the context      *)
(* document, and the payload of an edit of files, does what is asked for   *)
(* in it; the model is told of the size of its context in time and keeps   *)
(* what it made of it; and a file that other processes append to is read   *)
(* in full and without repeats: the last message of the Claude session     *)
(* that the command was typed in, and the prompts of other Pi instances.   *)
DocumentsAndFilesAreTrue ==
    /\ component = "document" => D!DocumentEditIsTrue
    /\ component = "budget" =>
          K!RemindersComeOnce /\ K!SamplesAreOfTheirRequest /\ K!GuardRespectsEdits
    /\ component = "payload" => H!EveryLineIsMeant
    /\ component = "claude" => L!LastMessageIsTheOne
    /\ component = "prompts" => P!EachPromptOnce /\ P!NoPromptMissed

(* A run in the background answers once, its panel goes with it and its    *)
(* session, and a call that is over is told nothing more.                  *)
DetachedRunsAreAnswered ==
    component = "runs" => R!DetachedRunAnswersOnce /\ R!PanelFollowsRun /\ R!NoUpdateOfOverCall
=============================================================================
