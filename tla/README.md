# A verification project for `tech_pub`

TLA+ models, model-checking runs and proofs for the packages and agent
extensions of `tech_pub` that keep state: the workflow engine (a script spawns
subagents, journals their answers, can be killed, aborted and resumed, and
hands the results of detached runs back), the prompt magazine, nvimotator,
context management and compaction, the edit tool, and the extensions that live
inside a Pi session.

Paths below are relative to the repository. `PROJECT.json` maps each definition
to its lines, each property to a slip in the code it notices, and lists the
hazards the properties are for.

## 1. The system

| Component | State it keeps | Operations | Interacts through |
|---|---|---|---|
| Slot limiter (`createLimiter`, `acquireSlot`/`releaseSlot`) | `active`, `queue` of resolvers | call, release | promises, microtasks |
| Workflow run (`runWorkflow`) | counters `ordinal`, `spawned`, `agentCount`, `spent`; `fatal`; kill registry; snapshot | `agent()`, `parallel()`, `pipeline()`, `workflow()`, `killAgents` | limiter, journal, runner, abort signals |
| Subagent session (`WorkflowAgent.run`) | one Pi session per attempt, flags of its boundary loop | run, abort, wait for a continuation after a compaction | abort signal, session events |
| Run journal (`WorkflowJournal`) | JSONL file, in-memory cache, `firstAppend` | open and replay, append | the file, shared by processes |
| Result delivery | `queued`, `accepting`, `agentActive`, `barriers`, `generation`, `delivering` | enqueue, hold, release, start, settle, reset | Pi's `agent_start` / `agent_settled`, `sendMessage` |
| Extension host and tool call | `pending`, `liveUiClears`, `liveRuns`, shutdown controller, panel | launch, hand over, kill, session start and shutdown | all of the above |
| Prompt magazine (`pi-prompt-magazine`) | a queue of drafts per session in SQLite; lock directory of its installer | stash, pop, browse, order, clear, fork, recover | processes sharing the database |
| Nvimotator (`pi-nvimotator`) | numbered slots under lock files; bridges with manifest, socket and reservation; submission cache; drafts | export, attach, send, import; start, stop, replace; submit, retry, finish | command lines, Pi, Neovim |
| Claude adapter (`pi-nvimotator/claude`) | none; reads transcripts and metadata | find the session, take the last message | files Claude Code writes |
| Context management (`pi-clm`) | projection, checkpoints, settings and annotations, as session entries; a mirror file | render, read, write, commit at turn end, reset, compact | Pi's hooks, the model |
| Server-side compaction (`pi-openai-server-compaction`) | checkpoints, leases, request plans | arm, send, compact, commit, fall back | Pi's hooks, the provider |
| Edit tool (`pi-unified-edit`) | snapshots of what was read, mutation queues | read, edit | files, overlapping calls |
| Extensions (`agent_extensions`) | boundary of a compaction; todo list, panel, terminal patches; timeline; quiz; prompt history | commands, tools, hooks | Pi's events, its renderer, a shared file |
| Parsing, registries, display, articles | none that outlives a call, or what is on the screen | | |

Where it is hard:

* **Interleaving.** JavaScript runs one job at a time, but every `await` is a
  gap. Between a promise settling and its awaiter running, kills, timers,
  aborts and other continuations run.
* **Processes.** Several Pi, Neovim and Claude processes share files; each may
  die at any point, and lock files outlive their owners.
* **Late answers.** A provider, a bridge or a compaction answers after the
  branch, the model, the task or the session it was asked for is gone.
* **Several reasons for one end.** A kill, a stall, an abort, the spawn cap and
  a failing append may all hit the same call.
* **State that is read back.** What an extension knows after a restart is what
  the entries of the session's branch say, and the branch moves.

## 2. The modules

The workflow engine:

| Module | Models | How state and actions correspond |
|---|---|---|
| `Limiter` | `createLimiter`, `acquireSlot`/`releaseSlot` | A call that finds a slot is one step (`Enter`). A call that waits is three: `Park`, the release that resolves it, and `Resume`, the microtask that does `active++` without looking again. `woken` holds the calls in between. |
| `WorkflowRun` | `runWorkflow`/`agent()` and the part of `WorkflowAgent.run` that looks at the signal | One action per job. `stage` is where a call is; `answered`, `stalled` and `thrown` are microtask gaps. The module extends `Limiter`. The script is the environment: any number of calls at any time, also after the run settled. |
| `ReplayOrdinals` | the ordinals of `pipeline()` and the journal key | Continuations run in FIFO order, subagents answer in any order, then the run is resumed. |
| `Journal` | `WorkflowJournal` | The file is the keys on complete lines and a tail: nothing, a fragment, or an entry that only lacks its newline. An append is a look at the tail and a write, which may be cut anywhere. |
| `SerialDelivery` | (abstract) what `result-delivery.ts` promises | Waiting results, one open turn, what was handed over. |
| `ResultDelivery` | the coordinator | The closure's variables are the record `co`; each event is an operator on it. Pi is the environment. |
| `SessionHost` | the extension and the background half of the tool | EXTENDS `ResultDelivery`: its steps are interleaved with launching, registering, killing and closing. |
| `BackgroundRun` | the tool call around `runWorkflow` | A launch in the foreground or handed over, the signals, panel and toasts; agents end and logs come after the run is over. |
| `MidTurn` | `0020-mid-turn-compact.ts` with `promptSession` of `agent.ts` | Both sides of a boundary over one Pi session: abort at a tool follow-up, compaction, the continuation under its lease; and the engine that has to tell it from a failure. |

What processes share:

| Module | Models | How state and actions correspond |
|---|---|---|
| `Magazine` | `pi-prompt-magazine` | A row per session; an action is one IMMEDIATE transaction. A process has the view of its last transaction or poll and the dialog it opened; `MCMagazine` adds the symmetry. |
| `Installer` | `dependencies.ts` | Look, lock directory, npm in a group of its own that survives its parent. |
| `Slots` | `file-store.ts` and its Lua twin | Allocation step by step under a lock created empty: look for an attached Neovim, read, remove, make, publish; import and cancel as the reads and the write they are; attach locks; TTL; both kinds of process die. |
| `SettingsLock` | `withSettingsLock` of `0020-mid-turn-compact.ts` | A directory with an inode and an age beside `settings.json`; make, look, reclaim, probe and undo are steps of their own, then read, truncate, write, release. Inodes may be used again, the file may be left half written. |
| `Bridge` | extension, bridge and registry | A bridge is the number of its creation; start, stop and the refresh of a manifest are queued commands with their awaits, which may fail half-way; a Neovim cleans up after killed Pis. |
| `Annotations` | bridge dispatch, submission cache, Neovim's drafts and retries | A request is on the wire until it is handled, or answered, lost, or handled after its client gave up. |
| `ClaudeSession` | `claude-session.ts` | Transcripts are trees of entries; prompt, answer, `/rewind`, `/clear` and other Claudes run between the command and its run. |
| `PromptHistory` | `0005-shared-prompt-history.ts` | The file is a sequence of half lines; one loop per session with its offset and remainder, stopped loops included. |
| `UnifiedEdit`, `HashLines` | `unified-edit.ts`, `hash-edit.ts` | Calls go through build, queues, prepare, commit and a rollback that may fail for each file, one await a step, outsiders write between; the line operations of a payload. |

What a session keeps and sends:

| Module | Models | How state and actions correspond |
|---|---|---|
| `NativeCompaction` | `openai-server-compaction.ts` | A context is the set of messages it stands for; requests and compactions under generation and lease, the branch as a tree of entries. |
| `Clm` | `pi-clm/src/index.ts`, `state.ts`, `continuity.ts` | The branch's entries and what was rebuilt from them; the mirror, the edit read at turn end over its awaits, resets, tree moves, failing appends. |
| `ContextDocument` | `context-document.ts` | Snapshot, edited document and the result of applying it, as operators on sequences. |
| `ClmBudget` | `pi-clm`: `budget.ts`, `overflow.ts`, `observation.ts`, `applyCap` and `guardOverflow` of `index.ts` | One hook of Pi is one action: the request with cap, guard and reminder; the provider's turn, with its count, an accepted edit or a failure; compaction, tree moves, model and setting changes. A message is its role, size and turn. |
| `TodoList`, `TodoHud`, `TodoViewport` | `0022-todo.ts` | The list as the last result on the branch; the overlay with its promises and render cache; the window's arithmetic. |
| `TuiPatches`, `Timeline` | the patches of `0014-timeline.ts` and `0022-todo.ts`; the rail | A stack of wrappers with copies and sessions; turns, selection from the last frame, and scrollbars, of which the user may set any. |
| `Quiz` | `0023-quiz.ts` | Issue, settle, timer, form, answers as follow-up, restart, and moves in the session's tree: the branches' logs are state, the pending quiz is the session's. |

Compositions: `SideBySide` takes fifteen of these and `SessionExtensions`
seven. The components of each share no state, so their product would only
multiply states: a behaviour chooses one component, which runs while the others
rest in an initial state. `SideBySide` extends `SharedNames`, which instantiates
the five about names that processes share (`Journal`, `Installer`,
`SettingsLock`, `Slots`, `Bridge`) and is a module of its own so that their
proofs need not know the other ten, `SessionParts`, which does the same for
`Annotations`, `NativeCompaction` and `BackgroundRun`, and `EditParts`, which does it
for `UnifiedEdit` and `Clm`. Components that do interact are in one module
(`MidTurn`, `Annotations`, `Slots`, `TuiPatches`), or one extends the other
(`SessionHost`, `WorkflowRun`).

The theorems are in `WorkflowRunProofs` (the limiter and the run),
`SharedNamesProofs`, `SessionPartsProofs` (feedback, background runs, server-side
compaction), `EditPartsProofs` (the edit tool, live context management), `SessionHostProofs` (the
extension and its delivery), `MagazineProofs`, `SessionExtensionsProofs` (mid-turn compaction, the
quiz) and `SideBySideProofs`: section 5.

Abstractions. Texts, labels, results and messages are numbers or model values:
nothing modelled branches on what they say. A digest is what it is made of. A
token count is 1 per prompted attempt. In `WorkflowRun` a call and its journal
key are one number, which is right for a deterministic script that makes its
calls in a fixed order; `ReplayOrdinals` is about the others. History variables
(`excess`, `served`, `acked`, `exposed`, `wanted`, `sends`, `resumed`,
`disturbed`, `stuck`, `overlapped`, `inGap`, `strayed`, `issued`, `spoiled`,
`crossed`, `untidy`, `overruled`, `reminders`, `learned`, `unseen`) are read by no
code guard, only by properties and bounds. Those that mark exceptions
(`spoiled`, `crossed`, `untidy`, `stuck`, `overruled`, `overlapped`, `inGap`,
`strayed`) are explained in section 4: the code does these things, the models
do them too, and the properties are about the rest.

## 3. The runs

| Run | Instance | What it shows |
|---|---|---|
| `limiter` | 4 callers that come back, 2 slots | No slot leaks or is counted twice; nobody is parked while a slot is free and unpromised; the limit is passed by barging only; every parked call is admitted. |
| `limiter_cap` (violated) | 3 callers, 1 slot | `active <= limit` is false: section 4. |
| `workflow_run` | 4 calls, 1 slot, cap 2, budget 2, 1 retry; call 2 is journaled, call 3 isolated | The interleavings of replay, spawn, stall, retry, kill, abort, cap and budget (some 180,000 states). |
| `session_host` | 2 invocations, 2 run directories, 2 sessions, 1 hold, 2 user turns, 1 dropped turn, any send may throw (176,000 states) | Every live run is reachable, shutdown leaves none; results are delivered, none is lost or changes session; refinement of `SerialDelivery`. |
| `session_reuse` (violated) | the same, a launch may resume a live runId | The registries lose a run: section 4. |
| `pipeline_replay` (violated) | 2 items, 2 stages, 1 resume | A finished call runs again: section 4. |
| `magazine` | 2 processes (one browses), 2 sessions, 3 drafts, queues of 2, 3 starts | No draft is lost, in two queues or moved by mistake, whatever stale list a dialog shows. |
| `attached_slot` (violated) | 1 command line, 1 Neovim, 1 slot, 2 exports | A slot is recycled under a Neovim that attached between the look and the removal: section 4. |
| `side_by_side` | 15 components, see below (some 930,000 states) | What is shared has one owner, is read in full and once; feedback, history and context are kept; edits land whole. |
| `session_extensions` | 7 components, see below (346,000 states) | A stopped task goes on once and as itself; screen, list and terminal agree; answers fit their quiz, which opens. |
| `midturn_false_failure` (violated) | 2 boundaries | The engine fails a subagent whose continuation is on its way: section 4. |
| `tool_groups` (violated) | 2 exchanges, edits of 2 steps | An edit is refused for its tool calls: section 4. |

*Bounds and why they are enough.* The limiter needs two slots and two waiters to
tell a hand-over from a barge, and callers that return to starve somebody. The
run needs one replayed, one isolated and two plain calls with a single slot, so
that calls queue, the cap trips with one of them queued, and one call's two
attempts use up the budget. `MaxSessions`, `MaxUserTurns` and `MaxDrops` bound
the environment of delivery: one dropped turn is enough to stick, two sessions
to cross over; three results and two holds that overlap are left to the proof
(`DeliveryIsSerial`, `AcceptedIsNotLost`). The magazine's queue of two overflows
with the third draft; three starts let a session end, come back and be forked.
In `side_by_side`: the journal has 3 opens of 2 keys and `MaxFailures = 2`, to
tear a healed line again; 3 installers, so that one waits while one dies and one
comes late; 2 processes that save their preference, over inodes that come back;
one slot, one command line, 2 Neovims and 2 exports, so that the full pool
recycles (two command lines are left to the proof, which holds for any number);
3 bridges over 2 session generations; a submission cache of one, 2 snapshots and
2 attachments, so that what is retried may have been forgotten; 2 requests and a
compaction that overlap on a tree of 4 entries; 4 messages in 6 entries, one
reset and 2 further events of context management; 3 hooks over a window that
changes once, with a cap of 2 against results of 4, so that a tier is crossed,
left and crossed again; payloads of 3 operations on 2 lines; 2 files and 2 edits
of them, with one mishap (a failure or an outsider) between and one file that
the rollback fails on (an outsider *and* a failure, which make a rollback skip a
file, are left to the proof); 2 Claude sessions of 5 entries; 2 prompts of one
further piece, one trim, 2 sessions; 2 runs and one shutdown. `MAX_SEEN_IDS`,
`MAX_CACHE_ENTRIES` and `HASH_HISTORY_DEPTH` are the code's limits made small
enough to be reached. In `session_extensions`: 2 boundaries, 2 tasks and 3
turns; lists of 2 tasks in 2 phases over 3 entries; 10 rows against row limits
of 4, 5 and 7, around every change of the indicators; 2 copies of a patch; 2
turns and 2 views of the rail; 2 quizzes and 3 episodes (turns, restarts, moves
in the tree), so that a quiz is left, answered elsewhere and come back to. Each
bound is a constant named `Max...` in a guard.

*Deadlock* is checked for the limiter. The others stop legitimately: a script
that has made its calls, sessions that are used up, bounds that are reached.

*Fairness.* A queued microtask runs (`Resume`, the stages of `Body`, `Unregister`).
Work in a slot ends: an attempt answers, fails, or stays silent until the stall
timer aborts it; git exits. `RunAborts` is the rejection of `abortPromise`.
The host starts the turns it accepted unless it fails to, and ends them; a
command handler reaches its `finally`. An aborted run settles. Pi's session
goes on with a run it began (`Works`), the grace timer and the quiz timer fire,
the agent settles. Nothing is assumed of scripts, kills, aborts, users or
session changes, and fairness is weak throughout.

## 4. Where documents and code disagree

Shown by a run:

* **The concurrency cap.** `packages/pi-dynamic-workflow/README.md:326` and
  `worktree.ts:36` state a bound. `createLimiter` checks it before it waits and
  not after, so a call made between a release and the continuation it woke takes
  the same slot (`limiter_cap`). What holds is `OverflowOnlyByBarging`.
* **One runId, two runs.** The registries are keyed by runId and a launch may
  resume one that is running; the older entry is overwritten and the first of
  the two to settle deletes the other's (`session_reuse`). With
  `ReuseLive = FALSE` all properties of `session_host` hold.
* **Stable ordinals in `pipeline()`.** `workflow.ts:637-639` promises them;
  later stages take ordinals in the order the earlier ones answer, so a resume
  misses finished calls (`pipeline_replay`). With one stage it holds.
* **No failure in the gap.** `agent.ts:41-42` says the engine must not declare a
  failure between a boundary and its continuation. A later boundary has two
  gaps, before and after its compaction, and one grace for both
  (`midturn_false_failure`). For the first boundary it holds.
* **Broken groups.** `packages/pi-clm/docs/architecture.md:110-111` has them
  flattened "rather than rejecting the edit". The repair flattens a stray result
  in place after the calls were checked, which cuts off the results behind it,
  and the edit is rejected (`tool_groups`).
* **An attached slot.** `tests/file-store.test.ts:133` says that the store "never
  recycles a slot that is still attached". The look for `attach.lock`, the reading of
  `meta.json` and the removal (`file-store.ts:326-336`) are awaited one by one,
  and a Neovim looks neither at `N.lock` nor at the TTL, so it can attach in
  between to a slot whose TTL is over (`attached_slot`). Outside that window it
  holds (`AttachedIsNotRecycled`).
Met while modelling; the models contain the steps, and a constant or a
condition in a property leaves them out of the passing runs:

* **Crossed slots** (`crossed`). A slot id can lose its snapshot when two processes
  get hold of the slot at once: a Neovim attaches in the window above, and its Send
  writes the old `meta.json` over the next export; it attaches again to the slot
  that it holds, which unlocks it; a second command line finds the allocation lock
  without a pid, takes it for stale and takes it over (`file-store.ts:461-463`), so
  that both publish under one id; or an import or a cancellation (`229-287`) writes the
  `meta.json` that it read back over that of another export. The models take all these
  steps, with any number of command lines; `IdIsKept` and `AttachedIsNotRecycled`
  are about the slots in which none of them happened.
* **The registry of bridges.** With two Pis `RegistryIsTrue` fails, so the run has one,
  while `NothingOutlivesItsSession` holds for any number: a start that fails is cleaned
  up twice by name, by the bridge and by the one that started it, and in between
  another Pi may take the id; and a refresh renames its manifest over whatever is there
  by then. With one Pi too a manifest may stay behind a bridge that stopped, when a
  refresh that had read it renames after the stop (`registry.ts:191-204`), when a
  removal in `stop()` throws and the others are left out (`bridge.ts:150-158`), and
  when `publishManifest` fails behind its link (`registry.ts:180-184`): `untidy`.
  No running bridge loses its files by it, and no id is handed out twice.
* **A rollback that fails.** The edit tool takes the rollback "on a best-effort
  basis" (`unified-edit.ts:342`): a file that cannot be read, written or removed is
  reported and passed over (`333-335`), so part of an edit stays. `stuck` counts these,
  and `EditsAreAtomic` says that such a file stays behind alone (`StaysBehind`): the
  rollback goes on with the others.
* **A quiz on another branch.** The pending quiz is kept by session
  (`0023-quiz.ts:617-637`) and hears nothing of `/tree`: it can be opened and answered
  on a branch where it was never issued, and a quiz that this branch ended with is then
  no longer found when the session is resumed. `strayed` holds the quizzes that were
  taken to a branch that does not end with them; after a restart a quiz is found
  again from the branch that is there.
* **A hidden scrollbar.** `0014-timeline.ts:1094-1095` has a setting preserved that
  was changed while the timeline is visible. "hidden" is not: the rail cannot tell
  it from its own, and puts the one from before back.
  `ChangedSettingsArePreserved` of `Timeline` states the comment, TLC finds it
  violated, and it is in no run; `ScrollbarsAreGivenBack` has every other setting
  preserved, with `overruled` for this one.
* **The settings lock.** `0020-mid-turn-compact.ts` says that a "merge starts from
  the latest complete settings written by every cooperating Pi process". A
  holder that is suspended for ten seconds loses its lock, and two processes
  that find the same stale directory may both go on to remove it: `spoiled`
  marks both, and `SettingsAreMerged` is about the rest.
* **A count from before the edit.** `budget.ts:52-54` has a stale observation
  never govern. `observedStale` (`pi-clm/src/index.ts:766-770`) compares the index
  of the answer with the number of messages the checkpoint was made from; the
  answer in whose turn the edit was accepted has that very index, so its count
  governs the next reminder although the context has just been reduced.
  `ClmBudget` does as the code does.
* **A snapshot that returns** (`SnapshotsReturn`): the submission cache is
  emptied whenever the snapshot changes, so a retry after A, B, A is sent twice.
* **A hook of another extension that awaits** (`HooksAwait`) lets a request be
  armed in a state other than the one it was made in. Without one the hook reads
  the branch in the turn in which its stream starts; the leaf it reads again
  after the conversion. Pi makes one request at a time and neither appends nor
  moves in the tree while one is under way (`PiIsIdle`).
* **Pi compacting a subagent by itself** (`AutoCompaction`) meets the
  extension's own boundary.
* **`/nvim-last` run before the prompt is in the transcript**
  (`CommandIsWritten`) takes an older message. When the newest branch has no
  answer yet, the fallback returns an orphan, although
  `pi-nvimotator/claude/README.md:90` says "`/rewind` orphans are skipped".
* **User turns in preflight** (`UserPreflight`): `agent_start` carries no
  identity, so such a turn is taken for the delivered result's.
* **The todo panel's repaint.** `0022-todo.ts:1534` has cached rows dropped when
  the panel is not painted, but the cache is passed by when there is no
  component at all: `FrameIsShown` of `TodoHud` is stated and in no run.
* **Timeline.** Loaded after the todo extension, its uninstall restores blindly
  and leaves one dormant wrapper per session (`NothingLeftBehind` is stated for
  the order of the files' numbers). `SelectionStays` is stated and in no run.
* **Quizzes issued while a form is open** open at the next settle only, and are
  lost by a submit; `overlapped` and `inGap` mark them.
* **Live context.** The nonce is stable within a revision, so in clm mode an edit
  of an older rendering drops messages it never showed (`NothingUnseenIsDropped`
  is stated for the conservative mode).
* **Reads of the edit tool** are two reads, and a file that changes between them
  is recorded with lines that were not shown; a write that fails half-way is not
  part of the rollback. `disturbed` marks such a write, and outsiders between
  prepare and commit.

## 5. What is proved

The proofs hold for every value of the constants that satisfies the named
assumption of the module (`LimiterAssumption`: a positive limit, any number of
callers; `RunAssumption`: naturals, journaled and isolated calls are calls; `SharedNamesAssumption`: the markers are no processes, slots or
inodes, bridge ids are positive; `SessionPartsAssumption`: naturals, the bridge
remembers one submission at least, and which models can do what is
nested; `EditPartsAssumption`: files are numbers and finitely many, the history of
snapshots has room for one, the marker is no call; `DeliveryAssumption`: the markers for a user's
turn and for no delivery are no results; `MagazineAssumption`: the marker is no
session, the queue has room for one; `SessionExtensionsAssumption`: the questions of
a quiz are numbered).

* **Limiter.** `LimiterInvariant` proves `LimiterInv`: the properties plus
  `ListsMatchStates`, which says that `queue` and `woken` hold calls of that
  state, each once. Without it a release could hand its slot to a call that
  runs already, so `ActiveCountsRunning` is not inductive alone. From it:
  `LimiterTypes`, `SlotsAreNeverLeaked`, `WaitersAreCovered`,
  `OvershootIsBarging`.
* **Run.** `RunImplementsLimiter`: every step of a run is a step of the limiter
  or leaves it alone, so that the limiter's invariant holds inside a run by the
  same lemmas. `RunInvariant` adds `CallInv`, which ties the fields of one call
  (outcome, journal, kill control, slot, status) to its stage; each property
  relates two of these fields, and only their common dependence on the stage is
  inductive. From it: `RunTypes`, `ReplayIsFaithful`, `KillsReachBodies`,
  `SessionsAreBounded`, and the action properties `CancelledDeliversNothing`
  and `FinalStatusStays`. `CapBoundsSpawns` counts: the calls with an attempt
  are among those admitted, and `spawned` counts those up to the cap.
  `TokensAreCountedOnce`: the property is a fold over
  the calls, so `TokensAreASum` first turns it into a sum (`TokenInv`), of which
  lemmas show, by induction on the sets it runs through, that it grows by what
  one summand grows.
* **Magazine.** `MagazineInvariant`: a row holds drafts that were made, each once
  (`RowInv`), two rows share forked ones only (`Sharing`), and what a process, or
  its recovery dialog, saw of a row is the row or an earlier revision of it
  (`Saw`); every step leaves a row alone or takes it to a later revision
  (`Grows`). From it: `DraftsStayApart`, `RevisionsAreNames`, and the action
  properties `DraftsLeaveOnlyDeliberately` and `OnlyGrabbedEntriesMove`.
* **Journal.** `JournalInvariant`: while no failed write was left to a process
  past its first append, every process that finds an unclean tail will look at
  it first (`HealerWatches`); and the acknowledged entries without a line of
  their own, plus the one the next write may glue, are paid for by such
  failures (`LossIsPaid`). From it: `JournalTypes`, `WhatWasServedStays`,
  `LossStaysContained`.
* **Delivery.** `ResultsInvariant`: a result is fresh, waiting or sent, each once,
  and what the session accepted is accounted for. The lemma `FlushCases` says
  what a flush can do (nothing, throw the whole queue away, or send one entry
  after throwing away those before it); with it every event preserves the
  invariant, and every event is one of the steps of `SerialDelivery` or none
  (`DeliveryIsSerial`, with no condition on the host). That no two results are
  with the host and that nothing is sent to a busy parent needs two more parts,
  `HoldInv` (the barrier counts the holders of the open session, no hold is of a
  session to come) and `TurnInv` (the host was asked for at most the turn of the
  result being delivered). `TurnInv` is inductive only with
  `UserPreflight = FALSE`, the condition of `OneTurnPerResult` and
  `SentToIdleParentOnly`; TLC finds `OneTurnAtATime` violated without it.
* **Host.** `HostUsesDelivery`: the extension's steps are steps of the coordinator
  or leave it alone. `HostInvariant` adds that live runs have directories of
  their own (`DirectoriesApart`), without which the callbacks of one run
  unregister another, that a closing session awaits every run
  (`ShutdownAwaitsAll`), and that what runs or waits is of the open session
  (`OfThisSession`). From it, with `ReuseLive = FALSE`, the condition that
  `session_reuse` shows to be needed: `RunsAreReachable`, `ShutdownIsQuiet`,
  `ResultsStayHome`.
* **Background runs.** `RunsInvariant`: a live run is known to the session it
  belongs to, also while that one closes (`SessionKnows`), and its panel is up
  exactly while it is live (`PanelInv`). From it: `AnswersOnce`, `PanelFollows`,
  `OverCallIsToldNothing`, and the action property `OwnersAbort`.
* **Installer.** `InstallersAreSerialized`: `OneInstaller` is strengthened by
  `LockedIsAlone`: whoever has just taken the lock directory finds no npm at
  work. Without it the step that starts npm could start a second one.
* **Settings.** `SavesAreMerged`: until something is `spoiled`, whoever owns the
  lock made the directory that is there, which is not old, one process at most is
  about to remove an old one (`SaverInv`), and what a save has merged is what was
  saved last (`MergeInv`). So a removal robs nobody, and nothing that was saved
  is written over.
* **Slots.** `AttachedSlotsStay` and `IdsKeepTheirSnapshot`, for any number of command
  lines, Neovims and slots. Until a slot is crossed (section 4), a Neovim that is
  attached holds the lock of its slot and the `meta.json` that is there
  (`HoldsItsLock`, `HoldsTheSnapshot`), one command line at most is past the look at
  the slot (`HostsOwnTheirs`), and from that look to the publication no Neovim holds
  it (`TakenIsFree`), so that what is removed or written back is nobody's.
* **Bridge.** `BridgesEndWithTheirSession` holds for any number of Pis: a running
  bridge is known to its process and belongs to the session, is about to be
  looked at, or has the end of its session in its process's queue (`LifeInv`).
  `RegistryTellsTheTruth`, under `OneProcess` (section 4): each file of the registry
  is that of a bridge, running or lost, with this id, of the start under way, or of
  a stopped bridge that is `untidy` (`RegistryInv`); a start draws an id whose
  manifest is absent, so it overwrites none.
* **Feedback.** `AnnotationsAreKept` holds with no condition. Its invariant
  `KeepingInv`: the draft of the present identity is what is on the screen, an
  "ok" to a submission says that its annotations are with Pi, and a bridge is
  asked to close only by an empty screen. `SubmissionsAreSentOnce` needs
  `OnceInv`: what may be sent again under the present identity, from the screen,
  a draft or the wire, and was sent is remembered as scheduled; other
  submissions the bridge may forget. It holds when every content has an identity
  of its own (`SnapshotsAreNew`); with `SnapshotsReturn` the cache has forgotten
  what comes back, see section 4.
* **Edit tool.** `OnlyShownLinesAreEdited`, `QueuesAreNoCycle` and `EditsAreWhole`
  rest on `EditInv`: a snapshot takes for read only what was shown of its text,
  which the sections of a call inherit; the queues that a call holds are those of
  its first files, in the order of their names; and a call that commits has
  written its first files, of each of which it knows what was there before. A ring
  of calls that wait for one another would have a greatest file that one of them
  waits for and another holds while it waits for a greater one (`GreatestOf`), so
  the ring may have any length. `EditsAreWhole` says the same of the texts: while
  nobody else gets into a commit, the files are those from before plus some of
  the call's own, and the rollback takes back these, one by one, except for those on
  which it fails.
* **Server-side compaction.** `HistoryInvariant` proves `HistoryInv`: the paths of
  the tree agree with one another (`TreeInv`); every checkpoint stands for all
  that was said before it; what was captured of a request is whole up to the leaf
  it was captured at (`CapturedInv`), also in a compaction that keeps it while
  the extension forgets it; a stream has, by itself or in its plan, all that was
  said when it started (`StreamInv`); and Pi's own compactor has its branch. So
  whatever a slow provider answers, `canCommit` lets in only an artifact that
  extends what is on the branch. The condition is `HooksAreFirst`
  (`HooksAwait = FALSE`): TLC finds `SentInFull` violated without it. From it:
  `CheckpointsForgetNothing` and `RequestsSayEverything`.
* **Live context.** `ContextInvariant` proves `ContextInv`: what is live (state,
  history, notes, settings) is what the branch's entries say (`BranchInv`), so a
  resumption finds it; a request holds messages of the branch only, and with those
  that its checkpoint dropped all of them (`RequestInv`); a turn is compared with
  the document that was sent in it (`BaselineInv`); and an edit that is read back
  while others go on was made from a prefix of what is on the branch, unless the
  epoch has moved (`EndInv`), which every reset, tree move, compaction and new
  session moves. That nothing foreign is sent needs the checkpoints of the branch to
  hold messages of their own source (`BranchOk`); that nothing unseen is dropped, in
  the conservative mode, that each also knows what it dropped of it. From it:
  `ResumeRestoresState`, `NothingForeignIsSent`, `NothingUnseenIsDropped`
  (`InvOfContextMeans`) and the action property `EditsFitTheirBranch`. No condition
  on the constants is needed. What a rebuilt transcript is, is written with `Kept`,
  which says of a sequence which members stay, and not with a fold, so that it can be
  reasoned about.
* **Mid-turn compaction.** `LeaseInvariant`: a boundary that waits is that of the
  present task, and nobody was resumed under its lease (`LeaseInv`). Whatever changes
  the task (a prompt, a steering message, another branch) cancels the boundary, and
  a resumption consumes it in the same synchronous step. From it:
  `ContinuesItsOwnTask`.
* **Quiz.** `QuizInvariant`: the form and the pending quiz are of a quiz that was
  issued and show the notes that they will send (`FormInv`); and, with the exceptions
  of section 4, what is pending, shown or waits as answers is about the quiz that the
  present branch ends with, and is in one of these places only, while in every branch
  of the tree the answers stand behind their quiz (`PlaceInv`). The second half is what
  makes it inductive over `/tree`: a branch that is come back to has to be as
  good as the one that is left. From it: `AnswersAreOfTheirQuiz`.
* **The whole.** `EachIsItself`: every behaviour of `SideBySide` is a behaviour of
  each of its components, since a step of another leaves the variables alone. By
  it `SharedNamesAreOwned`, `FeedbackArrives`, `NothingIsLostToOthers`,
  `JournalKeepsWhatItServed`, `RunsAreAnswered`, `EditsAreOfWhatWasShown`,
  `EditsLandAsAWhole`, `ContextStaysTrue` and `HistoryStaysWhole` state of the
  checked system what was proved of its parts.

Only model-checked: liveness (`ParkedIsAdmitted`, `AcceptedCallsSettle`,
`KillWins`, `WaitingIsDelivered`, `ShutdownFinishes`, `StoppedTaskGoesOn`,
`QuizOpens`), which the prover does not reach. `DocumentsAndFilesAreTrue` and
`ScreenIsTrue` are about what folds and searches over sequences compute (the
repair of a document, tiers and reminders, payloads, transcripts, prompts, panels),
which needs induction over data.

## 6. Not modelled

* Parsing, built-in workflows, registries, rendering: pure functions and text.
  So are the viewer and the tokenizer of `pi-clm`, the conversion of payloads in the compaction
  package, the other payload syntaxes of the edit tool, and the codex adapter.
* `agent_extensions/0017-openai-server-compaction.ts` and other older copies of
  packaged code.
* The sandbox in which a script runs, and nested `workflow()`, which shares the
  parent's hooks: a script is any sequence of calls.
* The teardown of a subagent session, and how Pi schedules turns: outside the
  repository, with the switches of section 4.
* The budget is checked when `agent()` is called and not again when the call
  leaves the queue: modelled as it is, and nothing is claimed about it beyond
  `TokensRecordedOnce`.
* The settings dialogs; ssh, the prompt pin
  and the token counter, which wrap single calls.
* In `Slots` a round of the allocation inspects all slots in one step, the look at a
  candidate and the `open` of its allocation lock are one (what matters is looked at
  again with the lock held), as are the read and the unlink of a stale
  attach lock, and the reads and writes of one Lua function.
* In `Bridge` the files of one id that one function removes in a row go in one step,
  but for a removal that throws; a failing removal in the catch of a failed
  start is left out.
* `PromptHistory` takes a chunk of bytes for the text it stands for: a poll that ends
  inside a multibyte character decodes both halves apart
  (`0005-shared-prompt-history.ts:508`), which loses that character and not the prompt's
  line. Only the length and the order of what is read matter to its properties.
* In `PromptHistory` the file does not grow back to the size that was read
  between a trim and the next poll: only sizes are compared.

## 7. Plan

1. Done: the workflow engine with the proofs of section 5, and the modules of
   section 2.
2. Proofs: the parts of `DocumentsAndFilesAreTrue` that are no computation over
   sequences (the stopped loops of `PromptHistory`, the samples of `ClmBudget`), once
   the others are split off.
3. The exceptions of section 4 shrink as the code closes them: a pid in the allocation
   lock before it is visible, a look for the attachment after the removal, a refresh
   that gives up once its bridge stops, a `session_tree` handler of the quiz.
4. Nested `workflow()`, the other payload syntaxes, the codex adapter.
