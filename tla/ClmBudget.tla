------------------------------- MODULE ClmBudget -------------------------------
(***************************************************************************)
(* What pi-clm does about the size of the context (budget.ts, overflow.ts, *)
(* observation.ts and their calls in index.ts): before a request it learns *)
(* from the provider's count of an earlier one, caps the results of tools, *)
(* withholds the oldest of them while the estimate is over the limit, and  *)
(* reminds the model when a tier of the budget is crossed; afterwards it   *)
(* lifts the length that Pi grants to the answer.                          *)
(*                                                                         *)
(* A message is its role, its size and the request in whose turn it came.  *)
(* The turn of an answer, with the edit of the document that is accepted   *)
(* at its end, is one step (Clm has it in several), and an edit keeps or   *)
(* drops whole turns.  A short text counts one token.  Left out: notices   *)
(* of continuity, settings that fail to be saved, what a notice says.  Pi, *)
(* the provider and the model are external.                                *)
(***************************************************************************)
EXTENDS Integers, Sequences, FiniteSets, SequencesExt

CONSTANTS
    Budgets, Reserves, Reminds, Caps, GuardModes,   \* settings; a budget and a cap may be None
    Windows,                            \* of the models; None while there is no model
    Counts, Sizes,                      \* what a provider reports; a prompt, what a tool returns
    MARGIN, MAX_TOKENS,                 \* Pi's safety margin, the longest answer of a model
    MaxHooks, MaxChanges, MaxRaw,       \* bounds
    None

VARIABLES
    budgetPolicy, contextWindow,        \* settings, the window of the model or None
    rawMessages, accepted,              \* Pi's messages; the checkpoint: what it stands for
    enabled, tracker, calibrator, lastBudgetReading, outcomeNotice,
    lastRequest, inFlight,              \* what was sent, and is its answer awaited
    reminders,                          \* history: what the tracker saw, and the tier it named
    learned, unseen,                    \* history: the last sample; requests sent while it was off
    hooks, changes

settings == <<budgetPolicy, contextWindow>>
session == <<rawMessages, accepted>>
extension == <<enabled, tracker, calibrator, lastBudgetReading, outcomeNotice>>
ghosts == <<reminders, learned, unseen>>
vars == <<settings, session, extension, lastRequest, inFlight, ghosts, hooks, changes>>

Short == 1
Least(m, n) == IF m < n THEN m ELSE n
Most(m, n) == IF m < n THEN n ELSE m

Policies ==
    [budget : Budgets, reserve : Reserves, remind : Reminds, cap : Caps, guard : GuardModes]

Message(role, size, turn, tokens) ==
    [role |-> role, size |-> size, turn |-> turn, tokens |-> tokens, note |-> FALSE]
Tokens(messages) == FoldLeft(LAMBDA sum, m : sum + m.size, 0, messages)

(* selectContextVisibleMessages                                            *)
Visible(messages) == SelectSeq(messages, LAMBDA m : m.role # "excluded")

-----------------------------------------------------------------------------
(* The budget and its tiers; of those with the same tokens the more urgent *)
(* one stays, of rank 4 the one at the reserve.                            *)

Budget == IF budgetPolicy.budget # None THEN budgetPolicy.budget ELSE contextWindow
Reserve == Least(budgetPolicy.reserve, Budget)

Fractions == {<<50, 1>>, <<75, 2>>, <<90, 3>>}
AllTiers ==
    {[rank |-> f[2], tokens |-> (Budget * f[1]) \div 100] : f \in Fractions}
        \cup IF Reserve > 0 /\ Budget - Reserve > 0 THEN {[rank |-> 4, tokens |-> Budget - Reserve]} ELSE {}
BudgetTiers ==
    IF ~budgetPolicy.remind THEN {}
    ELSE {t \in AllTiers : \A u \in AllTiers : u.tokens = t.tokens => u.rank <= t.rank}

(* BudgetTracker: what has fired, for which tiers; history: it was reset.  *)
NewTracker == [fired |-> {}, tiers |-> {}, fresh |-> TRUE]
ResetTracker(t) == [t EXCEPT !.fired = {}, !.fresh = TRUE]

Reached(tiers, tokens) == {t \in tiers : t.tokens <= tokens}
StillFired(tiers, tokens) ==
    {r \in IF tiers = tracker.tiers THEN tracker.fired ELSE {} : \E t \in Reached(tiers, tokens) : t.rank = r}
Crossed(tiers, tokens) == {t \in Reached(tiers, tokens) : t.rank \notin StillFired(tiers, tokens)}
Top(tiers) == CHOOSE t \in tiers : \A u \in tiers : u.tokens <= t.tokens
Told(tiers, tokens) == IF Crossed(tiers, tokens) = {} THEN None ELSE Top(Crossed(tiers, tokens))
Fired(tiers, tokens) ==
    StillFired(tiers, tokens) \cup
        IF Crossed(tiers, tokens) = {} THEN {}
        ELSE {t.rank : t \in Reached(tiers, Top(Crossed(tiers, tokens)).tokens)}

-----------------------------------------------------------------------------
(* EstimateCalibrator: a factor between 1 and 4, as a fraction.            *)

NewCalibrator == [n |-> 1, d |-> 1, samples |-> 0, pending |-> None]
Apply(c, tokens) == (tokens * c.n + c.d - 1) \div c.d

Reported == {i \in DOMAIN rawMessages : rawMessages[i].role = "assistant" /\ rawMessages[i].tokens > 0}
LastReported == CHOOSE i \in Reported : \A j \in Reported : j <= i

(* Positions count from one, an index from zero.                           *)
Samples == calibrator.pending # None /\ Reported # {} /\ LastReported > calibrator.pending.rawCount

Clamped(c) ==
    IF c.n < c.d THEN [c EXCEPT !.n = 1, !.d = 1] ELSE IF c.n > 4 * c.d THEN [c EXCEPT !.n = 4, !.d = 1] ELSE c

Observed ==
    LET c == calibrator
        tokens == rawMessages[LastReported].tokens
    IN  IF ~Samples THEN c
        ELSE Clamped([n |-> IF c.samples = 0 THEN tokens ELSE c.n * c.pending.estimate + tokens * c.d,
                      d |-> IF c.samples = 0 THEN c.pending.estimate ELSE 2 * c.d * c.pending.estimate,
                      samples |-> c.samples + 1, pending |-> None])

-----------------------------------------------------------------------------
(* The cap and the overflow guard.                                         *)

Capped(messages) ==
    LET Cap(m) == IF budgetPolicy.cap # None /\ m.role = "result" /\ m.size > budgetPolicy.cap
                  THEN [m EXCEPT !.size = budgetPolicy.cap + Short] ELSE m
    IN  [i \in DOMAIN messages |-> Cap(messages[i])]

Suffix == IF accepted = None THEN rawMessages ELSE SubSeq(rawMessages, accepted.count + 1, Len(rawMessages))
Effective == Capped(Visible((IF accepted = None THEN <<>> ELSE accepted.messages) \o Suffix))
ProtectBefore == IF accepted = None THEN 0 ELSE Len(Effective) - Len(Visible(Suffix))

Candidates ==
    LET all == Effective IN {i \in ProtectBefore + 1 .. Len(all) : all[i].role = "result" /\ ~all[i].note}
Withholding(S) ==
    LET all == Effective
    IN  [i \in DOMAIN all |-> IF i \in S THEN [all[i] EXCEPT !.size = Short, !.note = TRUE] ELSE all[i]]

Limit ==
    IF contextWindow = None THEN Budget - Reserve
    ELSE Least(Budget - Reserve, contextWindow - MARGIN - Reserve)
Guards == budgetPolicy.guard = "withhold" /\ Budget # None

Notice(b) == IF b THEN Short ELSE 0
Estimated(c, messages) == Apply(c, Short + Notice(outcomeNotice)) + Apply(c, Tokens(messages))
Fits(c, S) == Estimated(c, Withholding(S)) <= Limit

(* Mutant: a slip that the properties must notice.                         *)
Oldest_Newest(k) == {i \in Candidates : Cardinality({j \in Candidates : j > i}) < k}

Oldest(k) == LET all == Candidates IN {i \in all : Cardinality({j \in all : j < i}) < k}
Withheld(c) ==
    IF ~Guards THEN {}
    ELSE LET enough == {k \in 0 .. Cardinality(Candidates) : Fits(c, Oldest(k))}
         IN  IF enough = {} THEN Candidates ELSE Oldest(CHOOSE k \in enough : \A j \in enough : k <= j)

-----------------------------------------------------------------------------
(* The reading, and the length of the answer.                              *)

ObservedStale == accepted # None /\ LastReported <= accepted.count
Governing(estimated) ==
    IF Reported = {} \/ ObservedStale THEN estimated ELSE Most(estimated, rawMessages[LastReported].tokens)

Granted == Most(1, Least(MAX_TOKENS, contextWindow - Tokens(rawMessages) - MARGIN))
Lifted(estimated) ==
    LET desired == Least(MAX_TOKENS, contextWindow - estimated - MARGIN)
    IN  IF desired > 1 THEN Most(Granted, desired) ELSE Granted

-----------------------------------------------------------------------------
Init ==
    /\ budgetPolicy \in Policies /\ contextWindow \in Windows
    /\ \E size \in Sizes : rawMessages = <<Message("user", size, 0, 0)>>
    /\ accepted = None
    /\ enabled \in BOOLEAN /\ tracker = NewTracker /\ calibrator = NewCalibrator
    /\ lastBudgetReading = None /\ outcomeNotice = FALSE
    /\ lastRequest = None /\ inFlight = FALSE
    /\ reminders = <<>> /\ learned = None /\ unseen = {}
    /\ hooks = 0 /\ changes = 0

(* The context hook, and before_provider_request after it.                 *)
Hook ==
    /\ ~inFlight /\ enabled /\ hooks < MaxHooks
    /\ hooks' = hooks + 1
    /\ LET c == Observed
           withheld == Withheld(c)
           messages == Withholding(withheld)
           size == Short + Tokens(messages) + Notice(outcomeNotice) + Notice(withheld # {})
           estimated == Apply(c, size)
           told == Told(BudgetTiers, Governing(estimated))
       IN  /\ learned' = IF Samples THEN [recorded |-> calibrator.pending.turn, measured |-> rawMessages[LastReported].turn]
                                    ELSE learned
           /\ IF Budget = None
              THEN lastBudgetReading' = None /\ UNCHANGED <<tracker, reminders>>
              ELSE /\ lastBudgetReading' = estimated
                   /\ tracker' = [fired |-> Fired(BudgetTiers, Governing(estimated)), tiers |-> BudgetTiers, fresh |-> FALSE]
                   /\ reminders' = Append(reminders, [governing |-> Governing(estimated), tiers |-> BudgetTiers,
                                                      told |-> told, fresh |-> tracker.fresh])
           /\ calibrator' = [c EXCEPT !.pending =
                 [estimate |-> size + Notice(Budget # None /\ told # None), rawCount |-> Len(rawMessages), turn |-> hooks']]
           /\ lastRequest' = [messages |-> messages, withheld |-> withheld, boundary |-> ProtectBefore,
                              baseline |-> Len(rawMessages),
                              guarded |-> Guards, over |-> Guards /\ Estimated(c, messages) > Limit,
                              kept |-> IF accepted = None THEN <<>> ELSE Capped(accepted.messages),
                              granted |-> IF contextWindow = None THEN None ELSE Lifted(estimated),
                              reserve |-> IF Budget = None THEN None ELSE Reserve - Apply(c, Short)]
    /\ inFlight' = TRUE /\ outcomeNotice' = FALSE
    /\ UNCHANGED <<settings, session, enabled, unseen, changes>>

(* While it is off, Pi's messages go out as they are.                      *)
SendsRaw ==
    /\ ~inFlight /\ ~enabled /\ hooks < MaxHooks
    /\ hooks' = hooks + 1
    /\ inFlight' = TRUE
    /\ lastRequest' = None
    /\ unseen' = unseen \cup {hooks'}
    /\ UNCHANGED <<settings, session, extension, reminders, learned, changes>>

Turns == IF lastRequest = None THEN {} ELSE {m.turn : m \in Range(lastRequest.messages)}

(* The answer with its usage, none when it failed or the provider does not *)
(* say; the results of its tools; an edit of the document that keeps some  *)
(* of the turns.                                                           *)
Answers(tokens, results, edit) ==
    /\ inFlight
    /\ Len(rawMessages) < MaxRaw
    /\ rawMessages' = rawMessages \o <<Message("assistant", Short, hooks, tokens)>>
                         \o [i \in DOMAIN results |-> Message("result", results[i], hooks, 0)]
    /\ IF edit = None
       THEN UNCHANGED <<accepted, outcomeNotice>>
       ELSE /\ lastRequest # None /\ lastRequest.baseline # None
            /\ accepted' = [count |-> lastRequest.baseline, since |-> Len(rawMessages'),
                            messages |-> SelectSeq(lastRequest.messages, LAMBDA m : m.turn \in edit)]
            /\ outcomeNotice' = TRUE
    /\ inFlight' = FALSE
    /\ UNCHANGED <<settings, enabled, tracker, calibrator, lastBudgetReading, lastRequest, ghosts, hooks, changes>>

(* One prompt at a time, or one shell command that the model does not see. *)
Prompts(role, size) ==
    /\ ~inFlight /\ Len(rawMessages) < MaxRaw /\ Last(rawMessages).turn > 0
    /\ rawMessages' = Append(rawMessages, Message(role, size, 0, 0))
    /\ UNCHANGED <<settings, accepted, extension, lastRequest, inFlight, ghosts, hooks, changes>>

-----------------------------------------------------------------------------
(* What the user, Pi and the session do meanwhile.                         *)

Changes == changes < MaxChanges /\ changes' = changes + 1

(* The document of the last request cannot be edited any more.             *)
DropsBaseline ==
    lastRequest' = IF lastRequest = None THEN None ELSE [lastRequest EXCEPT !.baseline = None]

BudgetChanged(p) ==
    \/ p.budget # budgetPolicy.budget \/ p.reserve # budgetPolicy.reserve \/ p.remind # budgetPolicy.remind

Configures(p) ==
    /\ Changes /\ p # budgetPolicy
    /\ budgetPolicy' = p
    /\ IF BudgetChanged(p)
       THEN tracker' = ResetTracker(tracker) /\ lastBudgetReading' = None
       ELSE UNCHANGED <<tracker, lastBudgetReading>>
    /\ UNCHANGED <<contextWindow, session, enabled, calibrator, outcomeNotice, lastRequest, inFlight, ghosts, hooks>>

SelectsModel(w) ==
    /\ Changes /\ ~inFlight /\ w # contextWindow
    /\ contextWindow' = w
    /\ UNCHANGED <<budgetPolicy, session, extension, lastRequest, inFlight, ghosts, hooks>>

TurnsOn ==
    /\ ~enabled
    /\ enabled' = TRUE
    /\ UNCHANGED <<settings, session, tracker, calibrator, lastBudgetReading, outcomeNotice, lastRequest, inFlight, ghosts, hooks, changes>>

TurnsOff ==
    /\ enabled
    /\ enabled' = FALSE
    /\ DropsBaseline
    /\ UNCHANGED <<settings, session, tracker, calibrator, lastBudgetReading, outcomeNotice, inFlight, ghosts, hooks, changes>>

(* /clm reset                                                              *)
Resets ==
    /\ Changes
    /\ accepted' = None /\ lastBudgetReading' = None
    /\ DropsBaseline
    /\ UNCHANGED <<settings, rawMessages, enabled, tracker, calibrator, outcomeNotice, inFlight, ghosts, hooks>>

(* Pi's own compaction; the one at its threshold is cancelled while there  *)
(* is a guard.                                                             *)
Compacts(reason, from) ==
    /\ Changes /\ ~inFlight
    /\ reason = "threshold" => ~Guards
    /\ rawMessages' = <<Message("user", Short, 0, 0)>> \o SubSeq(rawMessages, from, Len(rawMessages))
    /\ accepted' = None /\ lastBudgetReading' = None /\ outcomeNotice' = TRUE
    /\ DropsBaseline
    /\ UNCHANGED <<settings, enabled, tracker, calibrator, inFlight, ghosts, hooks>>

(* restore, at a start of Pi and at a move to an earlier message.          *)
Restores(length) ==
    /\ Changes /\ ~inFlight
    /\ rawMessages' = SubSeq(rawMessages, 1, length)
    /\ accepted' = IF accepted # None /\ accepted.since <= length THEN accepted ELSE None
    /\ tracker' = ResetTracker(tracker) /\ calibrator' = NewCalibrator
    /\ lastBudgetReading' = None /\ outcomeNotice' = (length < Len(rawMessages))
    /\ DropsBaseline
    /\ UNCHANGED <<settings, enabled, inFlight, ghosts, hooks>>

Next ==
    \/ Hook \/ SendsRaw
    \/ \E tokens \in Counts \cup {0}, results \in SeqOf(Sizes, 2), edit \in {None} \cup SUBSET Turns :
          Answers(tokens, results, edit)
    \/ \E role \in {"user", "excluded"}, size \in Sizes : Prompts(role, size)
    \/ \E p \in Policies : Configures(p)
    \/ \E w \in Windows : SelectsModel(w)
    \/ TurnsOn \/ TurnsOff \/ Resets
    \/ \E reason \in {"threshold", "manual"}, i \in 2..MaxRaw : i \in DOMAIN rawMessages /\ Compacts(reason, i)
    \/ \E i \in 1..MaxRaw : i \in DOMAIN rawMessages /\ Restores(i)

Spec == Init /\ [][Next]_vars

-----------------------------------------------------------------------------
(* Properties.                                                             *)

(* From request i to j the tracker was not reset, its tiers were the same, *)
(* and tier t was reached in all of them.                                  *)
Above(t, i, j) ==
    \A k \in i..j : /\ reminders[k].tiers = reminders[j].tiers /\ reminders[k].governing >= t.tokens
                    /\ k > i => ~reminders[k].fresh

TellsOf(i, t) == reminders[i].told # None /\ reminders[i].told.tokens >= t.tokens

(* While the context is beyond a tier the model was told of it, or of a    *)
(* higher one, since it got there; and it is told of it once until the     *)
(* context was below it, whatever changed in between.                      *)
RemindersComeOnce ==
    \A j \in DOMAIN reminders : \A t \in reminders[j].tiers :
        reminders[j].governing >= t.tokens =>
            /\ \E i \in 1..j : Above(t, i, j) /\ TellsOf(i, t)
            /\ reminders[j].told = t => \A i \in 1..j - 1 : Above(t, i, j) => ~TellsOf(i, t)

(* A factor is learned from the count of the request that the estimate was *)
(* made for, whatever failed, was compacted or was left in between; only a *)
(* request that was sent while the extension was off may take its place.   *)
SamplesAreOfTheirRequest ==
    learned # None =>
        /\ learned.recorded <= learned.measured
        /\ learned.recorded + 1 .. learned.measured \subseteq unseen

(* What the model accepted is sent as it is but for the cap, ahead of what *)
(* came since; the guard gives up only when nothing is left to withhold,   *)
(* and withholds no result while an older one is shown; and when it does   *)
(* not give up, the answer is granted what is reserved for it, less the    *)
(* notice of the guard.                                                    *)
GuardRespectsEdits ==
    lastRequest # None =>
        LET r == lastRequest
            shown == {i \in r.boundary + 1 .. Len(r.messages) : r.messages[i].role = "result" /\ ~r.messages[i].note}
        IN  /\ r.kept = SubSeq(r.messages, 1, r.boundary)
            /\ r.over => shown = {}
            /\ \A i \in r.withheld, j \in shown : i < j
            /\ r.guarded /\ ~r.over /\ r.granted # None => r.granted >= Least(MAX_TOKENS, r.reserve)
=============================================================================
