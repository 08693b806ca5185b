---------------------------- MODULE ResultDelivery ----------------------------
(***************************************************************************)
(* createWorkflowResultDeliveryCoordinator (src/result-delivery.ts): how   *)
(* the results of detached runs reach the parent model, one turn each.     *)
(*                                                                         *)
(* The closure's variables are one record, `co`; an event of the code is   *)
(* an operator from record to record.  The host (Pi, outside src/) is the  *)
(* environment: it starts the turns asked of it in order, one at a time,   *)
(* announces each with agent_start and agent_settled, may fail to start    *)
(* one, and may close the session at any moment, also in mid-turn.         *)
(***************************************************************************)
EXTENDS Naturals, Sequences, SequencesExt, FiniteSets

CONSTANTS
    Ids,          \* deliveryIds: one per background invocation of the tool
    Commands,     \* /run-workflow handlers, each of which holds delivery once
    None,         \* no delivery, no hold
    MaxSessions,  \* bound: sessions of the process
    UserPreflight,\* can a user prompt wait for its agent_start while idle?
    MaxUserTurns, \* bound: turns the user starts
    MaxDrops      \* bound: turns the host fails to start

User == "user"

ASSUME DeliveryAssumption ==
    /\ User \notin Ids
    /\ None \notin Ids \cup Nat \cup {User} \cup [id : Ids, started : BOOLEAN]

VARIABLES
    co,           \* the coordinator's closure
    hold,         \* the generation each command holds, or None
    released,     \* commands whose release function was called
    turns,        \* turns asked of the host and not started, oldest first
    parent,       \* who the running turn belongs to, or None
    fresh,        \* results not yet offered to the coordinator
    sent,         \* history: results the host took, in order
    thrown,       \* history: results whose send threw
    offered,      \* history: results accepted in this session
    userTurns, drops  \* counters of the bounds

dvars == <<co, hold, released, turns, parent, fresh, sent, thrown, offered, userTurns, drops>>

-----------------------------------------------------------------------------
(* Mutants: slips in the coordinator that the properties must notice.      *)

Blocked_IgnoresParent(r) == ~r.accepting \/ r.barriers > 0 \/ r.delivering # None
Blocked_IgnoresDelivering(r) == ~r.accepting \/ r.agentActive \/ r.barriers > 0
AfterHead_DropsRest(s, n) == <<>>
SameSession_Unchecked(r, g) == r.accepting
AgentStarted_Claims(r) ==
    [r EXCEPT !.agentActive = TRUE,
              !.delivering = [id |-> IF @ = None THEN None ELSE @.id, started |-> TRUE]]
Afterwards_StaysActive(r) ==
    [r EXCEPT !.delivering = IF @ # None /\ @.started THEN None ELSE @]

-----------------------------------------------------------------------------
(* The closure.                                                            *)

Fresh(generation, accepting) ==
    [queued |-> <<>>, accepting |-> accepting, agentActive |-> FALSE, barriers |-> 0,
     generation |-> generation, delivering |-> None]

Blocked(r) ==
    ~r.accepting \/ r.agentActive \/ r.barriers > 0 \/ r.delivering # None

(* The queue after its first n entries were shifted out.                   *)
AfterHead(s, n) == SubSeq(s, n + 1, Len(s))

(* The entries that flush takes out, in order, when sends of `bad` throw:  *)
(* it goes on to the next entry after a throw and stops after a success.   *)
Sendable(r, bad) == {n \in DOMAIN r.queued : r.queued[n] \notin bad}
Flushes(r, bad) == ~Blocked(r) /\ Sendable(r, bad) # {}
FirstSent(r, bad) == r.queued[Min(Sendable(r, bad))]

Flush(r, bad) ==
    IF Blocked(r) THEN r
    ELSE IF Sendable(r, bad) = {} THEN [r EXCEPT !.queued = <<>>]
    ELSE [r EXCEPT !.queued = AfterHead(r.queued, Min(Sendable(r, bad))),
                   !.delivering = [id |-> FirstSent(r, bad), started |-> FALSE]]

(* The delivered result is released only when its turn was seen to start.  *)
Settles(r) == r.delivering # None /\ r.delivering.started

SameSession(r, g) == r.accepting /\ r.generation = g

-----------------------------------------------------------------------------
(* What a flush of r does outside the closure: each send hands the host a  *)
(* message that asks for a turn.                                           *)
FlushInto(r, bad) ==
    /\ co' = Flush(r, bad)
    /\ thrown' = IF Blocked(r) THEN thrown
                 ELSE thrown \cup ((ToSet(r.queued) \ ToSet(Flush(r, bad).queued)) \cap bad)
    /\ IF Flushes(r, bad)
       THEN /\ sent' = Append(sent, FirstSent(r, bad))
            /\ turns' = Append(turns, FirstSent(r, bad))
       ELSE UNCHANGED <<sent, turns>>

DInit ==
    /\ co = Fresh(0, FALSE)
    /\ hold = [c \in Commands |-> None]
    /\ released = {}
    /\ turns = <<>>
    /\ parent = None
    /\ fresh = Ids
    /\ sent = <<>>
    /\ thrown = {} /\ offered = {}
    /\ userTurns = 0 /\ drops = 0

(* session_start -> startSession().                                        *)
StartSession ==
    /\ ~co.accepting
    /\ co.generation < 2 * MaxSessions
    /\ co' = Fresh(co.generation + 1, TRUE)
    /\ offered' = {}
    /\ UNCHANGED <<hold, released, turns, parent, fresh, sent, thrown, userTurns, drops>>

(* session_shutdown -> shutdown(): the host drops the session's turns.     *)
CloseSession ==
    /\ co.accepting
    /\ co' = Fresh(co.generation + 1, FALSE)
    /\ turns' = <<>>
    /\ parent' = None
    /\ offered' = {}
    /\ UNCHANGED <<hold, released, fresh, sent, thrown, userTurns, drops>>

(* A run finished: enqueue(), which refuses when the session is closed.    *)
Enqueue(id, bad) ==
    /\ fresh' = fresh \ {id}
    /\ IF ~co.accepting
       THEN UNCHANGED <<co, thrown, sent, turns, offered>>
       ELSE /\ offered' = offered \cup {id}
            /\ FlushInto([co EXCEPT !.queued = Append(@, id)], bad)
    /\ UNCHANGED <<hold, released, parent, userTurns, drops>>

Finishes(id) == id \in fresh /\ \E bad \in SUBSET Ids : Enqueue(id, bad)

(* agentStarted(): whoever's turn it is that started.                      *)
AgentStarted(r) ==
    [r EXCEPT !.agentActive = TRUE,
              !.delivering = IF @ = None THEN None ELSE [@ EXCEPT !.started = TRUE]]

(* The user submits a prompt.  With UserPreflight it waits, like any turn  *)
(* asked for, until agent_start is fired; without, it starts at once when  *)
(* nothing is running or asked for, and otherwise joins that turn.         *)
UserPrompts ==
    /\ co.accepting
    /\ userTurns < MaxUserTurns
    /\ userTurns' = userTurns + 1
    /\ IF UserPreflight
       THEN /\ turns' = Append(turns, User)
            /\ UNCHANGED <<co, parent>>
       ELSE /\ parent = None /\ turns = <<>>
            /\ parent' = User
            /\ co' = AgentStarted(co)
            /\ UNCHANGED turns
    /\ UNCHANGED <<hold, released, fresh, sent, thrown, offered, drops>>

(* agent_start -> agentStarted().                                          *)
TurnStarts ==
    /\ parent = None
    /\ turns # <<>>
    /\ parent' = Head(turns)
    /\ turns' = Tail(turns)
    /\ co' = AgentStarted(co)
    /\ UNCHANGED <<hold, released, fresh, sent, thrown, offered, userTurns, drops>>

(* The host cannot start a turn it was asked for: no event is fired.       *)
TurnDropped ==
    /\ parent = None
    /\ turns # <<>>
    /\ drops < MaxDrops
    /\ drops' = drops + 1
    /\ turns' = Tail(turns)
    /\ UNCHANGED <<co, hold, released, parent, fresh, sent, thrown, offered, userTurns>>

(* agent_settled -> agentSettled(): release what was delivered, and flush. *)
Afterwards(r) == [r EXCEPT !.agentActive = FALSE,
                           !.delivering = IF Settles(r) THEN None ELSE @]
TurnSettles(bad) ==
    /\ parent # None
    /\ parent' = None
    /\ FlushInto(Afterwards(co), bad)
    /\ UNCHANGED <<hold, released, fresh, offered, userTurns, drops>>

(* hold(): a /run-workflow handler that is about to launch; in a closed    *)
(* session its release does nothing.                                       *)
Hold(c) ==
    /\ hold[c] = None
    /\ co.accepting
    /\ hold' = [hold EXCEPT ![c] = co.generation]
    /\ co' = [co EXCEPT !.barriers = @ + 1]
    /\ UNCHANGED <<released, turns, parent, fresh, sent, thrown, offered, userTurns, drops>>

(* The release function, called once by the handler's finally, maybe in a  *)
(* later session than the one it held.                                     *)
ReleaseHold(c, bad) ==
    /\ hold[c] # None
    /\ c \notin released
    /\ released' = released \cup {c}
    /\ IF SameSession(co, hold[c])
       THEN FlushInto([co EXCEPT !.barriers = IF @ = 0 THEN 0 ELSE @ - 1], bad)
       ELSE UNCHANGED <<co, thrown, sent, turns>>
    /\ UNCHANGED <<hold, parent, fresh, offered, userTurns, drops>>

Host ==
    \/ UserPrompts \/ TurnStarts \/ TurnDropped
    \/ \E bad \in SUBSET Ids : TurnSettles(bad)
    \/ \E c \in Commands : Hold(c) \/ \E bad \in SUBSET Ids : ReleaseHold(c, bad)

DNext ==
    \/ StartSession \/ CloseSession
    \/ \E id \in Ids : Finishes(id)
    \/ Host

(* The host starts the turns it accepted unless it fails to, ends them,    *)
(* and runs each handler to its finally.                                   *)
DFairness ==
    /\ WF_dvars(TurnStarts)
    /\ WF_dvars(\E bad \in SUBSET Ids : TurnSettles(bad))
    /\ \A c \in Commands : WF_dvars(\E bad \in SUBSET Ids : ReleaseHold(c, bad))

DSpec == DInit /\ [][DNext]_dvars

-----------------------------------------------------------------------------
Turns == Ids \cup {User}
Closures ==
    [queued : Seq(Ids), accepting : BOOLEAN, agentActive : BOOLEAN, barriers : Nat,
     generation : Nat, delivering : {None} \cup [id : Ids, started : BOOLEAN]]

(* The types: `delivering` names an accepted result, and the closure keeps *)
(* the shape its handlers rely on.                                         *)
DTypeOK ==
    /\ co \in Closures
    /\ hold \in [Commands -> {None} \cup Nat]
    /\ released \subseteq Commands
    /\ turns \in Seq(Turns)
    /\ parent \in {None} \cup Turns
    /\ fresh \subseteq Ids /\ thrown \subseteq Ids /\ offered \subseteq Ids
    /\ sent \in Seq(Ids)

(* Holders of the session that is open now.                                *)
Holding == {c \in Commands \ released : hold[c] = co.generation}

(* Results whose turn was asked for and has not settled.                   *)
OpenTurns == (ToSet(turns) \cup {parent}) \cap Ids

(* result-delivery.ts: "one model turn per result", the next result only   *)
(* after the triggered run started and settled.  Two results are never     *)
(* both with the host.                                                     *)
OneTurnAtATime == Cardinality(OpenTurns) <= 1 /\ IsInjective(sent)

(* A result is sent only while the parent is idle and no handler of the    *)
(* open session holds delivery, whatever releases arrive late.             *)
SentOnlyWhenIdle ==
    [][sent' # sent => parent' = None /\ Holding' = {} /\ co.accepting]_dvars

(* No result accepted by the open session disappears: it waits, was sent,  *)
(* or its send threw.                                                      *)
NoResultLost == offered \subseteq ToSet(co.queued) \cup ToSet(sent) \cup thrown

(* The host failed to start the turn of the result being delivered.        *)
Stuck == co.delivering # None /\ ~co.delivering.started /\ OpenTurns = {}

(* A waiting result is sent, unless the session closes or the host dropped *)
(* the turn before it: then delivery waits for the next turn to start.     *)
WaitingIsDelivered ==
    \A id \in Ids : (id \in ToSet(co.queued)) ~>
                    (id \notin ToSet(co.queued) \/ Stuck)

Serial == INSTANCE SerialDelivery
          WITH NoTurn <- None, waiting <- co.queued, delivered <- sent,
               turn <- IF co.delivering = None THEN None ELSE co.delivering.id

(* result-delivery.ts: "serialize detached workflow completions into one   *)
(* model turn per result".  The coordinator implements SerialDelivery.     *)
ImplementsSerialDelivery == Serial!SSpec
=============================================================================
