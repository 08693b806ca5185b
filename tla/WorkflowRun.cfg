\* Four calls, one slot: call 2 replays from the journal, call 3 needs a
\* worktree, the cap is reached by the third spawn, and two attempts of one
\* call (a stall and its retry) use up the budget.
SPECIFICATION FairSpec
CONSTANTS
    NumCalls = 4
    Concurrency = 1
    MaxAgents = 2
    TokenBudget = 2
    StallRetries = 1
    Journaled = {2}
    Isolated = {3}
INVARIANTS
    TypeOK
    SpawnCapHolds
    JournaledIffDelivered
    TokensRecordedOnce
    SessionsHoldSlots
PROPERTIES
    NothingDeliveredAfterCancel
    KillWins
    AcceptedCallsSettle
CHECK_DEADLOCK FALSE
