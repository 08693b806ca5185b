SPECIFICATION LSpec
CONSTANTS
    NumCalls = 3
    Concurrency = 1
INVARIANT
    ActiveWithinLimit
