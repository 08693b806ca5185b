\* Two items through two stages, interrupted once: the second item's first
\* stage answers first.
SPECIFICATION Spec
CONSTANTS
    NumItems = 2
    NumStages = 2
    MaxResumes = 1
INVARIANT
    FinishedCallsReplay
CHECK_DEADLOCK FALSE
