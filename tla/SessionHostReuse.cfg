\* As SessionHost.cfg, but a launch may resume a runId that is still running.
SPECIFICATION HSpec
CONSTANTS
    Ids = {r1, r2}
    Commands = {c1}
    None = None
    RunIds = {wf1, wf2}
    ReuseLive = TRUE
    MaxSessions = 2
    UserPreflight = FALSE
    MaxUserTurns = 2
    MaxDrops = 0
INVARIANT
    LiveRunIsReachable
CHECK_DEADLOCK FALSE
