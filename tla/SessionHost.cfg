\* Two sessions, two invocations of the tool and two run directories (an
\* invocation resumes only runs that are over), a hold, two user turns and one
\* turn the host fails to start.
SPECIFICATION HFairSpec
CONSTANTS
    Ids = {r1, r2}
    Commands = {c1}
    None = None
    RunIds = {wf1, wf2}
    ReuseLive = FALSE
    MaxSessions = 2
    UserPreflight = FALSE
    MaxUserTurns = 2
    MaxDrops = 1
INVARIANTS
    LiveRunIsReachable
    ClosedMeansQuiet
    NoResultLost
PROPERTIES
    NoForeignResult
    ShutdownFinishes
    WaitingIsDelivered
    ImplementsSerialDelivery
CHECK_DEADLOCK FALSE
