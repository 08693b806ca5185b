\* Two processes, one of them with a user in the browser, on two sessions; three
\* session starts, so one of the processes ends or crashes and comes back.
SPECIFICATION Spec
CONSTANTS
    Procs = {p, q}
    None = None
    Sessions = {s1, s2}
    Browsers = {p}
    MAGAZINE_MAX = 2
    MaxEntries = 3
    MaxRevision = 3
    MaxStarts = 3
SYMMETRY Interchangeable
INVARIANTS
    OneQueuePerDraft
    RevisionNamesQueue
PROPERTIES
    DraftsLeaveDeliberately
    OnlyTheGrabbedMoves
CHECK_DEADLOCK FALSE
