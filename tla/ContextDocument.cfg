\* One prompt and two exchanges, some with parallel tools; a single edit is enough.
SPECIFICATION DocumentSpec
CONSTANTS
    MaxExchanges = 2
    MaxEdits = 2
INVARIANT
    BrokenGroupsAreFlattened
CHECK_DEADLOCK FALSE
