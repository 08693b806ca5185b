\* Four callers that keep coming back compete for two slots: releases find
\* calls parked, and two of them can barge ahead of a woken one.
SPECIFICATION LFairSpec
CONSTANTS
    NumCalls = 4
    Concurrency = 2
INVARIANTS
    ActiveCountsRunning
    NoLostWakeup
    OverflowOnlyByBarging
PROPERTY
    ParkedIsAdmitted
