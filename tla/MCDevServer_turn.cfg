SPECIFICATION DevFairSpec
CONSTANTS
    Subscribers = {s1, s2}
    Terminal = s1
    e1 = e1
    e2 = e2
    Event = {e1, e2}
    Stream <- MCStream
    MaxEvents = 3
INVARIANTS
    TranscriptIsExact
    StopsAreOrderly
PROPERTIES
    ClosedReleasesEveryone
    ImplementsEventLog
    ProcessEnds
CHECK_DEADLOCK FALSE
