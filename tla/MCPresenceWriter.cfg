\* The writer under the fairness of its select loop: three activities, a
\* caller of Reconnect that may give up, a backoff that outgrows the throttle.
CONSTANTS
    Payloads = {p1, p2, p3}
    NULL = NULL
    Requesters = {r1}
    RetryDelays <- Delays
    MinWriteInterval = 3
    ReapplyInterval = 3

SPECIFICATION FairSpec

INVARIANTS
    TypeOK
    NoLostWakeup
    DisplayIsCurrent
    ReportedRefusalIsLive
    BackoffIsExclusive

PROPERTIES
    RefusalSticks
    WritesAreSpaced
    ReconnectDelivers
    ImplementsPublication
    WantedIsEventuallyShown
