\* A dead link behind a refused activity is never noticed.
CONSTANTS
    Payloads = {p1, p2}
    NULL = NULL
    Requesters = {r1}
    RetryDelays <- ShortDelays
    MinWriteInterval = 2
    ReapplyInterval = 2

SPECIFICATION FairSpec

PROPERTY
    DeadLinkIsNoticed
