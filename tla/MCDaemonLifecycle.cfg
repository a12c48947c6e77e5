SPECIFICATION Spec
CONSTANTS
    d1 = d1
    d2 = d2
    d3 = d3
    s1 = s1
    None = None
    Junk = Junk
    Daemons <- MCDaemons
    Detached <- MCDetached
    Stoppers <- MCStoppers
    PidOf <- MCPidOf
    UnknownStart = {}
    Lookups = {TRUE, FALSE}
\* Every process may have come and gone.
CHECK_DEADLOCK FALSE
INVARIANTS
    RunningIsRecorded
    StopStops
    StartIsReal
PROPERTIES
    SignalsAreAimed
