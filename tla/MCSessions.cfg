SPECIFICATION Spec
CONSTANTS
    None = None
    Unreadable = Unreadable
    Instances = {1, 2, 3, 4}
    Pid <- MCPid
    Tool <- MCTool
    Foreign = {1}
    Unknown = {4}
    Priority <- MCPriority
    Configs <- MCConfigs
    Looks <- MCLooks
    IdleTimeout = 2
    IdleClear = 3
    SavePeriod = 2
    MaxEntries = 1
    Horizon = 5
    MaxFaults = 1
CHECK_DEADLOCK FALSE
INVARIANTS
    AnchorIsOwn
    ShownIsMine
PROPERTIES
    TimerContinues
    SwitchesAreConfirmed
    UnreadableIsKept
