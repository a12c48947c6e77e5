\* A forced scan that fails emits nothing, then or later.
CONSTANTS
    t1 = t1
    t2 = t2
    Tools <- MCTools
    Sightings <- MCSightings
    NULL = NULL
    DebounceCycles = 2
    ScanFailureClearThreshold = 2
    Edits <- MCEdits
    ReloadError = ReloadError

SPECIFICATION RunningSpec

PROPERTY
    ReconfigureIsEmitted
