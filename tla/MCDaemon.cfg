\* Detector, translator, writer, reloads and shutdown together.
CONSTANTS
    t1 = t1
    t2 = t2
    Tools <- MCTools
    Sightings <- MCSightings
    NULL = NULL
    DebounceCycles = 2
    ScanFailureClearThreshold = 2
    Edits <- MCEdits
    ReloadError = ReloadError

SPECIFICATION FairSpec

INVARIANTS
    TypeOK
    BlindDetectorClears
    UsageSavesAreOrdered
    EpisodesAreSavedAtExit

PROPERTIES
    CancelledDaemonExits
    ReloadIsApplied
    PublishedCatchesUp
