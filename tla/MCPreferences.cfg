SPECIFICATION PrefsSpec
CONSTANTS
    Platforms = {"linux", "darwin", "windows"}
    Exes = {e1, e2}
    None = None
    Garbled = Garbled
    on = on
    off = off
    Values = {on, off}
    Default = on
    Fallback <- MCFallback
    MaxFaults = 2
SYMMETRY Symmetry
PROPERTIES
    RollbackRestores
    SetupIsAtomic
    NothingIsOrphaned
    QuitKeepsEdits
