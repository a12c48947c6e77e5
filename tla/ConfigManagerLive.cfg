\* Closing ends and the file is eventually applied, on a small instance.
CONSTANTS
    Missing = Missing
    NONE = NONE
    Failure = Failure
    Saves <- LiveSaves
    Starts <- LiveStarts
    SaveLimit = 1
    Horizon = 1
    SettleAttempts = 2

SPECIFICATION FairSpec

PROPERTIES
    ClosingEnds
    FileIsEventuallyApplied
