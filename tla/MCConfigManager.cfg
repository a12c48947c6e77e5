\* The settled, fail-closed hot reload of one file that others rewrite.
CONSTANTS
    Missing = Missing
    NONE = NONE
    Failure = Failure
    Saves <- MCSaves
    Starts <- MCStarts
    SaveLimit = 2
    Horizon = 2
    SettleAttempts = 2

SPECIFICATION Spec

INVARIANTS
    TypeOK
    ConsumerIsCurrent
    ClosedIsQuiet

PROPERTIES
    LooseningIsWitnessed
    ClosingResolvesNothing
