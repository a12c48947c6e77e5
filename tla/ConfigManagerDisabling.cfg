\* Presence is turned off under a configuration that withholds one tool's name.
CONSTANTS
    Missing = Missing
    NONE = NONE
    Failure = Failure
    Saves <- PrivateSaves
    Starts <- PrivateStarts
    SaveLimit = 1
    Horizon = 1
    SettleAttempts = 2

SPECIFICATION Spec

PROPERTY DisablingIsPrompt
