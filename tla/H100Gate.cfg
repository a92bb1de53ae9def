CONSTANTS
    NumZones = 2
    Grace = 1
    CancelAfter = 1
    UnknownLimit = 2
    ConfirmLimit = 1
    LastDay = 0
    MaxDay = 1
    MaxInterrupts = 1
    MaxRounds = 1
    NumSteps = 2
    Spot = TRUE
    MaxReruns = 1
SPECIFICATION FairSpec
INVARIANTS
    OneRequest
    LeavesNothing
PROPERTIES
    SavedOrExcused
    Ends
CHECK_DEADLOCK FALSE
