SPECIFICATION Spec
CONSTANTS
    MaxRuns = 3
    MaxCrashes = 1
INVARIANTS OnePrediction PassedIsReal InputsPassed
PROPERTIES NoPredictionAfterClock
CHECK_DEADLOCK FALSE
