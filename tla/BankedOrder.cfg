SPECIFICATION MCSpec
CONSTANTS
    Pairings = {P1, P2}
    MaxTime = 6
    Skew = 1
    None = None
    Sparse = {1, 2}
    Times <- MCTimes
    Floors = {0, 1, 2}
    Errors = {0, 1, 2}
INVARIANTS TrainedOnBanked DispatchPays
CHECK_DEADLOCK FALSE
