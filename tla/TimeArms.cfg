SPECIFICATION ArmsSpec
CONSTANTS
    Unjudged = Unjudged
    Arms <- MCArms
    reps = 2
    max_rerun_rounds = 2
INVARIANTS CleanMeansUnthrottled RowsPaired
CHECK_DEADLOCK FALSE
