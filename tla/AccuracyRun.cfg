SPECIFICATION Spec
CONSTANTS
    Grid <- MCGrid
    Scorers = {s1, s2}
    Taus = {t1, t2}
    Pins <- PinnedOrNot
    Waivers <- AnyWaiver
    Commits = {c1, c2}
    checkpoint_every = 2
    MaxRuns = 3
    MaxMoves = 1
    None = None
SYMMETRY Alike
INVARIANTS OneRowPerCell OneRegime OneCommit
PROPERTIES RowsSurvive ReturnMeasured
CHECK_DEADLOCK FALSE
