SPECIFICATION FairSpec
CONSTANTS
    capacity = 2
    MaxSamples = 4
    MaxBlocks = 2
    MaxStarts = 2
    None = None
PROPERTIES SliceIsTheBlocks ImplementsJudge EndReturns
CHECK_DEADLOCK FALSE
