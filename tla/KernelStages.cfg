SPECIFICATION StagesSpec
CONSTANTS
    Compiled = {"flex"}
    RECOMPILE_LIMIT = 1
    Order <- MCOrder
    SeqLen <- MCSeqLen
    Forward = {"short", "long"}
    Long = {"long"}
    LongKeys = {"long"}
    Claims <- MCClaims
    Faults <- MCFaults
    References = {"flex", "sdpa"}
    Asks <- MCAsks
    Commits = {c1, c2}
    Hosts = {h1, h2}
    MaxRuns = 3
    MaxMoves = 1
    AnyCommit = AnyCommit
INVARIANTS Licensed TimedCompiled OneRowOneHost
SYMMETRY Symmetric
CHECK_DEADLOCK FALSE
