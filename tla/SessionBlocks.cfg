SPECIFICATION BlocksSpec
CONSTANTS
    STEPS <- MCSteps
    BOOT_STEPS <- MCBootSteps
    Specs <- MCSpecs
    Machines = {m1, m2}
    MaxSessions = 3
    MaxRuns = 3
    MaxBoots = 2
    MaxFixes = 1
    None = None
INVARIANTS OneBoot NothingSkipped CellsOnce
PROPERTIES DiscardStands
SYMMETRY MachineSymmetry
CHECK_DEADLOCK FALSE
