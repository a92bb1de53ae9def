SPECIFICATION Spec
CONSTANTS
    Cells <- MCCells
    Signatures <- MCSignatures
    MaxMoves = 1
    MaxAttempts = 3
    None = None
INVARIANTS KeptStands
PROPERTIES EntriesOfOneCode PricedFromTheseInputs PassedIsWhole
CHECK_DEADLOCK FALSE
