SPECIFICATION Spec
CONSTANTS
    None = None
    MaxTime = 4
    Second = 2
    Skew = 1
    Guard = 1
    MaxAttempts = 2
    MaxOverwrites = 1
INVARIANTS PredictionBeforeWorkload HeldIsAccepted ReceiptStands
CHECK_DEADLOCK FALSE
