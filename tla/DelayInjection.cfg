CONSTANTS
    Calls <- MCCalls
    OutOfPlace <- MCOutOfPlace
    MaxEvents = 4
    MaxCount = 2
SPECIFICATION InjectionSpec
INVARIANTS ChargedOnce VariantAsPredicted MadeTheCalls
CHECK_DEADLOCK FALSE
