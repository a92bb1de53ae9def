SPECIFICATION Spec
CONSTANTS
    None = None
    MaxOps = 4
    Operations <- MCOperations
    SyncCosts <- MCSyncCosts
    QueueDepths <- MCQueueDepths
INVARIANTS QueueCountsAgree HostTimeAccounted
PROPERTY Implements
CHECK_DEADLOCK FALSE
