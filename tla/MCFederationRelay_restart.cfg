CONSTANTS
    MessageKinds = {"succeeded", "heartbeat"}
    LifecycleSettlement = TRUE
    Quota = 1
    PageSize = 2
    MaxItems = 2
    MaxMail = 0
    MaxEpochs = 2
    Task = Task
    NoTask = NoTask
    NoTerminal = NoTerminal
    MaxPages = 1
    MaxFaults = 1
SPECIFICATION Spec
INVARIANTS
    AcknowledgedWasImported
    WatermarkWasAcknowledged
CHECK_DEADLOCK FALSE
