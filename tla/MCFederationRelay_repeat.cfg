CONSTANTS
    MessageKinds = {"succeeded"}
    LifecycleSettlement = TRUE
    Quota = 3
    PageSize = 1
    MaxItems = 1
    MaxMail = 0
    MaxEpochs = 1
    Task = Task
    NoTask = NoTask
    NoTerminal = NoTerminal
    MaxPages = 1
    MaxFaults = 1
SPECIFICATION Spec
INVARIANTS
    RepeatedAckIsAnswered
CHECK_DEADLOCK FALSE
