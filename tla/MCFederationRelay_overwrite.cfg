CONSTANTS
    MessageKinds = {"succeeded", "heartbeat"}
    LifecycleSettlement = TRUE
    Quota = 1
    PageSize = 1
    MaxItems = 2
    MaxMail = 0
    MaxEpochs = 1
    Task = Task
    NoTask = NoTask
    NoTerminal = NoTerminal
    MaxPages = 1
    MaxFaults = 1
SPECIFICATION Spec
INVARIANTS
    InboxFollowsQueue
CHECK_DEADLOCK FALSE
