CONSTANTS
    MessageKinds = {"succeeded"}
    LifecycleSettlement = FALSE
    Quota = 3
    PageSize = 1
    MaxItems = 1
    MaxMail = 1
    MaxEpochs = 2
    Task = Task
    NoTask = NoTask
    NoTerminal = NoTerminal
    MaxPages = 1
    MaxFaults = 1
SPECIFICATION FairSpec
INVARIANTS
    MailAcknowledgedWasImported
PROPERTIES
    MailReachesWorker
CHECK_DEADLOCK FALSE
