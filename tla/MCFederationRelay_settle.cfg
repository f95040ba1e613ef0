CONSTANTS
    MessageKinds = {"succeeded", "mistaken"}
    LifecycleSettlement = TRUE
    Quota = 3
    PageSize = 1
    MaxItems = 2
    MaxMail = 0
    MaxEpochs = 1
    Task = Task
    NoTask = NoTask
    NoTerminal = NoTerminal
    MaxPages = 2
    MaxFaults = 1
SPECIFICATION FairSpec
INVARIANTS
    TypeOK
    AttachmentFollowsHome
    RelayOutlivesSettlement
PROPERTIES
    ImplementsChannel
    ItemsReachHome
CHECK_DEADLOCK FALSE
