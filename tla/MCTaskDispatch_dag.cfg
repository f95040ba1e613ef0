CONSTANTS
    build = build
    test = test
    Tasks = {build, test}
    Deps <- Chain
    Terminals = {p1}
    MaxDispatches = 3
    MaxGates = 0
    OperatorStatuses = {}
    BreakAfter = 3
    NoTask = NoTask
    NoTerminal = NoTerminal
SPECIFICATION Spec
INVARIANTS
    DependenciesRespected
    WorkerSettlesWithDispatch
PROPERTIES
    CompletedTaskIsFinal
    SupersededReportsAreRejected
    ImplementsTaskClaim
CHECK_DEADLOCK FALSE
