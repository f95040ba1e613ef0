CONSTANTS
    build = build
    test = test
    Tasks = {build, test}
    Deps <- Chain
    Terminals = {p1}
    MaxDispatches = 2
    MaxGates = 1
    OperatorStatuses = {"ready", "completed", "failed"}
    BreakAfter = 2
    NoTask = NoTask
    NoTerminal = NoTerminal
SPECIFICATION Spec
INVARIANTS
    TypeOK
    OneActiveDispatchPerTask
    ActiveDispatchHoldsTask
    SettledWorkerHoldsNothing
    ReadyWorkerCanReport
    CapabilityDiesWithDispatch
    OutboxAgreesWithDispatch
    NoStrandedPending
    DispatchedTaskHasDispatch
    OneActiveDispatchPerTerminal
    IInv
PROPERTIES
    SettledDispatchIsFinal
CHECK_DEADLOCK FALSE
