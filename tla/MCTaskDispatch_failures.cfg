CONSTANTS
    build = build
    test = test
    Tasks = {build}
    Deps <- Independent
    Terminals = {p1}
    MaxDispatches = 3
    MaxGates = 0
    OperatorStatuses = {}
    BreakAfter = 3
    NoTask = NoTask
    NoTerminal = NoTerminal
SPECIFICATION Spec
INVARIANT ThreeFailuresBreakTheCircuit
CHECK_DEADLOCK FALSE
