CONSTANTS
    build = build
    test = test
    Tasks = {build}
    Deps <- Independent
    Terminals = {p1}
    MaxDispatches = 2
    MaxGates = 1
    OperatorStatuses = {}
    BreakAfter = 3
    NoTask = NoTask
    NoTerminal = NoTerminal
SPECIFICATION Spec
PROPERTY AnsweredGateReopensNothing
CHECK_DEADLOCK FALSE
