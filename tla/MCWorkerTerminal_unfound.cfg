CONSTANTS
    Tasks = {build}
    Deps <- Independent
    Terminals = {p1, p2}
    MaxDispatches = 2
    MaxGates = 0
    OperatorStatuses = {}
    BreakAfter = 3
    MaxProcesses = 2
    NoTask = NoTask
    NoTerminal = NoTerminal
SPECIFICATION TerminalSpec
PROPERTY UnfoundReleaseIsDeferred
CHECK_DEADLOCK FALSE
