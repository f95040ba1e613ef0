CONSTANTS
    Tasks = {build}
    Deps <- Independent
    Terminals = {p1}
    MaxDispatches = 2
    MaxGates = 0
    OperatorStatuses = {}
    BreakAfter = 3
    MaxProcesses = 2
    NoTask = NoTask
    NoTerminal = NoTerminal
SPECIFICATION TerminalSpec
INVARIANTS
    ResourceTypeOK
    OutputKeptBeforeClose
    ReleasedIsGone
    StoppingIsPursued
PROPERTIES
    ClosesOnlyItsOwnWorker
    TakeoverIsDurable
CHECK_DEADLOCK FALSE
