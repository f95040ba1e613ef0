CONSTANTS
    Runs = {r1, r2}
    Worked = r1
    Terminals = {t1, t2}
    Claims = {k1}
    Tasks = {task}
    RunOf <- AllOfOneRun
    Mailed = {r1}
    Waking = {2}
    Calls = {c1, c2}
    Modes <- LookWaitOrPeek
    Batch = 1
    MaxMessages = 2
    MaxDeliveries = 2
    MaxGeneration = 2
    NoRun = NoRun
    NoTask = NoTask
    NoTerminal = NoTerminal
SPECIFICATION Spec
INVARIANTS
    TypeOK
    OneRunPerTerminal
    OutstandingIsCurrent
    DeliveriesDoNotOverlap
    WaiterIsCurrent
    NoMissedMail
PROPERTIES
    MailIsReadByItsOwner
    ImplementsAtLeastOnceBox
SYMMETRY Symmetry
CHECK_DEADLOCK FALSE
