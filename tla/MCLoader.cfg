CONSTANTS
    Dies <- AnyStep
    Timeouts = {}
    MaxSignals = 3
SPECIFICATION Spec
INVARIANTS TypeOK ExecCaught NoStrayTrap StoppedWhilePatched CleanHandover
PROPERTIES  Accelerates
CHECK_DEADLOCK FALSE
