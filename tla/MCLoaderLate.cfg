CONSTANTS
    Dies <- AnyStep
    Timeouts = {"wait1", "wait2", "stopwait"}
    MaxSignals = 3
SPECIFICATION Spec
INVARIANTS  NoStrayTrap
CHECK_DEADLOCK FALSE
