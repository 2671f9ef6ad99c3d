CONSTANTS
    Dies = {}
    Timeouts = {"wait1"}
    MaxSignals = 0
SPECIFICATION Spec
INVARIANT StoppedWhilePatched
CHECK_DEADLOCK FALSE
