CONSTANTS
    N = 3
    Val = {0, 1}
    Zero = 0
    CC = {0, 1}
    CW = {0, 1}
    F <- MCF
    U <- MCU
    Round <- MCRound
    Cmp <- MCCmp
    Cond <- MCCond
    EmptyCC = 1
    MaxRun = 4
    DeferFXCH = TRUE
    Shapes = {"fstsw_ends_run"}
SPECIFICATION Spec
INVARIANT MemoryCurrentAtRunEnd
