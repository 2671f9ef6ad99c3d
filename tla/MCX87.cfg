CONSTANTS
    N = 3
    Val = {0, 1}
    Zero = 0
    CC = {0, 1}
    CW = {1}
    F <- MCF
    U <- MCU
    Round <- MCRound
    Cmp <- MCCmp
    Cond <- MCCond
    EmptyCC = 1
    MaxRun = 5
    DeferFXCH = TRUE
    Shapes = {}
SPECIFICATION Spec
INVARIANTS TypeOK Coherent MemoryCurrentAtRunEnd TopBaseline TagsDisjoint
    NothingDeferredOutsideRun
