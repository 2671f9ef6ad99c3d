CONSTANTS
    N = 4
    Val <- MCVal
    Zero = 0
    One = 1
    CC = {0, 1, 2}
    CW = {0, 1}
    F <- MCF
    U <- MCU
    Round <- MCRound
    Cmp <- MCCmp
    Cond <- MCCond
    EmptyCC = 2
    Nar <- MCNar
    Pow2 <- MCPow2
    Reinterpret <- MCReinterpret
    GReg = {"ax", "bx", "cx"}
    RegMod = 12
    MemTop = 27
    MaxNodes = 6
    CseSlots = 4
    ConstSlots = 2
    Config = {"const_promote", "f32_narrow", "transparent_int"}
    FprPool = 3
    GprPool = 8
    PairMaxSkip = 4
    AddrSlots = 3
    Suites <- MemorySuites
SPECIFICATION Spec
INVARIANTS TypeOK MeaningKept LoweredRight FprPoolSuffices
CHECK_DEADLOCK FALSE
