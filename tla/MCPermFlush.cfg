CONSTANTS
    N = 5
    Value = {a, b}
SPECIFICATION Spec
INVARIANT PermutationKept
PROPERTIES ExchangesKept FlushEnds
