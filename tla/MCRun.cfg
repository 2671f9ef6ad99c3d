CONSTANTS
    Config = {"run_bridge", "bridge_carry", "runtime_keepalive", "transparent_int"}
    Disabled = {"fadd"}
    MaxBridgeGap = 2
    Blocks <- AllBlocks
    Transients = {0, 3, 4}
SPECIFICATION Spec
INVARIANTS TypeOK PinsCurrent PoolSuffices  LookaheadExact
PROPERTIES LeaseKept
