CONSTANTS
    Config = {"run_bridge", "bridge_carry"}
    Disabled = {}
    MaxBridgeGap = 16
    Blocks <- StaleBlocks
    Transients = {0}
SPECIFICATION Spec
INVARIANTS PinsCurrent
