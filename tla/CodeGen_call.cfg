CHECK_DEADLOCK FALSE
SPECIFICATION Spec
CONSTANTS
    Places = {64, 300}
    Targets = {10, 310, 900}
    Counts = {0, 3, 5, 7}
    AddressLimit = 65536
    Imm32Limit = 256
    MaxChunks = 3
INVARIANTS
    CallsReachTarget
