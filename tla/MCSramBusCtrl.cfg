CONSTANTS
    MLEN = 4
    SPAN = 2
    SRAM_DP = 2
    MaxWrites = 2
    None = None
SPECIFICATION Spec
INVARIANTS ReadsSeeWrites WritesWhole
PROPERTIES ImplementsSlavePort
