SPECIFICATION Spec
CONSTANTS
    Cylinders = 2
    Heads = 2
    Sectors = 2
    SectorSize = 2
    CylBase = 1
    InitBytes = 2
    DmaCounts = {1, 4}
INVARIANTS HandshakeNeverPanics PhaseVisible TransferIsLinear
