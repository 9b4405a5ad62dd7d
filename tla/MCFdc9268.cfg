SPECIFICATION FairSpec
CONSTANTS
    Drives = {0}
    Cylinders = 2
    Spt = 2
    SectorSize = 2
    Cs = {1}
    Hs = {0, 1}
    Rs = {1, 2, 3}
    DmaCounts = {1, 3}
INVARIANTS HandshakeNeverPanics TransferHitsAddressedSector TransferStatusAgrees SenseReportsSeekEnd
PROPERTIES CommandEnds
