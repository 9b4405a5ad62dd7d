SPECIFICATION Spec
CONSTANTS
    PageSize = 8
    PageModulus = 16
    PStart = 2
    PStop = 7
    Lengths = {1, 4, 6}
    Ids = {f1}
    Masks = {{"PRX", "PTX"}}
    MaxUnread = 2
INVARIANTS ChainIntact
