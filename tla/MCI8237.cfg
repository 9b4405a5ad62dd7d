SPECIFICATION DmaSpec
CONSTANTS
    Base = 2
    Pages = 2
    ReadOnly = {3}
    Requests <- MCRequests
INVARIANTS BlockAsRequested CountReadsBack
