SPECIFICATION Spec
CONSTANTS
    Names <- TwoNames
    Name83 <- TwoName83
    HostOrder <- TwoOrder
    Searches <- TwoSearches
    MaxDepth = 2
    MaxSize = 1
    ClusterMax = 4
VIEW StateView
INVARIANTS HandleStable OneClusterPerPath Path83Agrees
