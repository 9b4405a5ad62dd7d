SPECIFICATION Spec
CONSTANTS
    ByteBase = 3
    Lines = {0, 1, 3}
    Counters = {0}
    TickDivisor = 2
    Scancodes = {1}
    Bat = 2
    ControlWords <- NoControlWords
    Loads = {}
    MaxDepth = 2
INVARIANTS TypeOK HandlersInterruptEnabledCode HaltedMeansNothingPending
PROPERTIES PendingOnlyLeavesByDelivery TickDeliversByPriority HaltEventuallyWakes
