SPECIFICATION Spec
CONSTANTS
    MaxSockets = 2
    Conns = {c1, c2}
    Flows = {u1}
    SeqModulus = 4
    SeqStride = 2
    Payloads = {1}
    Timeout = 0
    AckWait = 1
VIEW StateView
INVARIANTS BufferFreeForGuest SegmentsInSequence NothingAfterFin
PROPERTIES FrameOnlyLeavesByDelivery AckWaitEnds
