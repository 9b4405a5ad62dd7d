SPECIFICATION Spec
CONSTANTS
    MaxSockets = 1
    Conns = {c1}
    Flows = {u1}
    SeqModulus = 4
    SeqStride = 2
    Payloads = {1}
    Timeout = 2
    AckWait = 1
PROPERTIES InactivityMeansQuiet
