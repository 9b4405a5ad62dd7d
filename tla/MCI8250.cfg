SPECIFICATION Spec
CONSTANTS
    RingSize = 3
    Bytes = {b1, b2}
    NoByte = NoByte
INVARIANTS ReadySignalsAreTrue
PROPERTIES Passthrough TransmitDrains
