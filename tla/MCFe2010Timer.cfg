SPECIFICATION Spec
CONSTANTS
    ByteBase = 3
    Lines = {0, 1}
    Counters = {2}
    TickDivisor = 2
    Scancodes = {}
    Bat = 2
    ControlWords <- TimerControlWords
    Loads = {1}
    MaxDepth = 1
PROPERTIES Timer2OutputFalls
