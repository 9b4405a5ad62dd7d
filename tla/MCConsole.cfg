SPECIFICATION KeyboardSpec
CONSTANTS
    FifoSize = 8
    Chars <- MCChars
INVARIANT KeysBalance
PROPERTY KeyIsReleased
CONSTRAINT NothingLost
