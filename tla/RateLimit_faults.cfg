CONSTANTS
    Callers = {c1, c2, c3}
    LIMIT = 2
    WINDOW = 3
    MaxCount = 4
SPECIFICATION FairSpec
INVARIANTS TypeOK AtMostTwiceTheLimit WindowsEnd
PROPERTY LimitLifts
