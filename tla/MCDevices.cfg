SPECIFICATION DevicesSpec
CONSTANTS
    QueueSize = 4
    Reserve = 2
    MouseMargin = 3
    Key <- MCKey
    Scan <- MCScan
    Extended <- MCExtended
    MaxMoves = 2
    MaxEvents = 5
    BufLen = 2
    Wrap = 8
    Sizes = {1, 3}
    DmaLen = 2
    MaxCommands = 4
    Word = 196
    Byte = 2
    Data = {0, 1}
    Mode = {0, 2, 3}
    MaxTicks = 2
    Pace = 4
    MaxLate = 4
    MaxWrites = 3
INVARIANTS StatusTrue NoKeyStuck 
INVARIANTS RingSound StoppedIsQuiet SingleEndsOnce
INVARIANT NeverEarly
PROPERTIES Drained BlocksEnd InStep
CHECK_DEADLOCK FALSE
