SPECIFICATION KbdSpec
CONSTANTS
    QueueSize = 4
    Reserve = 2
    MouseMargin = 3
    Key <- MCKey
    Scan <- MCScan
    Extended <- MCExtended
    MaxMoves = 2
    MaxEvents = 5
PROPERTY Irq1KeptOn
CHECK_DEADLOCK FALSE
