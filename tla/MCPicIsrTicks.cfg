SPECIFICATION IsrSpec
CONSTANTS
  LineCount = 4
  DevLine <- Devices
  IsrLine <- TimerLines
  Command = {}
  Mask = {{}, {0}}
INVARIANT TickLatched
