SPECIFICATION SdSpec
CONSTANTS
  Sectors = 3
  MaxCount = 2
  Value = {v1, v2}
  Garbage = g
  Foreign = f
  ArenaLines <- MCArenaLines
  OwnerLines <- MCOwnerLines
  QspiLines = 2
  MaxEpoch = 2
INVARIANTS LinesTrue ReadsTrue
SYMMETRY Contents
CHECK_DEADLOCK FALSE
