SPECIFICATION SdSpec
CONSTANTS
  Sectors = 2
  MaxCount = 2
  Value = {v1, v2}
  Garbage = g
  Foreign = f
  ArenaLines <- MCArenaLines
  OwnerLines <- MCOwnerLines
  QspiLines = 2
  MaxEpoch = 2
INVARIANT ReadsComplete
SYMMETRY Contents
CHECK_DEADLOCK FALSE
