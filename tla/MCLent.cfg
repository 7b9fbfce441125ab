SPECIFICATION LentSpec
CONSTANTS
  Root = 9
  Top = 12
  Psp = {16}
  LowUsed = 0
  LineParas = 2
  Sizes = {1, 2, 3, 20}
  Sectors = 2
  MaxCount = 1
  Value = {v1}
  Garbage = g
  Foreign = f
  ArenaLines <- MCArenaLines
  OwnerLines <- MCOwnerLines
  QspiLines = 1
  MaxEpoch = 1
INVARIANTS ChainsTile LargestIsObtainable TerminationFreesAll LentIsFree
PROPERTY ProgramsUntouched
CHECK_DEADLOCK FALSE
