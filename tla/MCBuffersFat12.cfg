SPECIFICATION SpecFat12
CONSTANTS
  BufCount = 6
  Unit = {0}
  FatSize = 2
  Fats = 2
  DataSize = 1
  MaxRun = 1
  Value = {0, 1}
CONSTRAINTS FewFaults FewContents
INVARIANT TwoFatBuffersDiffer
