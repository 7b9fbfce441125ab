SPECIFICATION PartsSpec
CONSTANTS
  LineCount = 4
  DevLine <- Wired
  Command = {}
  Mask = {}
  MaxEdges = 2
  BufCount = 3
  Unit = {0, 1}
  FatSize = 1
  Fats = 2
  DataSize = 1
  MaxRun = 2
  Value = {0, 1}
CONSTRAINTS FewFaults FewContents
INVARIANTS RingClosed CacheCoherent FatsAgree FlushReportsTruth
PROPERTIES NestedService EoiEndsOwnLine EveryEdgeDelivered
CHECK_DEADLOCK FALSE
