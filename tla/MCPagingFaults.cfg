SPECIFICATION Spec
CONSTANTS
  PageCount = 3
  SlotCount = 2
  HotCount = 1
  PageSize = 1
  Byte = {0, 1}
  Width = {2}
  Media = {"file"}
CONSTRAINT FewestFaults
INVARIANT TypeOK
PROPERTIES FlushReportsTruth PlainMemory
