SPECIFICATION MCSpec
CONSTANTS
  PageCount = 3
  SlotCount = 2
  HotCount = 3
  PageSize = 2
  Byte = {0, 1}
  Width = {1}
  Media = {"spi"}
  MaxLen = 2
  Ops = {"read", "find", "write", "moveup", "movedown", "move", "fmemcpy"}
CONSTRAINT FewBytes
INVARIANTS TransfersAreExact MovesExactUnlessStale
