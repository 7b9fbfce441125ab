SPECIFICATION PartsSpec
CONSTANTS
  LineCount = 4
  DevLine <- Devices
  IsrLine <- TimerLines
  Command = {}
  Mask = {{}, {0}}
  LastCluster = 4
  File = {"a", "b"}
  Handle = {"h"}
  SecSize = 2
  Count = {0, 5}
  Position = {0, 3, 4}
  MaxFaults = 1
  MaxSince = 2
  None = None
  Orphan = Orphan
INVARIANTS IdleConsistent FilesWhole NothingLost FreeCountTrue TransfersInPlace CallsEnd
PROPERTIES OnlyWindowsLoseTicks DeviceRequestKept
