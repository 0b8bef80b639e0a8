SPECIFICATION Spec
CONSTANTS
  Sectors = 2
  Tracks = 2
  BufferBlocks = 2
  ZeroBlocks = 3
  Seek = 1
  Spin = 1
  Timeout = 2
  ResetTime = 1
  Never = 1000
  FloppySectors = 4
  PerTrack = 2
  StepTime = 1
  Settling = 1
  Latency = 1
  PerSector = 1
  ResetInterrupt = 2
  FarthestStep = 1
  NeverDue = 1000
  ExceptionTime = 1
  DirectionTime = 2
  CommandTime = 2
  BlockTime = 1
  TestTime = 2
  HoldTime = 1
  CloseTime = 2
  ReopenTime = 1
  Unset = 1000
  Cartridges <- TheCartridges
  ByteTime = 1
  MarkByte = "m"
  StatusBytes = 1
  TapeCommands <- TheTapeCommands
  TapeControls <- TheTapeControls
  TapeBytes <- TheTapeBytes
  MaxCommands <- TheMaxCommands
  MaxControls <- TheMaxControls
  MaxWritten = 2
  MaxStep <- TheMaxStep
  MaxRecords = 4
  BlockMax = 2
  Silence = 1
  Ogmbs = 2
  Icmbs = 2
  QueueMax = 2
  InitBytes = 2
  PortTime = 1
  DiagnoseTime = 1
  ResetMin = 1
  Forever = 1000
  ScsiSetups <- TheScsiSetups
  ScsiControls <- TheScsiControls
  ScsiOpcodes <- TheScsiOpcodes
  MaxNow <- TheMaxNow
  DiskCommands <- TheDiskCommands
  FloppyCommands <- TheFloppyCommands
  Following <- TheFollowing
  Masks <- TheMasks
  ScanBytes = {0, 1}
INVARIANTS LinesTrue DataRight OnlyWhatWasAsked BusyEnds
PROPERTY PromiseKept
CHECK_DEADLOCK FALSE
