SPECIFICATION Spec
CONSTANTS
  Byte = 2
  Sixty = 2
  Second = 4
  X1 = 1
  Samples = 2
  Never = 1000
  MaxStep = 3
  Devices <- TheDevices
  StartDates <- TheStartDates
  ControlWords <- TheControlWords
  RatesA <- TheRatesA
  SetsB <- TheSetsB
  Alarms <- TheAlarms
  WrittenDates <- TheWrittenDates
  MaxAccess <- TheMaxAccess
  MaxNow <- TheMaxNow
INVARIANTS CutInvisible DateIsNth ReadBack WaveRight
PROPERTY PromiseKept
CHECK_DEADLOCK FALSE
