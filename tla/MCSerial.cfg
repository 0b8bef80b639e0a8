SPECIFICATION Spec
CONSTANTS
  Fifo = 2
  Keys = {k1}
  NoKey = NoKey
  KeyRoom = 4
  ReplyRoom = 1
  TxCharacter = 1
  RepeatDelay = 2
  RepeatPeriod = 2
  Identification = 1
  MaxBytes = 5
  MaxControl = 2
  Starts <- MCStarts
  MaxStep = 2
  Script <- MCScript
  Commands = {"FF"}
  Miscs = {"none", "reset receiver"}
  Enables <- MCEnables
  Mr1s <- MCMr1s
  Mr2s <- MCMr2s
INVARIANTS NothingLostUnseen InOrder KeyboardSane
CHECK_DEADLOCK FALSE
