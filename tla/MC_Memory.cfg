SPECIFICATION Spec
CONSTANTS
  UPROCMAX = 2
  TextPages = 1
  PoolSize = 2
  Val = {0, 1}
  FlashErrors = FALSE
  MaxLives = 1
  HoleUsed = FALSE
INVARIANTS SupportTypeOK TableAgrees TlbAgrees TerminalMutexes
PROPERTY ImplementsVirtualMemory
CHECK_DEADLOCK FALSE
