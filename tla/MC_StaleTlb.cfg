SPECIFICATION Spec
CONSTANTS
  UPROCMAX = 2
  TextPages = 1
  PoolSize = 2
  Val = {0}
  FlashErrors = FALSE
  MaxLives = 2
  HoleUsed = FALSE
INVARIANT TlbAgrees
CHECK_DEADLOCK FALSE
