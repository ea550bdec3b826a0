SPECIFICATION Spec
CONSTANTS
  UPROCMAX = 2
  TextPages = 1
  PoolSize = 2
  Val = {0}
  FlashErrors = TRUE
  MaxLives = 1
  HoleUsed = FALSE
INVARIANT TableAgrees
CHECK_DEADLOCK FALSE
