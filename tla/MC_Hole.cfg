SPECIFICATION FairSpec
CONSTANTS
  UPROCMAX = 2
  TextPages = 1
  PoolSize = 2
  Val = {0}
  FlashErrors = FALSE
  MaxLives = 1
  HoleUsed = TRUE
PROPERTY AccessEnds
CHECK_DEADLOCK FALSE
