SPECIFICATION FairSpec
CONSTANTS
  UPROCMAX = 2
  TextPages = 1
  PoolSize = 1
  Val = {0}
  FlashErrors = TRUE
  MaxLives = 2
  HoleUsed = FALSE
INVARIANTS PagerMutexes DeadOwnNothing FrameOfOne OneProgram
PROPERTIES AccessEnds ShellResumes SystemHalts
CHECK_DEADLOCK FALSE
