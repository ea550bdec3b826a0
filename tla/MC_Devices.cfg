CONSTANTS
  Pcb = {p1, p2}
  NoProc = NoProc
  NoSem = NoSem
  Prio = {0}
  LowPrio = 0
  Support = {TRUE}
  UserSem = 1
  PlainLine = {"disk"}
  DevNo = {0}
  TermNo = {0}
  Faulty = TRUE
  OneWaiter = FALSE
  MaxVal = 0
  MaxBacklog = 1
  MaxTime = 1
SYMMETRY PcbSymmetry
SPECIFICATION PSSpec
INVARIANTS CountersExact IdleVerdict SemaphoreBalance ResumesButForAWord TimeChargedOnce OwnSemaphore
CHECK_DEADLOCK FALSE
