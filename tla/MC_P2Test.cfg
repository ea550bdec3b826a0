CONSTANTS
  Pcb = {1, 2, 3, 4, 5, 6, 7, 8, 9, 10, 11, 12, 13, 14, 15, 16, 17, 18, 19, 20}
  NoProc = NoProc
  NoSem = NoSem
  Prio = {0, 1, 10}
  LowPrio = 0
  Support = {TRUE, FALSE}
  UserSem = 17
  PlainLine = {}
  DevNo = {}
  TermNo = {0}
  Faulty = FALSE
  OneWaiter = FALSE
  MaxVal = 10
  MaxBacklog = 10
  P8Rounds = 4
  YieldTimes = 100
  ClockLoop = 10
  Characters = 2
SPECIFICATION P2Spec
INVARIANTS TestPasses
PROPERTIES TestEnds
CHECK_DEADLOCK FALSE
