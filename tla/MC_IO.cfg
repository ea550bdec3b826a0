CONSTANTS
  Pcb = {p1, p2}
  NoProc = NoProc
  NoSem = NoSem
  Prio = {0}
  LowPrio = 0
  Support = {FALSE}
  UserSem = 0
  PlainLine = {}
  DevNo = {0}
  TermNo = {0}
  Faulty = TRUE
  OneWaiter = TRUE
  MaxVal = 0
  MaxBacklog = 2
SPECIFICATION FairSpec
PROPERTIES IOCompletes
CHECK_DEADLOCK FALSE
