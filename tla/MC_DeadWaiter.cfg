CONSTANTS
  Pcb = {p1, p2, p3}
  NoProc = NoProc
  NoSem = NoSem
  Prio = {0}
  LowPrio = 0
  Support = {FALSE}
  UserSem = 0
  PlainLine = {"disk"}
  DevNo = {0}
  TermNo = {}
  Faulty = FALSE
  OneWaiter = TRUE
  MaxVal = 0
  MaxBacklog = 2
SYMMETRY PcbSymmetry
SPECIFICATION Spec
PROPERTIES OwnStatus
CHECK_DEADLOCK FALSE
