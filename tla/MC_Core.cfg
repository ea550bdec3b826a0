CONSTANTS
  Pcb = {p1, p2, p3}
  NoProc = NoProc
  NoSem = NoSem
  Prio = {0, 1}
  LowPrio = 0
  Support = {TRUE, FALSE}
  UserSem = 1
  PlainLine = {"disk"}
  DevNo = {0}
  TermNo = {}
  Faulty = FALSE
  OneWaiter = FALSE
  MaxVal = 1
  MaxBacklog = 2
SYMMETRY PcbSymmetry
SPECIFICATION Spec
INVARIANTS TypeOK OnePlace CountersExact IdleVerdict SemaphoreBalance TreeConsistent TerminationOnce ReadySorted
PROPERTIES DispatchHighest ImplementsProcessSystem
CHECK_DEADLOCK FALSE
