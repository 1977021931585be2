SPECIFICATION Spec
CONSTANTS
  Stems = {"s"}
  MaxDrops = 2
  MinAge = 2
  PollWait = 1
  MaxBusy = 1
  Faults = {"reuse"}
INVARIANT NoHalfRead
CHECK_DEADLOCK FALSE
