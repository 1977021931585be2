SPECIFICATION FairSpec
CONSTANTS
  Processes = {p1, p2, p3}
  Callers = {c1, c2}
  Nobody = nobody
  Locked = TRUE
  CanCrash = TRUE
INVARIANTS Inv OnePoller StopMeansStopped
PROPERTIES StartTakesEffect
