SPECIFICATION FairSpec
CONSTANTS
  Stems = {"s", "t"}
  MaxDrops = 1
  MinAge = 2
  PollWait = 1
  MaxBusy = 1
  Faults = {"crash", "bad", "insert", "move", "vanish"}
INVARIANTS NoHalfRead OneJobPerDrop PairedRight FiledOnce
PROPERTIES DropsSettle SidecarsSettle
CHECK_DEADLOCK FALSE
