SPECIFICATION FairSpec
CONSTANTS
  Cutters = {left, right}
  RetryTotal = 2
  RetryInterval = 1
  Attempts = 3
  MaxScans = 2
  MaxRestarts = 1
INVARIANTS OneWholeCommand CountsAreTrue ToldWhatWasSent
PROPERTIES WorkersReturn EventsEnd
CHECK_DEADLOCK FALSE
