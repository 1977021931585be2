SPECIFICATION FairSpec
CONSTANTS
  Designs = {d1, d2}
  Callers = {c1}
  Folder = folder
  Nobody = nobody
  NoCode = noCode
  NamedCodes = {named}
  CodeSpace = 3
  MaxMints = 4
  MaxJobs = 4
  Faults = {"crash", "bad", "insert", "write", "move"}
INVARIANTS Inv MintedOnce SheetsAreRegistered TwiceOnlyIfSpoilt
PROPERTY FilesLeave
CHECK_DEADLOCK FALSE
