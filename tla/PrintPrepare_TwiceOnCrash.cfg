SPECIFICATION Spec
CONSTANTS
  Designs = {d1, d2, d3}
  Callers = {c1}
  Folder = folder
  Nobody = nobody
  NoCode = noCode
  NamedCodes = {named}
  CodeSpace = 3
  MaxMints = 3
  MaxJobs = 3
  Faults = {"crash"}
INVARIANT HandledOnce
CHECK_DEADLOCK FALSE
