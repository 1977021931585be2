SPECIFICATION Spec
CONSTANTS
  Jobs <- MCJobs
  LinkLen = 9
  MaxPairs = 2
  MaxSegments = 5
  Twentieth = 16
  UnitsPerStep = 32
  TextLen = 8132
  FlattenDepth = 2
  Tolerance = 20
INVARIANTS CutsEachLineOnce CutsInsideTheMarks CutsWherePrinted  PassesClose CurvesAreFollowed
