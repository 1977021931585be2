SPECIFICATION Spec
CONSTANTS
  Keys = {"k1", "k2"}
  ResourceDicts = {"page", "form"}
  Page = "page"
  ColorSpace <- MCColorSpace
  Properties <- MCProperties
  Lower <- MCLower
  SpotNames = {"CutContour"}
  MaxOps = 3
  MaxFrames = 3
INVARIANTS SpotMeansCut
CHECK_DEADLOCK FALSE
