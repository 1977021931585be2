SPECIFICATION Spec
CONSTANTS
  Keys = {"k1", "k2"}
  ResourceDicts = {"page", "form"}
  Page = "page"
  ColorSpace <- MCColorSpace
  Properties <- MCProperties
  Lower <- MCLower
  SpotNames = {"CutContour"}
  MaxOps = 4
  MaxFrames = 3
INVARIANTS DepthCounts LayersExact ContourExact SourceTrue
CHECK_DEADLOCK FALSE
