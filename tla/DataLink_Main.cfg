SPECIFICATION Spec
CONSTANTS
  Barcodes = {a, b}
  NoBarcode = none
  NameKinds = {TRUE, FALSE}
  MaxJobs = 3
  MaxJobsPerList = 2
  MaxDeliveries = 2
  Faults = {"read", "send", "reply", "reject", "flag", "vanish", "partial", "store", "crash", "stop", "rival", "scale"}
INVARIANTS Inv DeliversTheSelection OfferMatchesScan CutsAreRegistered TwiceOnlyIfLost
PROPERTIES ImplementsScanCycle
