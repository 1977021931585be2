SPECIFICATION Spec
CONSTANTS
  Barcodes = {a}
  NoBarcode = none
  NameKinds = {TRUE}
  MaxJobs = 1
  MaxJobsPerList = 2
  MaxDeliveries = 2
  Faults = {"read"}
INVARIANTS OneDelivery
