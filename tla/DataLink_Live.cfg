SPECIFICATION FairSpec
CONSTANTS
  Barcodes = {a}
  NoBarcode = none
  NameKinds = {TRUE, FALSE}
  MaxJobs = 2
  MaxJobsPerList = 2
  MaxDeliveries = 2
  Faults = {"send", "reply", "reject", "store", "partial", "outrun", "rival", "info"}
PROPERTIES ScanIsAnswered NoSilentLoss Rearms InfoStaysOut
