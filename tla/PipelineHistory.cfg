SPECIFICATION Spec
CONSTANTS
  nara = nara
  pronom = pronom
  f1 = f1
  f2 = f2
  Source = {nara}
  Required = {}
  Mapped = {nara}
  Format = {f1, f2}
  MaxRun = 3
  MaxClock = 1
  Overlap = FALSE
  FieldChange = {"category_changed"}
  ChangeOf <- EvidenceChange
  BulkMinCount = 1
  BulkDivisor = 1
SYMMETRY FormatSymmetry
INVARIANTS
  CommittedAcquisitionStored
  EvidenceIsOneAcquisition
  PublishedRegistryIsWhole
  ProducingRulesReplaced
  ChangesAccountedFor
CHECK_DEADLOCK FALSE
