SPECIFICATION Spec
CONSTANTS
  nara = nara
  pronom = pronom
  f1 = f1
  f2 = f2
  Source = {nara, pronom}
  Required = {nara, pronom}
  Mapped = {}
  Format = {f1}
  MaxRun = 2
  MaxClock = 1
  Overlap = TRUE
  FieldChange = {"category_changed"}
  ChangeOf <- EvidenceChange
  BulkMinCount = 1
  BulkDivisor = 1
PROPERTIES
  EvidenceSwitchesAtomically
CHECK_DEADLOCK FALSE
