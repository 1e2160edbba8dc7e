SPECIFICATION Spec
CONSTANTS
  Parts = {"pronom", "nara", "policy"}
  Kind <- Kinds
  Puid = "puid"
  Rank <- RankOf
  Name <- Names
  Version <- VersionOf
  Broad <- BroadNames
  Record <- Records
  Delivery <- Deliveries
  BulkMin = 3
  MaxRun = 1
INVARIANTS
  AuthorityKeyIsVerified
CHECK_DEADLOCK FALSE
