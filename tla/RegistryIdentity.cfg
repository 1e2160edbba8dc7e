SPECIFICATION Spec
CONSTANTS
  Parts = {"pronom", "loc", "nara", "policy"}
  Kind <- Kinds
  Puid = "puid"
  Rank <- RankOf
  Name <- Names
  Version <- VersionOf
  Broad <- BroadNames
  Record <- Records
  Delivery <- Deliveries
  BulkMin = 3
  MaxRun = 2
INVARIANTS
  VersionsAgree
  FamilyStandsAlone
PROPERTIES
  QuietWhenUnchanged
  IdentityAccountedFor
  RemovalIsReal
CHECK_DEADLOCK FALSE
