CONSTANTS
  None = None
  Torn = Torn
  NaraTorn = NaraTorn
  wikidata = wikidata
  nara_dpf = nara_dpf
  Format = {1, 2, 3}
  Population <- TwoQueries
  Part <- TwoParts
  FirstListed <- Overlapping
  Query = {"q1", "q2"}
  Custom = "custom"
  PageSize = 2
  BatchSize = 2
  MaxClock = 1
  MaxSession = 2
  MaxStop = 1
  Date = {1, 2, 3}
  PinnedDate = 1
  LocalDate = 2
  NaraMaxStop = 2
  store = store
  NoField = NoField
  Cut = Cut
  StoreFormat = {"f1", "f2"}
  Value = {"text/plain", "text/x-c", "text/x-c++"}
  Safe <- SameFileName
  Registries <- FourRegistries
  MaxPersist = 2
  mappings = mappings
  Absent = Absent
  Mappings <- ThreeMappings
  Views <- TwoViews
  Evidence <- TwoRuns
  Unmapped <- AHumanClaim
  MaxPipelineRun = 2
  MaxBackfill = 2
  crosswalk = crosswalk
  FddId = {"fdd1", "fdd2"}
  PuidId = {"fmt/1", "fmt/2"}
  CrosswalkRow = {"w1", "w2", "w3", "w4", "w5", "w6"}
  RowText <- Crosswalk
  Edition <- TwoEditions
  Registered <- MayHold
  LocCopies <- Copies
  TitleOf <- Titles
  VersionsIn <- Versions
  BroadNames = {"Foo Family"}
  NoFile = NoFile
  MaxRuns = 2
SPECIFICATION Spec
INVARIANTS
  DiscoveryIsComplete
  OutputIsOneSession
  CompleteIsReplayable
  IndexedSnapshotsAreWhole
  CompanionsOfOneRelease
  LatestNeverGoesBack
  StoresAnswerAlike
  ReplacementIsComplete
  ApprovedBridgesAreOneToOne
PROPERTY
  CompletedRequestsNotRepeated
