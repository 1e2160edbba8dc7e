CONSTANTS
  identification = identification
  questions = questions
  riskContext = riskContext
  overallRisk = overallRisk
  wholeRegistry = wholeRegistry
  Nothing = Nothing
  fmt18 = fmt18
  fmt19 = fmt19
  fmt19new = fmt19new
  fdd30 = fdd30
  fmt40 = fmt40
  Doc = {fmt18, fmt19, fmt19new, fdd30, fmt40}
  About <- Contents
  Text <- Texts
  Reads <- TextReads
  MatchLimit = 2
  ShortlistLimit = 3
  RequestLimit = 2
  AssessmentLimit = 1
  MaxPublish = 0
  Nil = Nil
  restricted1 = restricted1
  open1 = open1
  draft1 = draft1
  licence1 = licence1
  licence2 = licence2
  unlicensed2 = unlicensed2
  recorded3 = recorded3
  again3 = again3
  local3 = local3
  legacyLoc = legacyLoc
  legacyLocal = legacyLocal
  recognition = recognition
  qnl = qnl
  calibrated = calibrated
  draft = draft
  composite = composite
  Claim <- Claims
  Legacy = {legacyLoc, legacyLocal}
  Recognition = recognition
  Data <- ItemData
  Document <- Documents
  Framework = {calibrated, draft}
  Rules <- FrameworkRules
  Institution = {qnl}
  Compatible <- CompatibleFields
  GlobalMap <- GlobalValues
  OptionRank <- Ranks
  MaxChange = 2
  Registry <- Registries
  AuditClaim <- AuditClaims
  AuditFramework = {composite}
  Accepted <- MadeByAccepted
  Drafted <- MadeByDrafts
  MaxEdit = 2
  Absent = Absent
  nara1 = nara1
  nara2 = nara2
  dpc1 = dpc1
  other1 = other1
  qnl1 = qnl1
  shipped = shipped
  majority = majority
  mildest = mildest
  naraOld = naraOld
  naraNew = naraNew
  locRow = locRow
  newRow = newRow
  strayRow = strayRow
  was = was
  became = became
  repeated = repeated
  rated = rated
  stray = stray
  factor = factor
  prose1 = prose1
  criterion1 = criterion1
  criterion2 = criterion2
  RiskClaim = {nara1, nara2, dpc1, other1}
  Overlay = {qnl1}
  Term <- Terms
  Level = {"minimal", "low", "moderate", "high", "critical"}
  Concern <- Concerns
  Policy = {shipped, majority, mildest}
  Shipped = shipped
  PolicyText <- Policies
  BuilderScopes <- Specificity
  KnownAs <- TwoIds
  Carried <- MayCarry
  MaxRefresh = 2
  SourceRow = {naraOld, naraNew, locRow, newRow, strayRow}
  RowSays <- RowContents
  DirectRefs <- Attached
  FormatIds <- StrongIds
  FindingKind <- Kinds
  RecordOf <- Records
  CriterionClaims <- CriteriaFor
  AILevel = {"low", "critical"}
  MaxAnswers = 2
  MaxRecords = 2
  MaxFindings = 4
  BundleLimit = 5
  ItemLimit = 4
  Budgets <- PromptBudgets
  FixedSize = 1
  FrameworkSize = 1
SPECIFICATION Spec
INVARIANT FailedLookupAssessesNothing
CHECK_DEADLOCK FALSE
