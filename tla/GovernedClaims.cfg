SPECIFICATION NarrowSpec
CONSTANTS
  dpc = dpc
  nara = nara
  wikidata = wikidata
  f1 = f1
  f2 = f2
  r1 = r1
  r2 = r2
  Format = {f1, f2}
  RiskSource = {dpc}
  Wikidata = wikidata
  Rule = {r1}
  MaxJob = 3
  MaxActive = 2
SYMMETRY ClaimSymmetry
INVARIANTS
  AttachedWasClaimed
  PipelineRestoresView
  SourceClaimsReplaced
  CompletedRefreshIsCoherent
CHECK_DEADLOCK FALSE
