SPECIFICATION OneBatchSpec
CONSTANTS
  j1 = j1
  j2 = j2
  w1 = w1
  w2 = w2
  p1 = p1
  p2 = p2
  q1 = q1
  q2 = q2
  nojob = nojob
  Job = {j1, j2}
  Worker = {w1}
  NoJob = nojob
  Request <- Requests
  Puid = {p1, p2}
  Question = {q1, q2}
  Gaps <- NestedGaps
  BatchSize = 1
  MaxFault = 1
  MaxKill = 1
INVARIANTS
  ReportsAreThere
  LiveJobsAreHeld
  UnaskedIsReported
PROPERTIES
  SettledStays
  JobSettles
CHECK_DEADLOCK FALSE
