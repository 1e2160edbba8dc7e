SPECIFICATION Spec
CONSTANTS
  j1 = j1
  j2 = j2
  w1 = w1
  w2 = w2
  p1 = p1
  p2 = p2
  q1 = q1
  q2 = q2
  nojob = nojob
  Job = {j1}
  Worker = {w1}
  NoJob = nojob
  Request <- FillGaps
  Puid = {p1}
  Question = {q1}
  Gaps = {{}, {q1}}
  BatchSize = 1
  MaxFault = 0
  MaxKill = 0
INVARIANTS
  GovernedResultSurvives
CHECK_DEADLOCK FALSE
