\* One version with a clean, a hard-blocked and a contact chunk, two jobs, without symmetry.
CONSTANTS
  d1 = d1
  v1 = v1
  v2 = v2
  c1 = c1
  c2 = c2
  c3 = c3
  j1 = j1
  j2 = j2
  j3 = j3
  j4 = j4
  r1 = r1
  r2 = r2
  w1 = w1
  w2 = w2
  None = None
  Documents = {d1}
  Versions = {v1}
  Chunks = {c1, c2, c3}
  Jobs = {j1, j2}
  Requests = {r1, r2}
  Workers = {w1}
  MaxLosses = 1
  DocumentOf <- MCOneDocument
  ContentOf <- MCDistinctContents
  RuleOf <- MCMixed
  MaxVersionNumber = 4
SPECIFICATION RetryingSpec
\* The ids run out: every document deleted, every job ended.
CHECK_DEADLOCK FALSE
INVARIANTS
  TypeOK
  ReadyIsEmbedded
  HardBlockedStaysOff
PROPERTIES
  QueuedJobsEnd
  PendingJobsRecover
