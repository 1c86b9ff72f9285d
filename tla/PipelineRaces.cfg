\* One version: two requests in progress and two tasks race for its jobs.
CONSTANTS
  d1 = d1
  v1 = v1
  v2 = v2
  c1 = c1
  c2 = c2
  c3 = c3
  j1 = j1
  j2 = j2
  j3 = j3
  j4 = j4
  r1 = r1
  r2 = r2
  w1 = w1
  w2 = w2
  None = None
  Documents = {d1}
  Versions = {v1}
  Chunks = {c1}
  Jobs = {j1, j2, j3}
  Requests = {r1, r2}
  Workers = {w1, w2}
  MaxLosses = 1
  DocumentOf <- MCOneDocument
  ContentOf <- MCDistinctContents
  RuleOf <- MCClean
  MaxVersionNumber = 4
SPECIFICATION Spec
\* The ids run out: every document deleted, every job ended.
CHECK_DEADLOCK FALSE
SYMMETRY Interchangeable
INVARIANTS
  JobVersionAgreement
  OneActiveJob
  OrphansOnlyByLoss
  IndexingSteady
PROPERTIES
  StoreSpec
  EndedJobsStay
  ReadyChunksStay
  VersionDiagram
