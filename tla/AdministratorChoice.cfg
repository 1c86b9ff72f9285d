\* The administrator disables a chunk before the version's first indexing pass.
CONSTANTS
  d1 = d1
  v1 = v1
  v2 = v2
  c1 = c1
  c2 = c2
  c3 = c3
  j1 = j1
  j2 = j2
  j3 = j3
  j4 = j4
  r1 = r1
  r2 = r2
  w1 = w1
  w2 = w2
  None = None
  Documents = {d1}
  Versions = {v1}
  Chunks = {c1}
  Jobs = {j1, j2}
  Requests = {r1}
  Workers = {w1}
  MaxLosses = 0
  DocumentOf <- MCOneDocument
  ContentOf <- MCDistinctContents
  RuleOf <- MCClean
  MaxVersionNumber = 4
SPECIFICATION Spec
\* The ids run out: every document deleted, every job ended.
CHECK_DEADLOCK FALSE
PROPERTIES
  AdministratorChoiceStays
