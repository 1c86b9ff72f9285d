\* Three versions of a document, two of equal content; four jobs: index, edit, publish, replace, take offline, delete.
CONSTANTS
  d1 = d1
  v1 = v1
  v2 = v2
  v3 = v3
  c1 = c1
  j1 = j1
  j2 = j2
  j3 = j3
  j4 = j4
  None = None
  Documents = {d1}
  Versions = {v1, v2, v3}
  Chunks = {c1}
  Jobs = {j1, j2, j3, j4}
  DocumentOf <- MCOneDocument
  ContentOf <- MCEqualContents
  RuleOf <- MCClean
  MaxVersionNumber = 4
SPECIFICATION StoreSpec
\* The ids run out: every document deleted, every job ended.
CHECK_DEADLOCK FALSE
SYMMETRY InterchangeableVersions
CONSTRAINT NoFailure
INVARIANTS
  CurrentIsPublished
  VersionsDistinct
PROPERTIES
  LifecycleSpec
