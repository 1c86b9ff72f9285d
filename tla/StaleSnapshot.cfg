\* Two documents of one scope, three versions with four equal chunks and one
\* that differs; two requests at once.
CONSTANTS
  d1 = d1
  d2 = d2
  v1 = v1
  v2 = v2
  v3 = v3
  s1 = s1
  x = x
  y = y
  h1 = h1
  h2 = h2
  None = None
  Documents = {d1, d2}
  Versions = {v1, v2, v3}
  Chunks = {1, 2, 3, 4, 5}
  Scopes = {s1}
  Handlers = {h1, h2}
  DocumentOf <- MCDocumentOf
  VersionOf <- MCVersionOf
  HashOf <- MCHashOf
  ScopeOf <- MCScopeOf
  MaxSnapshotRetries = 1
SPECIFICATION Spec
\* The versions run out: every document deleted.
CHECK_DEADLOCK FALSE
INVARIANTS
  CanonicalWheneverSettled
