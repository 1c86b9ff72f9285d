\* Four chunks of the three scopes in two projects; evidence may exceed its limits.
CONSTANTS
  f1 = f1
  f2 = f2
  j1 = j1
  j2 = j2
  k1 = k1
  t1 = t1
  t2 = t2
  p = p
  q = q
  None = None
  Chunks <- MCFour
  ScopeOf <- MCScopeOf
  ProjectOf <- MCProjectOf
  PlannedChunks = {k1}
  Projects = {p, q}
  TopK = 1
  MaxToolCalls = 2
  MaxSpecialists = 2
  MaxVerifications = 2
  MaxRepairs = 1
  MaxSteps = 7
  OutputLimit = 1
  EvidenceLimit = 2
SPECIFICATION FairSpec
\* A run ends.
CHECK_DEADLOCK FALSE
INVARIANTS
  CitationsRevalidated
  EvidenceInScope
  BudgetsKept
PROPERTIES
  WorkShrinks
  RunEnds
