\* The defaults divided by six: rag_top_k 6, two tool calls of each of three specialists,
\* and room for 18 of the 20 and 30 of the 30 evidences that the schemas admit.
CONSTANTS
  f1 = f1
  f2 = f2
  j1 = j1
  j2 = j2
  k1 = k1
  t1 = t1
  t2 = t2
  p = p
  q = q
  None = None
  Chunks <- MCSix
  ScopeOf <- MCScopeOf
  ProjectOf <- MCProjectOf
  PlannedChunks = {}
  Projects = {p}
  TopK = 1
  MaxToolCalls = 2
  MaxSpecialists = 4
  MaxVerifications = 2
  MaxRepairs = 1
  MaxSteps = 12
  OutputLimit = 3
  EvidenceLimit = 5
SPECIFICATION Spec
\* A run ends.
CHECK_DEADLOCK FALSE
INVARIANT BudgetsDegrade
