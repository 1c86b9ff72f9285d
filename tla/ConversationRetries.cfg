\* A request id is retried after its pending record expired.
CONSTANTS
  q1 = q1
  q2 = q2
  h1 = h1
  h2 = h2
  None = None
  Requests = {q1, q2}
  Handlers = {h1, h2}
  MaxTurns = 2
  MaxRequests = 2
SPECIFICATION Spec
\* The conversation and the grant end for good.
CHECK_DEADLOCK FALSE
INVARIANTS
  RetriesAreFree
