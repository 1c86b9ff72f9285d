\* Two questions overlap; a third may push the oldest turn out.  No lock expires under
\* its holder, which would lose turns in another way.
CONSTANTS
  q1 = q1
  q2 = q2
  h1 = h1
  h2 = h2
  None = None
  Requests = {q1, q2}
  Handlers = {h1, h2}
  MaxTurns = 2
  MaxRequests = 3
SPECIFICATION Spec
CONSTRAINT LocksLive
\* The conversation and the grant end for good.
CHECK_DEADLOCK FALSE
PROPERTIES
  SavesKeepTurns
