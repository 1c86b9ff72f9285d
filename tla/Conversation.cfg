\* Two handlers, two request ids, a quota of two.
CONSTANTS
  q1 = q1
  q2 = q2
  h1 = h1
  h2 = h2
  None = None
  Requests = {q1, q2}
  Handlers = {h1, h2}
  MaxTurns = 2
  MaxRequests = 2
SPECIFICATION Spec
SYMMETRY Symmetry
\* The conversation and the grant end for good.
CHECK_DEADLOCK FALSE
INVARIANTS
  TypeOK
  OneRunUnlessLate
  RunIsRecorded
  ChargedOnceUnlessExpired
  AnsweredOnceUnlessExpired
PROPERTIES
  OutcomesStay
  LeasedSpec
