\* Two administrators, one grant over one project, two requests at once.
CONSTANTS
  a1 = a1
  a2 = a2
  h1 = h1
  h2 = h2
  None = None
  Admins = {a1, a2}
  Guessed = {a2}
  Hosts = {host}
  Handlers = {h1, h2}
  Grants = {grant}
  Projects = {project1}
  MaxFailures = 1
  MaxRequests = 2
SPECIFICATION Spec
SYMMETRY Interchangeable
INVARIANTS
  TypeOK
  AdministratorRemains
  NobodyComesInLate
  FailuresBounded
  QuotaKept
PROPERTIES
  LinksStay
