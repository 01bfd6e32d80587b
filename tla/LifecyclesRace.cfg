SPECIFICATION LifecyclesSpec
CONSTANTS
  Policies = {p1}
  Claims = {c1}
  Handlers = {h1, h2}
  MaxRequests = 5
  MaxAborts = 1
PROPERTY LegalSteps
CHECK_DEADLOCK FALSE
