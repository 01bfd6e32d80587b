SPECIFICATION Spec
CONSTANTS
  Handlers = {h1}
  Workflows = {w1}
  Subjects = {s1,s2}
  Keys = {k1}
  Payloads = {p1}
  Claims = {c1,c2}
  NoClaim = NoClaim
  MaxRetryCount = 2
  MaxAttempts = 1
  MaxRequests = 3
  MaxAborts = 1
SYMMETRY Symmetry
CHECK_DEADLOCK FALSE
INVARIANT OneClaimPerWorkflow
