SPECIFICATION Spec
CONSTANTS
  Handlers = {h1}
  Workflows = {w1}
  Subjects = {s1}
  Keys = {k1}
  Payloads = {p1}
  Claims = {c1}
  NoClaim = NoClaim
  MaxRetryCount = 1
  MaxAttempts = 1
  MaxRequests = 1
  MaxAborts = 0
SYMMETRY Symmetry
CHECK_DEADLOCK FALSE
INVARIANT ParkedCanBeRetried
