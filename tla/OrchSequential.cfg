SPECIFICATION Spec
CONSTANTS
  Handlers = {h1, h2}
  Workflows = {w1, w2}
  Subjects = {s1, s2}
  Keys = {k1, k2}
  Payloads = {p1}
  Claims = {c1, c2, c3}
  NoClaim = NoClaim
  MaxRetryCount = 2
  MaxAttempts = 2
  MaxRequests = 4
  MaxAborts = 1
CONSTRAINT Undisturbed
SYMMETRY Symmetry
INVARIANTS TypeOK AuditAccountsForRow RetriesAudited OutcomeExplained ReconciliationAlerted OneClaimPerCaller
CHECK_DEADLOCK FALSE
