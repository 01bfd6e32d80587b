SPECIFICATION FairSpec
CONSTANTS
  Handlers = {h1, h2}
  Workflows = {w1, w2}
  Subjects = {s1}
  Keys = {k1}
  Payloads = {p1, p2}
  Claims = {c1}
  NoClaim = NoClaim
  MaxRetryCount = 1
  MaxAttempts = 2
  MaxRequests = 4
  MaxAborts = 1
INVARIANTS CompletedIsBacked UnfinishedHasNoClaim RetriesBounded OneWorkflowPerKey CommittedIsSettled
PROPERTIES CompletedIsNeverRerun HandlersFinish PendingSettles
CHECK_DEADLOCK FALSE
