SPECIFICATION FairSpec
CONSTANTS
  Handlers = {h1, h2}
  Subjects = {s1}
  Keys = {k1, k2}
  Payloads = {p1, p2}
  Claims = {c1, c2, c3}
  Base = 2
  Digits = 1
  MaxAttempts = 2
  MaxRequests = 3
  MaxAborts = 1
  MaxYears = 1
INVARIANTS TypeOK KeyedClaims StableAnswers LostFindsWinner ReferencesUnique
PROPERTIES LedgerSpec HandlersFinish
CHECK_DEADLOCK FALSE
