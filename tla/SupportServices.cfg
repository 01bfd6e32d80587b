SPECIFICATION Spec
INVARIANTS
  TypeOK
  LatestTellsStatus
  TrailIsRooted
  CoverWasActive
  StablePayments
  AnswersMatchRecord
  UploadsResolve
  DraftsAreGrounded
  RevokedKeyExpires
  PublishedKeyAccepted
PROPERTIES
  AnsweredIsNotChargedAgain
  ImportLedgerSpec
  ApprovalsOverlap
CONSTANTS
  Policies = {p1}
  Claims = {m1}
  Handlers = {h1, h2}
  MaxRequests = 6
  MaxAborts = 1
  Payers = {q1, q2}
  PayKeys = {y1}
  PayInputs = {i1, i2}
  DeclinedInputs = {i2}
  MaxCalls = 2
  MaxPayFaults = 1
  Feeds = {f1, f2}
  LegacyIds = {l1, l2}
  Contents = {x1, x2}
  RowIds = {r1, r2}
  MaxDrops = 1
  Blobs = {{"signature", "unsigned"}, {"lawsuit"}}
  Filenames = {txt, exe}
  Supported = {txt}
  Filings = {g1}
  DocKeys = {k1, k2}
  NoDocKey = NoDocKey
  MaxDocuments = 3
  MaxReviews = 1
  Clerks = {c1, c2}
  Passages <- MCPassages
  Questions <- MCQuestions
  Unscoped = Unscoped
  MaxPassages = 2
  MaxDrafts = 1
  Kids = {s1}
  Verifiers = {v1, v2}
  Ttl = 2
  MaxLatency = 1
  MaxTime = 4
CHECK_DEADLOCK FALSE
