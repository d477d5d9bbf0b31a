\* Two batches and two processes that may be suspended anywhere, so that the lease lapses under a
\* sender and another one takes over; crashes; every kind of unusable answer; `usage cloud
\* clear` with a lost confirmation.
CONSTANTS
  Procs = {p1, p2}
  None = None
  MaxEvent = 2
  MaxBatches = 2
  MaxJobs = 1
  MaxConsent = 1
  LeaseTtl = 2
  UploadTimeout = 1
  Cooldown = 1
  Backoff = 0
  QuotaWait = 1
  Budget = 2
  CaptureLimit = 2
  MaxBatch = 1
  Ineligible = {}
  HistoryFrom = {}
  Answers = {"ack", "retryable", "quota_paused", "garbled"}
  UserOps = {"crash", "clear"}
  Prompt = FALSE
SPECIFICATION Spec
SYMMETRY Symmetry
INVARIANTS
  BudgetHonoured
  RecordedAckHonest
  
PROPERTIES
  
  SendsWithinConsent
CHECK_DEADLOCK FALSE
