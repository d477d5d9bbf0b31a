\* One process against consent withdrawal and renewal, retention and crashes:
\* two events, three batches, two consent intervals.  The bounded instance comes
\* to rest when its events, batches, jobs and intervals are used up.
CONSTANTS
  Procs = {p1}
  None = None
  MaxEvent = 2
  MaxBatches = 3
  MaxJobs = 1
  MaxConsent = 2
  LeaseTtl = 2
  UploadTimeout = 1
  Cooldown = 1
  Backoff = 0
  QuotaWait = 1
  Budget = 2
  CaptureLimit = 2
  MaxBatch = 2
  Ineligible = {}
  HistoryFrom = {}
  Answers = {"ack", "expired", "retryable"}
  UserOps = {"crash", "disable", "expire"}
  Prompt = TRUE
SPECIFICATION Spec
INVARIANTS
  BatchesOwnTheirRows
  JobsTellTheTruth
PROPERTIES
  DeliversEvents
CHECK_DEADLOCK FALSE
