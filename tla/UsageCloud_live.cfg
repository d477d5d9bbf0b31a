\* Liveness: with finitely many mishaps an unfinished job gets finished,
\* and no pass outlives its lease.
CONSTANTS
  Procs = {p1}
  None = None
  MaxEvent = 2
  MaxBatches = 3
  MaxJobs = 1
  MaxConsent = 1
  LeaseTtl = 2
  UploadTimeout = 1
  Cooldown = 1
  Backoff = 0
  QuotaWait = 1
  Budget = 2
  CaptureLimit = 2
  MaxBatch = 2
  Ineligible = {}
  HistoryFrom = {}
  Answers = {"ack", "retryable", "expired"}
  UserOps = {"crash", "expire"}
  Prompt = TRUE
SPECIFICATION FairSpec
PROPERTIES
  JobSettles
  LeaseOutlivesPass
CHECK_DEADLOCK FALSE
