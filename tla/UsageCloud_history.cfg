\* Two successive jobs, history windows, an event the capture excludes, one event
\* per capture and per batch, `usage delete`, and a clear done by another
\* environment.
CONSTANTS
  Procs = {p1}
  None = None
  MaxEvent = 2
  MaxBatches = 3
  MaxJobs = 2
  MaxConsent = 2
  LeaseTtl = 2
  UploadTimeout = 1
  Cooldown = 1
  Backoff = 0
  QuotaWait = 1
  Budget = 2
  CaptureLimit = 1
  MaxBatch = 1
  Ineligible = {2}
  HistoryFrom = {1, 2}
  Answers = {"ack"}
  UserOps = {"disable", "delete", "elsewhere"}
  Prompt = TRUE
SPECIFICATION Spec
INVARIANTS
  OnlyPermittedSent
CHECK_DEADLOCK FALSE
