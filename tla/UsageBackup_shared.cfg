\* Two processes, one of which may outlive its lease while the other runs; crashes,
\* settings writes that fail, cloud deletion and a second generation, `usage delete`.
CONSTANTS
  Procs = {"p1", "p2"}
  None = "none"
  Accounts = {a1}
  NoAccount = NoAccount
  MaxEvent = 1
  MaxGen = 2
  PageSize = 1
  MaxBatches = 1
  Leader = "p1"
  First = {"enable", "sync"}
  Second = {"disable", "delete", "history"}
  MayRun <- Together
  Mishaps = {"suspend", "crash", "failsave", "usagedelete"}
SPECIFICATION Spec
INVARIANTS
  WindowsWellFormed
  AckHonest
  CommandsExclusive
  LeaksNeedInterruption
CHECK_DEADLOCK FALSE
