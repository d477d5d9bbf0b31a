\* One process that may crash: a pause that an interrupted enable makes leak.
CONSTANTS
  Procs = {"p1"}
  None = "none"
  Accounts = {a1}
  NoAccount = NoAccount
  MaxEvent = 1
  MaxGen = 1
  PageSize = 1
  MaxBatches = 1
  Leader = "p1"
  First = {"enable", "disable", "sync"}
  Second = {}
  MayRun <- Together
  Mishaps = {"crash"}
SPECIFICATION Spec
INVARIANTS
  ConsentedOnly
CHECK_DEADLOCK FALSE
