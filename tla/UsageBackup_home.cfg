\* One command at a time, two accounts the user signs in to in turn, two events
\* and pages of one, snapshots that also hold a record of another home.
CONSTANTS
  Procs = {"p1"}
  None = "none"
  Accounts = {a1, a2}
  NoAccount = NoAccount
  MaxEvent = 2
  MaxGen = 1
  PageSize = 1
  MaxBatches = 1
  Leader = "p1"
  First = {"enable", "sync", "restore"}
  Second = {}
  MayRun <- Together
  Mishaps = {"signin", "otherhome"}
SPECIFICATION Spec
SYMMETRY Symmetry
INVARIANTS
  CursorNeverSkips
  SelectionsAreOwn
  IdentitiesUnique
PROPERTIES
  BacksUp
CHECK_DEADLOCK FALSE
