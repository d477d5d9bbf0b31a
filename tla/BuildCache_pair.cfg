\* Two builds, each hatching, checking or building a project, under two
\* compilers; either may be killed.  The system stops when both are over.
CONSTANTS
  b1 = b1
  b2 = b2
  a1 = a1
  a2 = a2
  old = old
  new = new
  dev = dev
  Nobody = Nobody
  Builds = {b1, b2}
  Agents = {a1, a2}
  Keys = {old, new, dev}
  Parent <- Compiler
  Menu <- Few
  Mortal = {b1}
  Warm <- Before
SPECIFICATION FairSpec
INVARIANTS
  
  ReadyIsWhole
  FailuresExplained
  EndsClean
PROPERTIES
  RunsEnd
CHECK_DEADLOCK FALSE
