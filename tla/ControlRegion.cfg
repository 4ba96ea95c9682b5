SPECIFICATION FairSpec
CONSTANTS
  N = 3
  src = src
  rest = rest
  Ops <- MCOps
  Others <- MCOthers
  Start <- MCStart
  Graphs <- MCGraphs
INVARIANTS OutputsRelyOnInputs NoDeadlockAdded
PROPERTIES Terminates
CHECK_DEADLOCK FALSE
