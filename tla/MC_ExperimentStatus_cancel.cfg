SPECIFICATION FairSpec
CONSTANTS
  Jobs <- MCPair
  Launched <- MCLaunched
  Experiments <- MCOne
  ExpOf <- MCSame
  Dispatchers = {d1}
  Cancellers = {c1}
  Retriers = {}
  Sweepers = {w1}
  NoOne = NoOne
  NoJob = NoJob
INVARIANTS
  NeverFalselyFinished
  NoWaitCycle
PROPERTIES
  NotStuckWrong
