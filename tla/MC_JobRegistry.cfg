SPECIFICATION Spec
SYMMETRY MCSymmetry
CONSTANTS
  Jobs = {j1, j2}
  s1 = s1
  Scopes = {s1}
  ScopeOf <- MCScope
  Servers = {}
  Mains = {m1}
  Workers = {w1, w2}
  Faults = {"claim", "first", "flush"}
  NoJob = NoJob
INVARIANTS
  RunsOnce
  RivalTold
PROPERTIES
  CancelIsFinal
