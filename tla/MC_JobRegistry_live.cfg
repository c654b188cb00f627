SPECIFICATION FairSpec
CONSTANTS
  Jobs = {j1}
  s1 = s1
  Scopes = {s1}
  ScopeOf <- MCScope
  Servers = {p1, p2}
  Mains = {p1}
  Workers = {p2}
  Faults = {"claim", "first", "flush"}
  NoJob = NoJob
PROPERTIES
  CancelReaches
  EndReported
