SPECIFICATION Spec
CONSTANTS
  Items = {a}
  Probes = {p}
  MaxRev = 2
  MaxInFlight = 1
  MaxBatch = 1
  Nothing = Nothing
PROPERTIES MovedIsAskedAgain
