SPECIFICATION Spec
SYMMETRY MCSymmetry
CONSTANTS
  Items = {a, b}
  Probes = {p, q}
  MaxRev = 2
  MaxInFlight = 1
  MaxBatch = 1
  Nothing = Nothing
INVARIANTS EndIsShown TickNotLost RequestedOnce NobodyForgotten
