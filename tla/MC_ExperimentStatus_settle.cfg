SPECIFICATION Spec
SYMMETRY MCSymmetry
CONSTANTS
  Jobs <- MCFour
  Launched <- MCLaunched
  Experiments <- MCOne
  ExpOf <- MCSame
  Dispatchers = {d1, d2}
  Cancellers = {}
  Retriers = {r1, r2}
  Sweepers = {}
  NoOne = NoOne
  NoJob = NoJob
INVARIANTS
  StatusCurrent
  SecretsDropped
  KeysForWork
