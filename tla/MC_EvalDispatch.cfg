SPECIFICATION Spec
SYMMETRY MCSymmetry
CONSTANTS
  Jobs = {j1}
  Workers = {w1, w2}
  RemoteIds = {r1, r2}
  Nobody = Nobody
  NoJob = NoJob
  NoRemote = NoRemote
INVARIANTS
  NoDoubleSubmit
  NoOrphanRemote
  CancelNotStranded
  SuccessIsReal
PROPERTIES
  TerminalIsFinal
