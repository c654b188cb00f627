SPECIFICATION Spec
SYMMETRY MCSymmetry
CONSTANTS
  Texts = {s, t}
  Blank = Blank
  NoId = NoId
  MaxRules = 3
  MaxEdits = 4
  MaxSaves = 2
INVARIANTS TypeOK NothingForgotten SavedIsStored AdoptedIsStored
