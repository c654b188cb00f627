SPECIFICATION Spec
CONSTANTS
  e = e
  f = f
  g = g
  a = a
  b = b
  x = x
  Envs = {e, f, g}
  Slots = {a, b, x}
  Knows <- MCKnows
  Confirms <- MCConfirms
  Official = {e, f}
  Binds <- MCBinds
  Sets <- MCSets
  NoEnv = NoEnv
  MaxActs = 5
  MaxKeys = 1
INVARIANTS TypeOK KeysKept EditsKept BaseOfSelection BaseAndEdits
CHECK_DEADLOCK FALSE
