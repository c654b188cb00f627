SPECIFICATION Spec
CONSTANTS
  N = 4
  a = a
  b = b
  NoItem = NoItem
  Item <- SomeItems
  Bad = {3, 4}
  GiveUp = 2
  SyncTries = 2
  MaxFaults = 2
CHECK_DEADLOCK FALSE
INVARIANTS CompletedIsWhole AppliedInOrder EndStands
PROPERTY EndArrives
