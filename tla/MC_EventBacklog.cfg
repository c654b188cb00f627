SPECIFICATION Spec
CONSTANTS
  small = small
  large = large
  Events = {small, large}
  Size <- BySize
  SlotBytes = 1
  MaxMemory = 7
  MaxDisk = 9
  MaxOwed = 2
INVARIANTS BytesCounted NothingUncounted NoMutualWait
PROPERTY FifoSpec
