SPECIFICATION Spec
CONSTANTS
  ALIGN = 2
  HDR = 2
  ARENA_BYTES = 14
  WORD = 64
  Requests = {0, 5, 12}
  HeapAddrs = {2, 18}
  HeapTop = 34
  CounterWidth = 3
  Clients = {c1, c2, c3, c4}
  None = None
SYMMETRY ClientSymmetry
INVARIANTS TypeOK ChainInAddressOrder StorageIntact NothingLost
PROPERTIES ImplementsHeap ArenaOnlyWhenFull
