SPECIFICATION Spec
CONSTANTS
  ALIGN = 2
  HDR = 2
  ARENA_BYTES = 14
  WORD = 64
  Requests = {5, 60}
  HeapAddrs = {2, 18}
  HeapTop = 34
  CounterWidth = 3
  Clients = {c1, c2}
  None = None
SYMMETRY ClientSymmetry
PROPERTY ArenaServesRequest
