SPECIFICATION Spec
CONSTANTS
  ALIGN = 2
  HDR = 2
  ARENA_BYTES = 14
  Requests = {0, 5, 12}
  HeapAddrs = {2, 18}
  HeapTop = 34
  CounterWidth = 3
INVARIANTS TypeOK ArenasTiled LiveBlocksUsed LiveDisjoint NoScraps
PROPERTIES ImplementsAllocator LiveCountTracks
