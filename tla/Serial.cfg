SPECIFICATION Spec
CONSTANTS
  Polling = {"atari", "dos", "host", "gem4xe"}
  Racing = {"amiga", "mac"}
  Nodes = 2
  RBUF = 2
  MaxBytes = 4
  MaxCap = 2
  MaxLen = 2
INVARIANTS TypeOK BufferReleased DrainNeverWaits NothingLeaks
PROPERTIES KeepsContract CallReturns
