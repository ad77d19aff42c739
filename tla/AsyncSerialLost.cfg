SPECIFICATION Spec
CONSTANTS
  Targets = {"amiga", "mac"}
  RBUF = 2
  MaxBytes = 2
  MaxCap = 2
  MaxLen = 1
PROPERTY TimeoutTookNothing
