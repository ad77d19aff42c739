SPECIFICATION AnySpec
CONSTANTS
  MAXOPEN = 2
  Handles = {0, 1, 2}
  Names = {n1, n2}
  Bytes = {a, b}
  MaxSize = 2
  MaxOut = 1
  Offsets <- SomeOffsets
  Plain = {"host", "atari", "amiga", "mac"}
  PlainNames = {m1}
  PlainMaxOut = 2
SYMMETRY DataSymmetry
INVARIANTS AnyTypeOK SlotsHoldHandles
PROPERTIES KeepsPromise
