SPECIFICATION Spec
CONSTANTS
  Bytes = {65, 143, 144, 160, 193, 194, 224, 237, 240, 244}
  MaxBytes = 4
  Caps = {1, 4}
  Targets = {"amiga"}
  Devices <- SomeDevices
  Slots = {s1, s2}
  s1 = s1
  s2 = s2
  Requests <- SomeRequests
  Samples <- SomeSamples
  Brightness <- SomeColours
  Pixels = {1, 7}
  BUFFER = 4
  NoFont = NoFont
  Painters = {"atari", "amiga", "mac"}
  Depths = {2, 4, 16}
  Images <- SomeImages
  WORD = 4
  COLS = 3
  ROWS = 2
  Paints <- SomePaints
  Columns <- SomeColumns
  Rows <- SomeRows
  Widths = {0, 2}
  Heights = {1, 2}
  MaxCalls = 2
INVARIANTS PixelsSurvive
SYMMETRY SlotSymmetry
CHECK_DEADLOCK FALSE
