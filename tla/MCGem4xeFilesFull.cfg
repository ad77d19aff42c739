SPECIFICATION Spec
CONSTANTS
  MAXOPEN = 2
  Handles = {0, 1, 2}
  Names = {n1, n2}
  Bytes = {a}
  MaxSize = 2
  MaxOut = 1
  Offsets <- SomeOffsets
PROPERTY FailedOpenKeepsFiles
