SPECIFICATION Spec
CONSTANTS
  Boards = {"atari", "gem4xe", "amiga", "mac", "win32", "private"}
  Chars = {"a", "u"}
  Unmapped = {"u"}
  Fallback = "?"
  NoText = NoText
  MaxText = 3
  BUFFER = 2
  MaxMoves = 1
  Targets = {"atari", "dos", "mac", "host"}
  MAX_OPTIONS = 4
  Titles = {0, 5, 60}
  Labels = {0, 9, 40}
  TitleRoom = 40
  LabelRoom = 32
  Cells <- SomeCells
  COLS = 40
INVARIANTS TypeOK NothingHeld TreeIsTheDialog ObjectsApart
PROPERTIES RegistersLast KeepsPromises
