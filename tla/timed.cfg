SPECIFICATION Spec
CONSTANTS
  Chunk = 2
  None = None
  Text = {"m", "nl"}
  MaxChunk = 2
  FileSizes = {0, 7}
  Modes = {TRUE, FALSE}
  MaxBytes = 5
  MaxTime = 2
  MaxRestarts = 1
INVARIANTS
  TypeOK
  WindowHoldsWhatWasSaid
  WindowsAgree
  BytesKeepTrailingLines
  OnlyFirstLineBare
CHECK_DEADLOCK FALSE
