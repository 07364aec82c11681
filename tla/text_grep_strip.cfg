SPECIFICATION Spec
CONSTANTS
  Chunk = 2
  None = None
  Alphabet = {"m", "esc"}
  Letters = {"m"}
  MaxLen = 4
  MaxLetters = 4
INVARIANT StripsBeforeMatching
CHECK_DEADLOCK FALSE
