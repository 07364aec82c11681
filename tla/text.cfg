SPECIFICATION Spec
CONSTANTS
  Chunk = 2
  None = None
  Alphabet = {"m", "[", "]", "bsl", "nl", "esc", "bel"}
  Letters = {"m", "nl"}
  MaxLen = 5
  MaxLetters = 8
INVARIANTS
  ReadsMatchLines
  EnvelopesMeet
  WaitFindsFirstMatch
  GrepShowsItsHits
  StripsSequences
CHECK_DEADLOCK FALSE
