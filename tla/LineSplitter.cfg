SPECIFICATION SplitterSpec
CONSTANTS
  Inputs <- MCInputs
  Limit = 3
  Length <- MCLength
INVARIANTS
  WordsKept
  PiecesFit
