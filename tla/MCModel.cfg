SPECIFICATION MCSpec
CONSTANTS
  LbaCount = 2
  Ratio = 2
  Unit = 2
  Window = 4
  MaxWindow = 8
  FNumber = 2
  LoadTime = 1
  Never = 63
  GSegs = 7
  GMargin = 1
  GLevels = 2
  GRounds = 2
  GHotMax = 2
  GMaxGap = 1
CHECK_DEADLOCK FALSE
INVARIANTS
  CountsExact
  ModelAlone
  AnswerFits
PROPERTIES
  ModelGoesOn
  SearchIsOver
