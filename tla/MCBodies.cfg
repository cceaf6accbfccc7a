SPECIFICATION Spec
CONSTANTS
  Keys = {k1, k2}
  Targets = {t1, t2}
  None = None
  Unresolved = Unresolved
  Malformed = Malformed
  FlushThreshold = 2
  MaxDispatch = 2
  MaxAttempts = 2
  MaxItems = 2
  MaxMoves = 2
  MaxBulk = 5
  MaxFrame = 2
  MaxLineBytes = 2
  MaxTokens = 9
  MaxNest = 2
  MaxLex = 7
  SimdStep = 3
  MaxDepth = 5
  RecursionLimit = 1
  MaxKey = 2
INVARIANTS AnswersTruthfully InBodyOrder ReadsAsWhole ReaderExact SpliceSound ShapedAsBuffered
