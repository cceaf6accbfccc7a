SPECIFICATION BulkTextSpec
CONSTANTS
  MaxBulk = 5
  MaxFrame = 2
  MaxLineBytes = 2
INVARIANT LastLineRead
CHECK_DEADLOCK FALSE
