CONSTANTS
  Chars = {"a", "b"}
  Columns <- MCColumns
  Patterns <- MCPatterns
  Blank = " "
  LineLen = 5
SPECIFICATION Spec
INVARIANTS NothingMissed NothingInvented PushdownIsScan
CHECK_DEADLOCK FALSE
