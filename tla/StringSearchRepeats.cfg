CONSTANTS
  Chars = {"a", "b"}
  Columns <- RepeatColumns
  Patterns <- RepeatPatterns
  Blank = " "
  LineLen = 5
SPECIFICATION Spec
INVARIANT FoundByGrep
CHECK_DEADLOCK FALSE
