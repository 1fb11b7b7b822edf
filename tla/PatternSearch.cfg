CONSTANTS
  Undefined = Undefined
  Absent = Absent
  Rows <- MCRows
  Patterns <- MCPatterns
  Leftovers <- MCLeftovers
  MaxAlts = 3
SPECIFICATION Spec
INVARIANTS NothingLost NothingInvented OverrunsKnown
CHECK_DEADLOCK FALSE
