CONSTANTS
  NoOne = NoOne
  w1 = w1
  w2 = w2
  m = m
  MainThread = m
  NFiles = 5
  MaxThreads = 2
  Threads <- MCThreads
SPECIFICATION Spec
INVARIANTS TypeOK OnlyOnce ErrorsCounted SummaryComplete
PROPERTIES Terminates
CHECK_DEADLOCK FALSE
