CONSTANTS
  NVars = 2
  Unmatched <- MCUnmatched
  MaxCompress = 3
  Sizes = {2}
  MaxFailures = 2
  Undefined = Undefined
SPECIFICATION Spec
INVARIANTS Shifted LoadedIsStored OutliersKept 
CHECK_DEADLOCK FALSE
