CONSTANTS
  Inputs <- MCInputs
  Class <- MCClass
  Symbol = "symbol"
  SampleSize = 3
  Threshold = 60
  Undefined = Undefined
SPECIFICATION Spec
INVARIANTS SplitAgrees KeptExactly FiltersAdmit PrintedRight
PROPERTIES SplitsShrink
CHECK_DEADLOCK FALSE
