CONSTANTS
  Inputs <- MCInputs
  Delims <- MCDelims
  Tab <- MCTab
  Marks <- MCMarks
  Var = Var
  Threshold = 50
  NVars = 2
SPECIFICATION Spec
INVARIANTS LinesKept CutTheSame SampledFits
CHECK_DEADLOCK FALSE
