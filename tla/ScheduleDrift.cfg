SPECIFICATION Spec
CONSTANTS
  NsTicks = 3
  EvalLayer <- MCEvalLayer
  StartLayer <- MCStartLayer
  UsizeMax = 9
  MaxSteps = 30
  Periods <- PThirds
  IRs <- MCIRs
INVARIANT TilesHyperPeriod
CHECK_DEADLOCK FALSE
