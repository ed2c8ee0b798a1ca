SPECIFICATION Spec
CONSTANTS
  NsTicks = 1
  EvalLayer <- MCEvalLayer
  StartLayer <- MCStartLayer
  UsizeMax = 9
  MaxSteps = 30
  Periods <- P1
  IRs <- MCIRs
INVARIANTS
  FiresAtMultiples
  TilesHyperPeriod
  DeadlinesInLayerOrder
CHECK_DEADLOCK FALSE
