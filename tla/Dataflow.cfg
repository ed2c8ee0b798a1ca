SPECIFICATION FlowSpec
CONSTANTS
  Signals <- MCSignals
  Constraints <- MCConstraints
  Order <- MCOrder
  Specs <- MCSpecs
  MaxCycles <- MCMaxCycles
INVARIANTS EvalAfterTargets StartAfterTargets ReadsAreFinal ShiftsReadThePast StartedIsEvaluated
PROPERTY LayersEnd
CHECK_DEADLOCK FALSE
