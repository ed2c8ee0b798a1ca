SPECIFICATION Spec
CONSTANTS
  Inputs <- MCInputs
  Exprs <- MCExprs
  Op <- MCOp
  Args <- MCArgs
  LeafReads <- MCLeafReads
  Programs <- MCPrograms
  N = 2
  MaxFreq = 3
  Base = 6
  MaxTick = 7
INVARIANTS
  
  ClausesAreReached
CHECK_DEADLOCK FALSE
