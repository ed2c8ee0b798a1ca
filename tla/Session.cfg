\* A session over up to three records, replayed or live.
SPECIFICATION SSpec
CONSTANTS
  Setups <- SessionSetups
  MaxEvents = 3
  MaxLaunches = 1
  MaxTimed = 1
CHECK_DEADLOCK FALSE
INVARIANTS OkIsComplete OutputHasNoGap
PROPERTY RunReturns
