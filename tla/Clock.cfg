SPECIFICATION Spec
CONSTANTS
  Period = 2
  Origin = 5
  Boot = 10
  StartTimes <- MCStartTimes
  Step = 3
  Gaps <- MCGaps
  MaxEvents = 2
  MaxTime = 5
INVARIANTS
  TimesAsGiven
  TimedOnTime
PROPERTIES
  DeadlinesAreMet
CHECK_DEADLOCK FALSE
