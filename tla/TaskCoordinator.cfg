SPECIFICATION Spec
CONSTANTS
  Work <- MCWork
  Entry <- MCEntry
  IRs <- MCIRs
  Deadlines <- MCDeadlines
  TableTasks <- MCTableTasks
  Ahead <- MCAhead
  None = None
  MaxTime = 8
INVARIANTS
  TypeOK
  NothingPassedOver
  DueWithinPeriod
PROPERTIES
  BatchesInOrder
  ImplementsPeriodicTasks
CHECK_DEADLOCK FALSE
