SPECIFICATION Spec
CONSTANTS
  Programs <- MCPrograms
  UidNames <- MCUidNames
  Within <- MCWithin
  Objects = {1, 2}
  MaxEvents = 2
INVARIANTS
  FieldsComplete
  ChecksMeanWhatTheySay
  RunsWellFormed
CHECK_DEADLOCK FALSE
