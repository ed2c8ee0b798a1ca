SPECIFICATION Spec
CONSTANTS
  Programs <- UidPrograms
  UidNames <- MCUidNames
  Within <- MCWithin
  Objects = {1, 2}
  MaxEvents = 2
INVARIANT ObjectRetained
CHECK_DEADLOCK FALSE
