\* The replay worker between queues of length one with a reader that stays,
\* and the live worker with unbounded queues and a reader that may go away.
SPECIFICATION Spec
CONSTANTS
  Setups <- MCSetups
  MaxEvents = 3
  MaxLaunches = 2
  MaxTimed = 1
CHECK_DEADLOCK FALSE
INVARIANTS EventsInOrder VerdictsInSequence LaunchProtocol OkMeansAllProcessed WorkerErrorSurfaces
PROPERTIES CallsReturn EverythingEnds
