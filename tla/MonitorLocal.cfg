\* Two instances with local clocks for their evaluation and their end.
SPECIFICATION MSpec
CONSTANTS
  Streams <- LocalStreams
  Params = {a, b}
  Inputs = {"x"}
  Work <- MCWork
  Entry <- MCEntry
  IRs <- MCIRs
  Deadlines <- MCDeadlines
  None = None
  MaxTime = 6
INVARIANTS QueueMatchesInstances NoOrphanTask NothingOverdue
PROPERTIES CallsReturn
