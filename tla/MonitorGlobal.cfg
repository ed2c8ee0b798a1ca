\* The global schedule activates and ends instances that have local clocks.
SPECIFICATION MSpec
CONSTANTS
  Streams <- GlobalStreams
  Params = {a}
  Inputs = {"x", "y"}
  Work <- MCWork
  Entry <- MCEntry
  IRs <- MCIRs
  Deadlines <- MCDeadlines
  None = None
  MaxTime = 6
INVARIANTS ReportedIsLive LocalClockFromActivation VerdictContinues
PROPERTIES VerdictsInOrder
