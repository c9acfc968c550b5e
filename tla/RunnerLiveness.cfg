\* Two runs over one slot; a descendant of r1 may hold its pipes for ever.
CONSTANTS
  r1 = r1
  r2 = r2
  Runs = {r1, r2}
  MaxConcurrent = 1
  Callers = {"shutdown", "drain"}
  Detaching = {r1}
SPECIFICATION LoopSpec
PROPERTIES
  EverySubmittedRunEnds
  TimedRunsEnd
  ShutdownReturns
