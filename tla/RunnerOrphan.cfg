CONSTANTS
  r1 = r1
  r2 = r2
  Runs = {r1, r2}
  MaxConcurrent = 1
  Callers = {"shutdown"}
  Detaching = {}
SPECIFICATION Spec
INVARIANT ShutdownReapsChildren
