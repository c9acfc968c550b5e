CONSTANTS
  Backends = {"sqlite"}
  t1 = t1
  t2 = t2
  n1 = n1
  n2 = n2
  Tasks = {t1, t2}
  Names = {n1, n2}
  Payloads = {"r"}
  Null = Null
SPECIFICATION Spec
PROPERTY EveryResultHasItsRow
