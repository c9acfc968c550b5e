CONSTANTS
  Backends = {"postgresql"}
  t1 = t1
  n1 = n1
  Tasks = {t1}
  Names = {n1}
  Payloads = {"r"}
  Null = Null
  Releases <- AllReleases
SPECIFICATION ReadinessSpec
PROPERTY ReadyMeansAtHead
