CONSTANTS
  t1 = t1
  t2 = t2
  t3 = t3
  solo = solo
  shared = shared
  Threads = {t2, t3}
  Keys = {solo, shared}
  KeyOf <- KeyOfThread
  NoThread = NoThread
  Burst = 2
  Unit = 2
  Refill = 1
  TicksPerSecond = 1
  OtherBurst = 0
  MaxClock = 3
  MaxCalls = 2
SPECIFICATION Spec
INVARIANT NoOverAdmission
