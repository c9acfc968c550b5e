CONSTANTS
  t1 = t1
  t2 = t2
  t3 = t3
  solo = solo
  shared = shared
  Threads = {t1, t2, t3}
  Keys = {solo, shared}
  KeyOf <- KeyOfThread
  NoThread = NoThread
  Burst = 4
  Unit = 4
  Refill = 3
  TicksPerSecond = 1
  OtherBurst = 0
  MaxClock = 3
  MaxCalls = 2
SPECIFICATION Spec
SYMMETRY ThreadSymmetry
INVARIANTS
  TypeOK
  RejectionsCoverAnswers
  NoOverAdmissionAlone
PROPERTIES
  RetryAfterHonest
  SelectFindsColumn
  UpgradedOnce
  ImplementsTokenBucket
