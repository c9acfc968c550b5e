\* Three runs over two slots, a shutdown at any time.
CONSTANTS
  r1 = r1
  r2 = r2
  r3 = r3
  Runs = {r1, r2, r3}
  MaxConcurrent = 2
  Callers = {"shutdown"}
  Detaching = {}
SPECIFICATION Spec
SYMMETRY RunSymmetry
INVARIANTS
  TypeOK
  SlotConservation
  InFlightExact
  NoLostWakeup
  NoOrphanWithoutShutdown
  InterruptedIsCancelled
  ShutdownLeavesNothingLive
  OnlyAFailedSpawnLeavesALiveRow
PROPERTIES
  NoLaunchAfterShutdown
  ExecutingHasTheBudget
  ImplementsLifecycle
