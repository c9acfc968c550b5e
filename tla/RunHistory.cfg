CONSTANTS
  r1 = r1
  r2 = r2
  r3 = r3
  p1 = p1
  p2 = p2
  Runs = {r1, r2, r3}
  Procs = {p1, p2}
  Host <- RunHosts
SPECIFICATION FairSpec
INVARIANTS
  TypeOK
  AnsweredRunIsStored
  NoUnrecordedExecution
  IdleLockIsFailedCommit
PROPERTIES
  HistoryMovesForward
  NoUpsertHangs
