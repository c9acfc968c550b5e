---- MODULE RunnerShutdownProofs ----
(*****************************************************************************)
(* What shutdown_drain achieves, for every finite set of runs and every      *)
(* number of slots.  Over says of one run that it was cancelled for good: its*)
(* row is not live, and its task has ended or can only end.  No step of any  *)
(* task undoes that (OverStaysOver), and shutdown makes all of its batch so. *)
(*****************************************************************************)
EXTENDS RunnerProofs

Over(r) ==
  /\ row[r] \notin LiveStatuses
  /\ pc[r] \in {"unwinding", "ended"} \/ cancelReq[r]

BatchOver ==
  "shutdown" \in Callers =>
    /\ \A r \in batch["shutdown"] : Over(r)
    /\ callerPc["shutdown"] = "returned" =>
         \A r \in batch["shutdown"] : pc[r] = "ended"
    /\ callerPc["shutdown"] \in {"idle", "polling"} => batch["shutdown"] = {}

\* A step of run q leaves every run that is over so, and gives it no child.
LEMMA OverStaysOver ==
  ASSUME Inv, NEW r \in Runs, Over(r), NEW q \in Runs,
         Submit(q) \/ TaskStep(q) \/ ProcessStep(q)
  PROVE  /\ Over(r)'
         /\ pc[r] = "ended" => pc'[r] = "ended"
         /\ proc[r] = "none" => proc'[r] = "none"
<1> USE DEF Inv, TypeOK
<1> DEFINE Kept == /\ Over(r)'
                   /\ pc[r] = "ended" => pc'[r] = "ended"
                   /\ proc[r] = "none" => proc'[r] = "none"
<1>1. CASE Submit(q)
  <2>1. r # q
    BY <1>1 DEF Submit, Over, RowsFollow, RowFollows
  <2>2. QED
    BY <1>1, <2>1 DEF Submit, Over
<1>2. CASE StartAtOnce(q) \/ StartGranted(q)
  <2>1. r # q
    BY <1>2 DEF StartAtOnce, StartGranted, Over
  <2>2. PICK slot : RunWithSlot(q, slot)
    BY <1>2 DEF StartAtOnce, StartGranted
  <2>3. /\ pc'[r] = pc[r] /\ row'[r] = row[r] /\ proc'[r] = proc[r]
    BY <2>1, <2>2 DEF RunWithSlot, Launch, FailToLaunch
  <2>4. cancelReq' = cancelReq
    BY <1>2 DEF StartAtOnce, StartGranted
  <2>5. QED
    BY <2>3, <2>4 DEF Over
<1>3. CASE QueueUp(q) \/ CancelCreated(q) \/ CancelAcquiring(q)
  BY <1>3 DEF QueueUp, CancelCreated, CancelAcquiring, Over
<1>4. CASE Spawned(q) \/ Communicated(q) \/ TimerFires(q) \/ Expire(q)
  BY <1>4 DEF Spawned, Communicated, TimerFires, Expire, Over
<1>5. CASE Terminate(q) \/ CancelSpawning(q) \/ CancelTimed(q)
  BY <1>5 DEF Terminate, CancelSpawning, CancelTimed, Killed, Over
<1>6. CASE Settle(q)
  <2>1. (IF proc[q] = "zero" THEN "done" ELSE "failed") \notin LiveStatuses
    BY DEF LiveStatuses
  <2>2. QED
    BY <1>6, <2>1 DEF Settle, Finish, Over
<1>7. CASE TimeOut(q)
  BY <1>7 DEF TimeOut, Finish, Over
<1>8. CASE CancelOutright(q) \/ Unwound(q)
  BY <1>8 DEF CancelOutright, Unwound, Finish, Over
<1>9. CASE ProcessStep(q)
  BY <1>9 DEF ProcessStep, Exit, Die, ClosePipes, Over
<1>10. QED
  BY <1>1, <1>2, <1>3, <1>4, <1>5, <1>6, <1>7, <1>8, <1>9 DEF TaskStep

\* The tasks, the children and the submitter leave the callers alone.
LEMMA CallersUntouched ==
  ASSUME NEW q \in Runs, Submit(q) \/ TaskStep(q) \/ ProcessStep(q)
  PROVE  UNCHANGED callerVars
<1>1. CASE Submit(q) \/ ProcessStep(q)
  BY <1>1 DEF Submit, ProcessStep, Exit, Die, ClosePipes, callerVars
<1>2. CASE TaskStep(q)
  BY <1>2 DEF TaskStep, StartAtOnce, QueueUp, StartGranted, Spawned, Communicated,
       TimerFires, Settle, Expire, Terminate, TimeOut, CancelCreated,
       CancelAcquiring, CancelSpawning, CancelTimed, CancelOutright, Unwound,
       callerVars
<1>3. QED
  BY <1>1, <1>2

LEMMA InitBatchOver == Init => BatchOver
BY DEF Init, BatchOver

\* The batch of shutdown_drain stays over.
LEMMA NextBatchOver == Inv /\ BatchOver /\ [Next]_vars => BatchOver'
<1> SUFFICES ASSUME Inv, BatchOver, [Next]_vars, "shutdown" \in Callers
             PROVE  BatchOver'
  BY DEF BatchOver
<1> DEFINE mine == batch["shutdown"]
<1>1. mine \subseteq Runs
  BY DEF Inv, TypeOK
<1>2. ASSUME NEW q \in Runs, Submit(q) \/ TaskStep(q) \/ ProcessStep(q)
      PROVE  BatchOver'
  <2>1. UNCHANGED <<callerPc, spent, batch>>
    BY <1>2, CallersUntouched DEF callerVars
  <2>2. \A r \in mine : Over(r)' /\ (pc[r] = "ended" => pc'[r] = "ended")
    BY <1>1, <1>2, OverStaysOver DEF BatchOver
  <2>3. QED
    BY <2>1, <2>2 DEF BatchOver
<1>3. ASSUME NEW c \in Callers, CallerStep(c)
      PROVE  BatchOver'
  <2>1. UNCHANGED <<pc, row, cancelReq, batch>>
    BY <1>3 DEF CallerStep, Call, Deadline, Return, taskVars
  <2>2. \A r \in mine : Over(r)'
    BY <2>1 DEF BatchOver, Over
  <2>3. callerPc'["shutdown"] = "returned" => \A r \in mine : pc[r] = "ended"
    BY <1>3 DEF CallerStep, Call, Deadline, Return, BatchOver, Inv, TypeOK
  <2>4. callerPc'["shutdown"] \in {"idle", "polling"} => mine = {}
    BY <1>3 DEF CallerStep, Call, Deadline, Return, BatchOver, Inv, TypeOK
  <2>5. QED
    BY <2>1, <2>2, <2>3, <2>4 DEF BatchOver
<1>4. CASE GatherAll
  <2>1. /\ UNCHANGED <<pc, row, cancelReq>>
        /\ batch'["shutdown"] = mine
        /\ callerPc'["shutdown"] = callerPc["shutdown"]
    BY <1>4 DEF GatherAll, taskVars, Inv, TypeOK
  <2>2. QED
    BY <2>1 DEF BatchOver, Over
<1>5. CASE CancelLeftovers
  <2>1. /\ pc' = pc /\ batch'["shutdown"] = NotDone
        /\ callerPc'["shutdown"] = "gathering"
        /\ cancelReq' = [r \in Runs |-> cancelReq[r] \/ r \in NotDone]
        /\ row' = [r \in Runs |->
             IF row[r] \in LiveStatuses THEN "interrupted" ELSE row[r]]
    BY <1>5 DEF CancelLeftovers, Inv, TypeOK
  <2>2. \A r \in NotDone : r \in Runs
    BY DEF NotDone
  <2>3. \A r \in NotDone : Over(r)'
    BY <2>1, <2>2 DEF Over, LiveStatuses
  <2>4. QED
    BY <2>1, <2>3 DEF BatchOver
<1>6. CASE Idle \/ UNCHANGED vars
  BY <1>6 DEF Idle, vars, BatchOver, Over
<1>7. QED
  BY <1>2, <1>3, <1>4, <1>5, <1>6 DEF Next

\* When shutdown_drain has returned, every task it found unfinished is over and
\* none of their rows is live, for any number of runs (AC-8.1).
THEOREM ShutdownFinishesItsBatch == Spec => []ShutdownLeavesNothingLive
<1>1. BatchOver => ShutdownLeavesNothingLive
  BY DEF BatchOver, Over, ShutdownLeavesNothingLive
<1>2. QED
  BY <1>1, InvInvariant, InitBatchOver, NextBatchOver, PTL DEF Spec

\* A run shutdown_drain has cancelled never gets a child afterwards, whatever
\* slot it had been granted.
THEOREM NothingLaunchedAfterShutdown == Spec => NoLaunchAfterShutdown
<1> DEFINE Quiet == \A r \in Runs :
      "shutdown" \in Callers /\ r \in batch["shutdown"] /\ proc[r] = "none"
        => proc'[r] = "none"
<1>1. Inv /\ BatchOver /\ [Next]_vars => [Quiet]_vars
  <2> SUFFICES ASSUME Inv, BatchOver, Next, NEW r \in Runs, "shutdown" \in Callers,
                      r \in batch["shutdown"], proc[r] = "none"
               PROVE  proc'[r] = "none"
    OBVIOUS
  <2>1. Over(r)
    BY DEF BatchOver
  <2>2. ASSUME NEW q \in Runs, Submit(q) \/ TaskStep(q) \/ ProcessStep(q)
        PROVE  proc'[r] = "none"
    BY <2>1, <2>2, OverStaysOver
  <2>3. CASE (\E c \in Callers : CallerStep(c)) \/ GatherAll \/ CancelLeftovers \/ Idle
    BY <2>3 DEF CallerStep, Call, Deadline, Return, GatherAll, CancelLeftovers,
                Idle, taskVars, vars
  <2>4. QED
    BY <2>2, <2>3 DEF Next
<1>2. QED
  BY <1>1, InvInvariant, InitBatchOver, NextBatchOver, PTL
     DEF Spec, NoLaunchAfterShutdown

\* The row of a run that executes turns "interrupted" in CancelLeftovers only,
\* whose loop ends over an executing run only when the budget is spent.
THEOREM ExecutingRunsHaveTheBudget == Spec => ExecutingHasTheBudget
<1> DEFINE InTime == \A r \in Executing :
      row[r] # "interrupted" /\ row'[r] = "interrupted" => spent["shutdown"]
<1>1. Inv /\ [Next]_vars => [InTime]_vars
  <2> SUFFICES ASSUME Inv, Next, NEW r \in Executing,
                      row[r] # "interrupted", row'[r] = "interrupted"
               PROVE  spent["shutdown"]
    OBVIOUS
  <2>1. r \in Runs
    BY DEF Executing
  <2>2. ASSUME NEW q \in Runs, Submit(q) \/ TaskStep(q) \/ ProcessStep(q)
        PROVE  FALSE
    <3> USE <2>1, <2>2 DEF Inv, TypeOK
    <3>1. CASE Submit(q)
      BY <3>1 DEF Submit
    <3>2. CASE StartAtOnce(q) \/ StartGranted(q)
      <4>1. PICK slot : RunWithSlot(q, slot)
        BY <3>2 DEF StartAtOnce, StartGranted
      <4>2. QED
        BY <4>1 DEF RunWithSlot, Launch, FailToLaunch
    <3>3. CASE QueueUp(q) \/ CancelCreated(q) \/ CancelAcquiring(q)
      BY <3>3 DEF QueueUp, CancelCreated, CancelAcquiring
    <3>4. CASE Spawned(q) \/ Communicated(q) \/ TimerFires(q) \/ Expire(q)
      BY <3>4 DEF Spawned, Communicated, TimerFires, Expire
    <3>5. CASE Terminate(q) \/ CancelSpawning(q) \/ CancelTimed(q)
      BY <3>5 DEF Terminate, CancelSpawning, CancelTimed
    <3>6. CASE Settle(q) \/ TimeOut(q)
      BY <3>6 DEF Settle, TimeOut, Finish
    <3>7. CASE CancelOutright(q) \/ Unwound(q)
      BY <3>7 DEF CancelOutright, Unwound, Finish
    <3>8. CASE ProcessStep(q)
      BY <3>8 DEF ProcessStep, Exit, Die, ClosePipes
    <3>9. QED
      BY <3>1, <3>2, <3>3, <3>4, <3>5, <3>6, <3>7, <3>8 DEF TaskStep
  <2>3. CASE (\E c \in Callers : CallerStep(c)) \/ GatherAll \/ Idle
    BY <2>3 DEF CallerStep, Call, Deadline, Return, GatherAll, Idle, taskVars, vars
  <2>4. CASE CancelLeftovers
    <3>1. inFlight # 0
      BY <2>1, ExecutingFinite, FS_EmptySet DEF Inv, SlotsOwned, InFlightExact
    <3>2. QED
      BY <2>4, <3>1 DEF CancelLeftovers, LoopEnds
  <2>5. QED
    BY <2>2, <2>3, <2>4 DEF Next
<1>2. QED
  BY <1>1, InvInvariant, PTL DEF Spec, ExecutingHasTheBudget
====
