---- MODULE RunnerRefinementProofs ----
(*****************************************************************************)
(* Module Runner implements module RunLifecycle, for every finite set of     *)
(* runs and every number of slots: each step of a task, a child or a waiting *)
(* coroutine is one step of the lifecycle, or changes neither a row nor the  *)
(* set of executing runs.  The invariant of RunnerProofs is all it needs.    *)
(*****************************************************************************)
EXTENDS RunnerProofs

Abstract == <<row, Executing>>

LEMMA InitRefines == Init => Lifecycle!Init
BY DEF Init, Lifecycle!Init, Executing, ExecutingPc

\* RunLifecycle counts as this module does.
LEMMA SameCardinality == \A S : Lifecycle!Cardinality(S) = Cardinality(S)
BY DEF Lifecycle!Cardinality, Cardinality

\* Whoever takes a slot finds fewer than MaxConcurrent runs executing.
LEMMA SlotMeansRoom ==
  ASSUME Inv, Unused(sema) > 0
  PROVE  Lifecycle!Cardinality(Executing) < MaxConcurrent
BY SameCardinality, RunsAssumption, UnusedType, ExecutingFinite DEF Inv, SlotsOwned, TypeOK

\* Taking a slot is Start, or Refuse when no child can be started.
LEMMA RunWithSlotRefines ==
  ASSUME Inv, NEW r \in Runs, NEW slot, pc[r] \in {"created", "acquiring"},
         ~cancelReq[r], Unused(sema) > 0, RunWithSlot(r, slot)
  PROVE  Lifecycle!Next
<1>1. row[r] = "pending" /\ pc[r] \notin ExecutingPc
  BY DEF Inv, RowsFollow, RowFollows, ExecutingPc
<1>2. Lifecycle!Cardinality(Executing) < MaxConcurrent
  BY SlotMeansRoom
<1>3. CASE Launch(r, slot)
  <2>1. Executing' = Executing \cup {r}
    BY <1>3 DEF Launch, Inv, TypeOK, Executing, ExecutingPc
  <2>2. Lifecycle!Start(r)
    BY <1>1, <1>2, <1>3, <2>1 DEF Launch, Lifecycle!Start
  <2>3. QED
    BY <2>2 DEF Lifecycle!Next
<1>4. CASE FailToLaunch(r, slot)
  <2>1. "ended" \notin ExecutingPc
    BY DEF ExecutingPc
  <2>2. Executing' = Executing
    BY <1>1, <1>4, <2>1, NotExecuting DEF FailToLaunch, Inv
  <2>3. Lifecycle!Refuse(r)
    BY <1>1, <1>2, <1>4, <2>2 DEF FailToLaunch, Lifecycle!Refuse
  <2>4. QED
    BY <2>3 DEF Lifecycle!Next
<1>5. QED
  BY <1>1, <1>3, <1>4 DEF RunWithSlot

\* The end of an executing task is Settle, or Stop when it was interrupted.
LEMMA FinishRefines ==
  ASSUME Inv, NEW r \in Runs, NEW status, pc[r] \in ExecutingPc,
         Finish(r, status),
         \/ row[r] = "running" /\ status \in {"done", "failed", "timeout"}
         \/ row[r] = "interrupted" /\ status \in {"interrupted", "done", "failed"}
  PROVE  Lifecycle!Next
<1>1. Executing' = Executing \ {r} /\ r \in Executing
  BY DEF Finish, Inv, TypeOK, Executing, ExecutingPc
<1>2. CASE row[r] = "running" /\ status \in {"done", "failed", "timeout"}
  <2>1. Lifecycle!Settle(r)
    BY <1>1, <1>2 DEF Finish, Lifecycle!Settle
  <2>2. QED
    BY <2>1 DEF Lifecycle!Next
<1>3. CASE row[r] = "interrupted" /\ status \in {"interrupted", "done", "failed"}
  <2>1. Lifecycle!Stop(r)
    BY <1>1, <1>3 DEF Finish, Lifecycle!Stop
  <2>2. QED
    BY <2>1 DEF Lifecycle!Next
<1>4. QED
  BY <1>2, <1>3

\* What the event loop runs for a task.
LEMMA TaskStepRefines ==
  ASSUME Inv, NEW r \in Runs, TaskStep(r)
  PROVE  Lifecycle!Next \/ UNCHANGED Abstract
<1> USE DEF Inv
<1>1. CASE StartAtOnce(r)
  <2>1. Unused(sema) > 0
    <3>1. sema.value \in Nat /\ Cardinality(Granted(sema)) \in Nat
      BY RunsAssumption, UnusedType DEF TypeOK, Semaphores
    <3>2. sema.value # 0
      BY <1>1 DEF StartAtOnce, Locked
    <3>3. QED
      BY <3>1, <3>2 DEF Unused
  <2>2. QED
    BY <1>1, <2>1, RunWithSlotRefines DEF StartAtOnce
<1>2. CASE StartGranted(r)
  <2>1. Unused(sema) > 0
    <3>1. r \in Granted(sema)
      BY <1>2 DEF StartGranted, Granted, TypeOK, Semaphores
    <3>2. /\ sema.value \in Nat /\ IsFiniteSet(Granted(sema))
          /\ Cardinality(Granted(sema)) \in Nat
      BY RunsAssumption, UnusedType DEF TypeOK, Semaphores
    <3>3. Cardinality(Granted(sema)) # 0
      BY <3>1, <3>2, FS_EmptySet
    <3>4. QED
      BY <3>2, <3>3 DEF Unused
  <2>2. QED
    BY <1>2, <2>1, RunWithSlotRefines DEF StartGranted
<1>3. CASE QueueUp(r) \/ CancelCreated(r) \/ CancelAcquiring(r)
  <2>1. row' = row
    BY <1>3 DEF QueueUp, CancelCreated, CancelAcquiring
  <2>2. Executing' = Executing
    BY <1>3 DEF QueueUp, CancelCreated, CancelAcquiring, TypeOK, Executing, ExecutingPc
  <2>3. QED
    BY <2>1, <2>2 DEF Abstract
<1>4. CASE MovesOn(r)
  <2>1. row' = row
    BY <1>4 DEF MovesOn, Spawned, Communicated, TimerFires, Expire, Terminate,
                CancelSpawning, CancelTimed
  <2>2. Executing' = Executing
    BY <1>4 DEF MovesOn, Spawned, Communicated, TimerFires, Expire, Terminate,
                CancelSpawning, CancelTimed, TypeOK, Executing, ExecutingPc
  <2>3. QED
    BY <2>1, <2>2 DEF Abstract
<1>5. CASE Settle(r)
  <2>1. pc[r] \in ExecutingPc /\ row[r] \in {"running", "interrupted"}
    BY <1>5 DEF Settle, RowsFollow, RowFollows, ExecutingPc
  <2>2. (IF proc[r] = "zero" THEN "done" ELSE "failed") \in {"done", "failed"}
    OBVIOUS
  <2>3. QED
    BY <1>5, <2>1, <2>2, FinishRefines DEF Settle
<1>6. CASE TimeOut(r)
  <2>1. pc[r] \in ExecutingPc /\ row[r] = "running"
    BY <1>6 DEF TimeOut, RowsFollow, RowFollows, ExecutingPc
  <2>2. QED
    BY <1>6, <2>1, FinishRefines DEF TimeOut
<1>7. CASE CancelOutright(r)
  <2>1. pc[r] \in ExecutingPc /\ row[r] = "interrupted"
    BY <1>7 DEF CancelOutright, RowsFollow, RowFollows, ExecutingPc
  <2>2. QED
    BY <1>7, <2>1, FinishRefines DEF CancelOutright
<1>8. CASE Unwound(r)
  <2>1. pc[r] \in ExecutingPc /\ row[r] = "interrupted"
    BY <1>8 DEF Unwound, RowsFollow, RowFollows, ExecutingPc
  <2>2. QED
    BY <1>8, <2>1, FinishRefines DEF Unwound
<1>9. QED
  BY <1>1, <1>2, <1>3, <1>4, <1>5, <1>6, <1>7, <1>8 DEF TaskStep, MovesOn

\* Every step of the runner is a step of the lifecycle, or none.
LEMMA NextRefines ==
  ASSUME Inv, [Next]_vars
  PROVE  Lifecycle!Next \/ UNCHANGED Abstract
<1>1. ASSUME NEW r \in Runs, Submit(r)
      PROVE  Lifecycle!Next \/ UNCHANGED Abstract
  <2>1. row[r] = "absent"
    BY <1>1 DEF Submit, Inv, RowsFollow, RowFollows
  <2>2. Executing' = Executing
    BY <1>1 DEF Submit, Inv, TypeOK, Executing, ExecutingPc
  <2>3. Lifecycle!Submit(r)
    BY <1>1, <2>1, <2>2 DEF Submit, Lifecycle!Submit
  <2>4. QED
    BY <2>3 DEF Lifecycle!Next
<1>2. ASSUME NEW r \in Runs, TaskStep(r)
      PROVE  Lifecycle!Next \/ UNCHANGED Abstract
  BY <1>2, TaskStepRefines
<1>3. ASSUME NEW r \in Runs, ProcessStep(r)
      PROVE  UNCHANGED Abstract
  BY <1>3 DEF ProcessStep, Exit, Die, ClosePipes, Abstract, Executing
<1>4. CASE (\E c \in Callers : CallerStep(c)) \/ GatherAll \/ Idle \/ UNCHANGED vars
  <2>1. UNCHANGED <<pc, row>>
    BY <1>4 DEF CallerStep, Call, Deadline, Return, GatherAll, Idle, vars, taskVars
  <2>2. QED
    BY <2>1 DEF Abstract, Executing
<1>5. CASE CancelLeftovers
  <2>1. Executing' = Executing
    BY <1>5 DEF CancelLeftovers, Executing
  <2>2. Lifecycle!Interrupt
    BY <1>5, <2>1 DEF CancelLeftovers, Lifecycle!Interrupt, LiveStatuses
  <2>3. QED
    BY <2>2 DEF Lifecycle!Next
<1>6. QED
  BY <1>1, <1>2, <1>3, <1>4, <1>5 DEF Next

\* The runner implements the abstract lifecycle: at most MaxConcurrent runs
\* execute, only a pending run starts, and a run settles once.
THEOREM RunnerImplementsLifecycle == Spec => ImplementsLifecycle
<1>1. Inv /\ [Next]_vars => [Lifecycle!Next]_(Lifecycle!vars)
  BY NextRefines DEF Abstract, Lifecycle!vars
<1>2. QED
  BY <1>1, InitRefines, InvInvariant, PTL DEF Spec, ImplementsLifecycle, Lifecycle!Spec
====
