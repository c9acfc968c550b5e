---- MODULE RunnerProofs ----
(*****************************************************************************)
(* Theorems about module Runner, for every finite set of runs, every number  *)
(* of slots and every choice of callers and detaching commands.              *)
(*                                                                           *)
(* The inductive invariant has three parts.  TypeOK types the state.         *)
(* SlotsOwned ties the semaphore to the tasks: its deque holds exactly the   *)
(* queued tasks, and free slots, granted slots and executing tasks add up to *)
(* the cap.  RowsFollow ties each row and each child to where its task is.   *)
(*****************************************************************************)
EXTENDS Runner, AsyncSemaphoreProofs

Acquiring == {r \in Runs : pc[r] = "acquiring"}

SlotsOwned ==
  /\ QueueMatches(sema)
  /\ Waiters(sema) = Acquiring
  /\ InFlightExact
  /\ Unused(sema) + Cardinality(Executing) = MaxConcurrent
  /\ Attentive(sema)

RowFollows(r) ==
  /\ pc[r] = "absent" => row[r] = "absent" /\ proc[r] = "none"
  /\ pc[r] \in {"created", "acquiring"} =>
       row[r] \in {"pending", "interrupted"} /\ proc[r] = "none"
  /\ pc[r] \in ExecutingPc => row[r] \in {"running", "interrupted"} /\ proc[r] # "none"
  /\ pc[r] = "collected" => proc[r] \in Exited
  /\ pc[r] = "unwinding" \/ cancelReq[r] => row[r] = "interrupted"
  /\ cancelReq[r] => pc[r] # "absent"
  /\ row[r] = "interrupted" => cancelReq[r] \/ pc[r] \in {"unwinding", "ended"}
  /\ pc[r] = "ended" /\ row[r] # "interrupted" => proc[r] \in Exited \cup {"none"}
  /\ pc[r] = "ended" /\ row[r] \in LiveStatuses => row[r] = "running" /\ proc[r] = "none"

RowsFollow == \A r \in Runs : RowFollows(r)

Inv == TypeOK /\ SlotsOwned /\ RowsFollow

-----------------------------------------------------------------------------
(* How the set of executing runs and its size change with one pc. *)

\* The runs that execute are finitely many.
LEMMA ExecutingFinite ==
  /\ IsFiniteSet(Executing) /\ Cardinality(Executing) \in Nat
<1>1. Executing \in SUBSET Runs
  BY DEF Executing
<1>2. QED
  BY <1>1, RunsAssumption, FS_Subset, FS_CardinalityType

\* A task that moves from one await of its execution to another still counts.
LEMMA StillExecuting ==
  ASSUME TypeOK, NEW r \in Runs, NEW p, pc' = [pc EXCEPT ![r] = p],
         pc[r] \in ExecutingPc, p \in ExecutingPc
  PROVE  Executing' = Executing /\ Acquiring' = Acquiring
BY DEF TypeOK, Executing, Acquiring, ExecutingPc

\* A task that starts to execute adds one.
LEMMA BeginsExecuting ==
  ASSUME TypeOK, NEW r \in Runs, NEW p, pc' = [pc EXCEPT ![r] = p],
         pc[r] \notin ExecutingPc, p \in ExecutingPc
  PROVE  /\ Cardinality(Executing') = Cardinality(Executing) + 1
         /\ Acquiring' = Acquiring \ {r}
<1>1. Executing' = Executing \cup {r} /\ r \notin Executing
  BY DEF TypeOK, Executing
<1>2. Acquiring' = Acquiring \ {r}
  BY DEF TypeOK, Acquiring, ExecutingPc
<1>3. QED
  BY <1>1, <1>2, ExecutingFinite, FS_AddElement

\* A task that ends takes one away.
LEMMA StopsExecuting ==
  ASSUME TypeOK, NEW r \in Runs, pc' = [pc EXCEPT ![r] = "ended"],
         pc[r] \in ExecutingPc
  PROVE  /\ Cardinality(Executing) \in Nat \ {0}
         /\ Cardinality(Executing') = Cardinality(Executing) - 1
         /\ Acquiring' = Acquiring
<1>1. Executing' = Executing \ {r} /\ r \in Executing
  BY DEF TypeOK, Executing, ExecutingPc
<1>2. Acquiring' = Acquiring
  BY DEF TypeOK, Acquiring, ExecutingPc
<1>3. Cardinality(Executing) # 0
  BY <1>1, ExecutingFinite, FS_EmptySet
<1>4. QED
  BY <1>1, <1>2, <1>3, ExecutingFinite, FS_RemoveElement

\* A task that does not execute and does not start to leaves the count alone.
LEMMA NotExecuting ==
  ASSUME TypeOK, NEW r \in Runs, NEW p, pc' = [pc EXCEPT ![r] = p],
         pc[r] \notin ExecutingPc, p \notin ExecutingPc
  PROVE  /\ Executing' = Executing
         /\ Acquiring' = IF p = "acquiring" THEN Acquiring \cup {r} ELSE Acquiring \ {r}
BY DEF TypeOK, Executing, Acquiring

-----------------------------------------------------------------------------
(* The two kinds of step that hand slots on. *)

\* A task that ends gives its slot back and leaves the count.
LEMMA FinishKeepsSlots ==
  ASSUME TypeOK, SlotsOwned, NEW r \in Runs, NEW status,
         pc[r] \in ExecutingPc, Finish(r, status)
  PROVE  SlotsOwned' /\ sema' \in Semaphores(Runs) /\ inFlight' \in Nat
<1>1. /\ Cardinality(Executing) \in Nat \ {0}
      /\ Cardinality(Executing') = Cardinality(Executing) - 1
      /\ Acquiring' = Acquiring
  BY StopsExecuting DEF Finish
<1>2. Sound(sema, Runs)
  BY DEF Sound, TypeOK, SlotsOwned
<1>3. /\ Sound(sema', Runs)
      /\ Waiters(sema') = Waiters(sema)
      /\ Unused(sema') = Unused(sema) + 1
      /\ Attentive(sema')
  BY <1>2, RunsAssumption, ReleaseFacts DEF Finish
<1>4. Unused(sema) \in Nat
  BY RunsAssumption, UnusedType DEF TypeOK
<1>5. inFlight' = inFlight - 1 /\ inFlight = Cardinality(Executing)
  BY DEF Finish, SlotsOwned, InFlightExact
<1>6. QED
  BY <1>1, <1>3, <1>4, <1>5 DEF SlotsOwned, Sound, InFlightExact

\* A task that takes a slot starts to execute, or gives the slot back at once.
LEMMA RunWithSlotKeepsSlots ==
  ASSUME TypeOK, SlotsOwned, NEW r \in Runs, NEW slot,
         pc[r] \notin ExecutingPc, RunWithSlot(r, slot),
         Sound(slot, Runs), Waiters(slot) = Acquiring \ {r},
         Unused(slot) = Unused(sema) - 1, Attentive(slot)
  PROVE  SlotsOwned' /\ sema' \in Semaphores(Runs) /\ inFlight' \in Nat
<1>1. Unused(sema) \in Nat /\ Cardinality(Executing) \in Nat /\ inFlight \in Nat
  BY RunsAssumption, UnusedType, ExecutingFinite DEF TypeOK
<1>2. ASSUME pc' = [pc EXCEPT ![r] = "ended"], sema' = Release(slot),
             inFlight' = inFlight
      PROVE  SlotsOwned' /\ sema' \in Semaphores(Runs) /\ inFlight' \in Nat
  <2>1. Executing' = Executing /\ Acquiring' = Acquiring \ {r}
    <3>1. "ended" \notin ExecutingPc /\ "ended" # "acquiring"
      BY DEF ExecutingPc
    <3>2. QED
      BY <1>2, <3>1, NotExecuting
  <2>2. /\ Sound(sema', Runs) /\ Waiters(sema') = Acquiring \ {r}
        /\ Unused(sema') = Unused(sema) - 1 + 1 /\ Attentive(sema')
    BY <1>2, RunsAssumption, ReleaseFacts
  <2>3. QED
    BY <1>1, <1>2, <2>1, <2>2 DEF SlotsOwned, Sound, InFlightExact
<1>3. CASE row[r] = "interrupted"
  BY <1>2, <1>3 DEF RunWithSlot
<1>4. CASE row[r] # "interrupted" /\ FailToLaunch(r, slot)
  BY <1>2, <1>4 DEF FailToLaunch
<1>5. CASE row[r] # "interrupted" /\ Launch(r, slot)
  <2>1. /\ pc' = [pc EXCEPT ![r] = "spawning"]
        /\ sema' = slot /\ inFlight' = inFlight + 1
    BY <1>5 DEF Launch
  <2>2. /\ Cardinality(Executing') = Cardinality(Executing) + 1
        /\ Acquiring' = Acquiring \ {r}
    BY <2>1, BeginsExecuting DEF ExecutingPc
  <2>3. QED
    BY <1>1, <2>1, <2>2 DEF SlotsOwned, Sound, InFlightExact
<1>6. QED
  BY <1>3, <1>4, <1>5 DEF RunWithSlot

\* A task that takes a slot keeps every row where its task is.
LEMMA RunWithSlotKeepsRows ==
  ASSUME TypeOK, RowsFollow, NEW r \in Runs, NEW slot,
         pc[r] \in {"created", "acquiring"}, ~cancelReq[r],
         RunWithSlot(r, slot), UNCHANGED cancelReq
  PROVE  /\ RowsFollow'
         /\ pc' \in [Runs -> PcState] /\ row' \in [Runs -> Status]
         /\ proc' \in [Runs -> ProcState] /\ pipesOpen' \in [Runs -> BOOLEAN]
<1>1. row[r] = "pending" /\ proc[r] = "none"
  BY DEF RowsFollow, RowFollows
<1>2. CASE Launch(r, slot)
  <2>1. RowsFollow'
    BY <1>1, <1>2 DEF RowsFollow, RowFollows, Launch, TypeOK, ExecutingPc
  <2>2. QED
    BY <1>2, <2>1 DEF Launch, TypeOK, PcState, ExecutingPc, Status, LiveStatuses, ProcState
<1>3. CASE FailToLaunch(r, slot)
  <2>1. PICK status \in {"failed", "running"} : row' = [row EXCEPT ![r] = status]
    BY <1>3 DEF FailToLaunch
  <2>2. RowsFollow'
    BY <1>1, <1>3, <2>1 DEF RowsFollow, RowFollows, FailToLaunch, TypeOK, ExecutingPc, LiveStatuses
  <2>3. QED
    BY <1>3, <2>1, <2>2 DEF FailToLaunch, TypeOK, PcState, ExecutingPc, Status, LiveStatuses
<1>4. QED
  BY <1>1, <1>2, <1>3 DEF RunWithSlot

-----------------------------------------------------------------------------
(* Init and each action. *)

\* Nobody runs, nobody waits, every slot is free.
LEMMA InitInv == Init => Inv
<1> SUFFICES ASSUME Init PROVE Inv
  OBVIOUS
<1>1. /\ Sound(sema, Runs) /\ Waiters(sema) = {}
      /\ Unused(sema) = MaxConcurrent /\ Attentive(sema)
  BY RunsAssumption, MaxConcurrentAssumption, NewSemaphoreFacts DEF Init
<1>2. Executing = {} /\ Acquiring = {}
  BY DEF Init, Executing, Acquiring, ExecutingPc
<1>3. TypeOK
  BY <1>1 DEF Init, TypeOK, Sound, PcState, Status, ProcState
<1>4. SlotsOwned
  BY <1>1, <1>2, MaxConcurrentAssumption, FS_EmptySet
     DEF SlotsOwned, Sound, Init, InFlightExact
<1>5. RowsFollow
  BY DEF Init, RowsFollow, RowFollows, ExecutingPc
<1>6. QED
  BY <1>3, <1>4, <1>5 DEF Inv

\* The slots stay owned when neither they nor the tasks' places change.
LEMMA SlotsUntouched ==
  ASSUME SlotsOwned, UNCHANGED <<sema, inFlight>>,
         Executing' = Executing, Acquiring' = Acquiring
  PROVE  SlotsOwned'
BY DEF SlotsOwned, QueueMatches, Waiters, InFlightExact, Unused, Attentive,
       Granted, Pending

LEMMA SubmitInv ==
  ASSUME Inv, NEW r \in Runs, Submit(r)
  PROVE  Inv'
<1> USE DEF Inv
<1>1. PICK t \in BOOLEAN : timed' = [timed EXCEPT ![r] = t]
  BY DEF Submit
<1>2. TypeOK'
  BY <1>1 DEF Submit, TypeOK, callerVars, PcState, Status, LiveStatuses
<1>3. SlotsOwned'
  <2>1. "absent" \notin ExecutingPc /\ "created" \notin ExecutingPc
    BY DEF ExecutingPc
  <2>2. Executing' = Executing /\ Acquiring' = Acquiring
    BY <2>1, NotExecuting DEF Submit, Acquiring
  <2>3. QED
    BY <2>2, SlotsUntouched DEF Submit
<1>4. RowsFollow'
  BY DEF Submit, RowsFollow, RowFollows, TypeOK, ExecutingPc
<1>5. QED
  BY <1>2, <1>3, <1>4

\* _run_with_limit up to the spawn, with a free slot.
LEMMA StartAtOnceInv ==
  ASSUME Inv, NEW r \in Runs, StartAtOnce(r)
  PROVE  Inv'
<1> USE DEF Inv
<1>1. /\ pc[r] = "created" /\ ~cancelReq[r] /\ ~Locked(sema)
      /\ RunWithSlot(r, Take(sema))
      /\ UNCHANGED <<timed, cancelReq, callerVars>>
  BY DEF StartAtOnce
<1>2. /\ Sound(Take(sema), Runs) /\ Waiters(Take(sema)) = Acquiring \ {r}
      /\ Unused(Take(sema)) = Unused(sema) - 1 /\ Attentive(Take(sema))
  <2>1. Sound(sema, Runs)
    BY DEF Sound, TypeOK, SlotsOwned
  <2>2. Acquiring \ {r} = Acquiring
    BY <1>1 DEF Acquiring
  <2>3. QED
    BY <1>1, <2>1, <2>2, RunsAssumption, TakeFacts DEF SlotsOwned
<1>3. SlotsOwned' /\ sema' \in Semaphores(Runs) /\ inFlight' \in Nat
  <2>1. pc[r] \notin ExecutingPc
    BY <1>1 DEF ExecutingPc
  <2>2. QED
    BY <1>1, <1>2, <2>1, RunWithSlotKeepsSlots
<1>4. /\ RowsFollow'
      /\ pc' \in [Runs -> PcState] /\ row' \in [Runs -> Status]
      /\ proc' \in [Runs -> ProcState] /\ pipesOpen' \in [Runs -> BOOLEAN]
  BY <1>1, RunWithSlotKeepsRows
<1>5. TypeOK'
  BY <1>1, <1>3, <1>4 DEF TypeOK, callerVars
<1>6. QED
  BY <1>3, <1>4, <1>5

\* The first step of a task that finds no free slot.
LEMMA QueueUpInv ==
  ASSUME Inv, NEW r \in Runs, QueueUp(r)
  PROVE  Inv'
<1> USE DEF Inv
<1>1. /\ pc[r] = "created" /\ ~cancelReq[r] /\ Locked(sema)
      /\ pc' = [pc EXCEPT ![r] = "acquiring"]
      /\ sema' = Enqueue(sema, r)
      /\ UNCHANGED <<row, timed, proc, pipesOpen, cancelReq, inFlight, callerVars>>
  BY DEF QueueUp
<1>2. Sound(sema, Runs) /\ r \notin Waiters(sema)
  BY <1>1 DEF Sound, TypeOK, SlotsOwned, Acquiring
<1>3. /\ Sound(sema', Runs) /\ Waiters(sema') = Waiters(sema) \cup {r}
      /\ Unused(sema') = Unused(sema) /\ Attentive(sema')
  BY <1>1, <1>2, RunsAssumption, EnqueueFacts DEF SlotsOwned
<1>4. Executing' = Executing /\ Acquiring' = Acquiring \cup {r}
  <2>1. "created" \notin ExecutingPc /\ "acquiring" \notin ExecutingPc
    BY DEF ExecutingPc
  <2>2. QED
    BY <1>1, <2>1, NotExecuting
<1>5. SlotsOwned'
  BY <1>1, <1>3, <1>4 DEF SlotsOwned, Sound, InFlightExact
<1>6. TypeOK'
  BY <1>1, <1>3 DEF TypeOK, callerVars, Sound, PcState
<1>7. RowsFollow'
  BY <1>1 DEF RowsFollow, RowFollows, TypeOK, ExecutingPc
<1>8. QED
  BY <1>5, <1>6, <1>7

\* A queued task resumes with its slot.
LEMMA StartGrantedInv ==
  ASSUME Inv, NEW r \in Runs, StartGranted(r)
  PROVE  Inv'
<1> USE DEF Inv
<1>1. /\ pc[r] = "acquiring" /\ ~cancelReq[r] /\ sema.fut[r] = "result"
      /\ RunWithSlot(r, Resume(sema, r))
      /\ UNCHANGED <<timed, cancelReq, callerVars>>
  BY DEF StartGranted
<1>2. Sound(sema, Runs) /\ r \in Granted(sema)
  BY <1>1 DEF Sound, TypeOK, SlotsOwned, Granted, Semaphores
<1>3. /\ Sound(Resume(sema, r), Runs)
      /\ Waiters(Resume(sema, r)) = Acquiring \ {r}
      /\ Unused(Resume(sema, r)) = Unused(sema) - 1
      /\ Attentive(Resume(sema, r))
  BY <1>2, RunsAssumption, ResumeFacts DEF SlotsOwned
<1>4. SlotsOwned' /\ sema' \in Semaphores(Runs) /\ inFlight' \in Nat
  <2>1. pc[r] \notin ExecutingPc
    BY <1>1 DEF ExecutingPc
  <2>2. QED
    BY <1>1, <1>3, <2>1, RunWithSlotKeepsSlots
<1>5. /\ RowsFollow'
      /\ pc' \in [Runs -> PcState] /\ row' \in [Runs -> Status]
      /\ proc' \in [Runs -> ProcState] /\ pipesOpen' \in [Runs -> BOOLEAN]
  BY <1>1, RunWithSlotKeepsRows
<1>6. TypeOK'
  BY <1>1, <1>4, <1>5 DEF TypeOK, callerVars
<1>7. QED
  BY <1>4, <1>5, <1>6

\* An executing task that moves on to another await of its execution.
MovesOn(r) ==
  \/ Spawned(r) \/ Communicated(r) \/ TimerFires(r) \/ Expire(r)
  \/ Terminate(r) \/ CancelSpawning(r) \/ CancelTimed(r)

LEMMA MovesOnInv ==
  ASSUME Inv, NEW r \in Runs, MovesOn(r)
  PROVE  Inv'
<1> USE DEF Inv
<1>1. SlotsOwned'
  <2>1. PICK p \in ExecutingPc : pc' = [pc EXCEPT ![r] = p]
    BY DEF MovesOn, Spawned, Communicated, TimerFires, Expire, Terminate,
           CancelSpawning, CancelTimed, ExecutingPc
  <2>2. pc[r] \in ExecutingPc /\ UNCHANGED <<sema, inFlight>>
    BY DEF MovesOn, Spawned, Communicated, TimerFires, Expire, Terminate,
           CancelSpawning, CancelTimed, ExecutingPc
  <2>3. Executing' = Executing /\ Acquiring' = Acquiring
    BY <2>1, <2>2, StillExecuting
  <2>4. QED
    BY <2>2, <2>3, SlotsUntouched
<1>2. CASE Spawned(r)
  <2>1. TypeOK'
    BY <1>2 DEF Spawned, TypeOK, callerVars, PcState, ExecutingPc
  <2>2. RowsFollow'
    BY <1>2 DEF Spawned, RowsFollow, RowFollows, TypeOK, ExecutingPc
  <2>3. QED
    BY <1>1, <2>1, <2>2
<1>3. CASE Communicated(r)
  <2>1. TypeOK'
    BY <1>3 DEF Communicated, TypeOK, callerVars, PcState, ExecutingPc
  <2>2. RowsFollow'
    BY <1>3 DEF Communicated, Reaped, RowsFollow, RowFollows, TypeOK, ExecutingPc
  <2>3. QED
    BY <1>1, <2>1, <2>2
<1>4. CASE TimerFires(r)
  <2>1. TypeOK'
    BY <1>4 DEF TimerFires, TypeOK, callerVars, PcState, ExecutingPc
  <2>2. RowsFollow'
    BY <1>4 DEF TimerFires, RowsFollow, RowFollows, TypeOK, ExecutingPc
  <2>3. QED
    BY <1>1, <2>1, <2>2
<1>5. CASE Expire(r)
  <2>1. TypeOK'
    BY <1>5 DEF Expire, TypeOK, callerVars, PcState, ExecutingPc
  <2>2. RowsFollow'
    BY <1>5 DEF Expire, RowsFollow, RowFollows, TypeOK, ExecutingPc
  <2>3. QED
    BY <1>1, <2>1, <2>2
<1>6. CASE Terminate(r)
  <2>1. TypeOK'
    BY <1>6 DEF Terminate, Killed, TypeOK, callerVars, PcState, ExecutingPc, ProcState
  <2>2. RowsFollow'
    BY <1>6 DEF Terminate, Killed, RowsFollow, RowFollows, TypeOK, ExecutingPc
  <2>3. QED
    BY <1>1, <2>1, <2>2
<1>7. CASE CancelSpawning(r)
  <2>1. TypeOK'
    BY <1>7 DEF CancelSpawning, Killed, TypeOK, callerVars, PcState, ExecutingPc, ProcState
  <2>2. RowsFollow'
    BY <1>7 DEF CancelSpawning, Killed, RowsFollow, RowFollows, TypeOK, ExecutingPc
  <2>3. QED
    BY <1>1, <2>1, <2>2
<1>8. CASE CancelTimed(r)
  <2>1. TypeOK'
    BY <1>8 DEF CancelTimed, TypeOK, callerVars, PcState, ExecutingPc
  <2>2. RowsFollow'
    BY <1>8 DEF CancelTimed, RowsFollow, RowFollows, TypeOK, ExecutingPc
  <2>3. QED
    BY <1>1, <2>1, <2>2
<1>9. QED
  BY <1>2, <1>3, <1>4, <1>5, <1>6, <1>7, <1>8 DEF MovesOn

\* An executing task that ends.
LEMMA SettleInv ==
  ASSUME Inv, NEW r \in Runs, Settle(r)
  PROVE  Inv'
<1> USE DEF Inv
<1> DEFINE status == IF proc[r] = "zero" THEN "done" ELSE "failed"
<1>1. /\ pc[r] = "collected" /\ Finish(r, status)
      /\ cancelReq' = [cancelReq EXCEPT ![r] = FALSE]
      /\ UNCHANGED <<timed, proc, pipesOpen, callerVars>>
  BY DEF Settle
<1>2. pc[r] \in ExecutingPc /\ status \in {"done", "failed"}
  BY <1>1 DEF ExecutingPc
<1> HIDE DEF status
<1>3. SlotsOwned' /\ sema' \in Semaphores(Runs) /\ inFlight' \in Nat
  BY <1>1, <1>2, FinishKeepsSlots
<1>4. TypeOK'
  BY <1>1, <1>2, <1>3 DEF TypeOK, Finish, callerVars, PcState, Status
<1>5. RowsFollow'
  BY <1>1, <1>2 DEF Finish, RowsFollow, RowFollows, TypeOK, ExecutingPc, LiveStatuses
<1>6. QED
  BY <1>3, <1>4, <1>5

LEMMA TimeOutInv ==
  ASSUME Inv, NEW r \in Runs, TimeOut(r)
  PROVE  Inv'
<1> USE DEF Inv
<1>1. /\ pc[r] \in {"expiring", "terminating"} /\ proc[r] \in Exited /\ ~cancelReq[r]
      /\ Finish(r, "timeout")
      /\ UNCHANGED <<timed, proc, pipesOpen, cancelReq, callerVars>>
  BY DEF TimeOut, Reaped
<1>2. pc[r] \in ExecutingPc
  BY <1>1 DEF ExecutingPc
<1>3. SlotsOwned' /\ sema' \in Semaphores(Runs) /\ inFlight' \in Nat
  BY <1>1, <1>2, FinishKeepsSlots
<1>4. TypeOK'
  BY <1>1, <1>3 DEF TypeOK, Finish, callerVars, PcState, Status
<1>5. RowsFollow'
  BY <1>1 DEF Finish, RowsFollow, RowFollows, TypeOK, ExecutingPc, LiveStatuses
<1>6. QED
  BY <1>3, <1>4, <1>5

LEMMA CancelOutrightInv ==
  ASSUME Inv, NEW r \in Runs, CancelOutright(r)
  PROVE  Inv'
<1> USE DEF Inv
<1>1. /\ pc[r] \in ExecutingPc /\ cancelReq[r] /\ Finish(r, row[r])
      /\ cancelReq' = [cancelReq EXCEPT ![r] = FALSE]
      /\ UNCHANGED <<timed, proc, pipesOpen, callerVars>>
  BY DEF CancelOutright, ExecutingPc
<1>2. SlotsOwned' /\ sema' \in Semaphores(Runs) /\ inFlight' \in Nat
  BY <1>1, FinishKeepsSlots
<1>3. row[r] = "interrupted"
  BY <1>1 DEF RowsFollow, RowFollows
<1>4. TypeOK'
  BY <1>1, <1>2 DEF TypeOK, Finish, callerVars, PcState, Status
<1>5. RowsFollow'
  BY <1>1, <1>3 DEF Finish, RowsFollow, RowFollows, TypeOK, ExecutingPc, LiveStatuses
<1>6. QED
  BY <1>2, <1>4, <1>5

LEMMA UnwoundInv ==
  ASSUME Inv, NEW r \in Runs, Unwound(r)
  PROVE  Inv'
<1> USE DEF Inv
<1>1. /\ pc[r] = "unwinding" /\ Finish(r, row[r])
      /\ UNCHANGED <<timed, proc, pipesOpen, cancelReq, callerVars>>
  BY DEF Unwound
<1>2. pc[r] \in ExecutingPc
  BY <1>1 DEF ExecutingPc
<1>3. SlotsOwned' /\ sema' \in Semaphores(Runs) /\ inFlight' \in Nat
  BY <1>1, <1>2, FinishKeepsSlots
<1>4. row[r] = "interrupted"
  BY <1>1 DEF RowsFollow, RowFollows
<1>5. TypeOK'
  BY <1>1, <1>3 DEF TypeOK, Finish, callerVars, PcState, Status
<1>6. RowsFollow'
  BY <1>1, <1>4 DEF Finish, RowsFollow, RowFollows, TypeOK, ExecutingPc, LiveStatuses
<1>7. QED
  BY <1>3, <1>5, <1>6

\* A task cancelled before its first step.
LEMMA CancelCreatedInv ==
  ASSUME Inv, NEW r \in Runs, CancelCreated(r)
  PROVE  Inv'
<1> USE DEF Inv
<1>1. SlotsOwned'
  <2>1. /\ "created" \notin ExecutingPc /\ "ended" \notin ExecutingPc
        /\ "ended" # "acquiring"
    BY DEF ExecutingPc
  <2>2. Executing' = Executing /\ Acquiring' = Acquiring \ {r}
    BY <2>1, NotExecuting DEF CancelCreated
  <2>3. Acquiring \ {r} = Acquiring
    BY DEF CancelCreated, Acquiring
  <2>4. QED
    BY <2>2, <2>3, SlotsUntouched DEF CancelCreated
<1>2. TypeOK'
  BY DEF CancelCreated, TypeOK, callerVars, PcState
<1>3. RowsFollow'
  BY DEF CancelCreated, RowsFollow, RowFollows, TypeOK, ExecutingPc, LiveStatuses
<1>4. QED
  BY <1>1, <1>2, <1>3

\* A task cancelled while it queues for a slot.
LEMMA CancelAcquiringInv ==
  ASSUME Inv, NEW r \in Runs, CancelAcquiring(r)
  PROVE  Inv'
<1> USE DEF Inv
<1>1. /\ pc[r] = "acquiring" /\ cancelReq[r]
      /\ pc' = [pc EXCEPT ![r] = "ended"]
      /\ cancelReq' = [cancelReq EXCEPT ![r] = FALSE]
      /\ sema' = GiveUp(sema, r)
      /\ UNCHANGED <<row, timed, proc, pipesOpen, inFlight, callerVars>>
  BY DEF CancelAcquiring
<1>2. Sound(sema, Runs) /\ r \in Waiters(sema)
  BY <1>1 DEF Sound, TypeOK, SlotsOwned, Acquiring
<1>3. /\ Sound(sema', Runs) /\ Waiters(sema') = Waiters(sema) \ {r}
      /\ Unused(sema') = Unused(sema) /\ Attentive(sema')
  BY <1>1, <1>2, RunsAssumption, GiveUpFacts DEF SlotsOwned
<1>4. Executing' = Executing /\ Acquiring' = Acquiring \ {r}
  <2>1. /\ "acquiring" \notin ExecutingPc /\ "ended" \notin ExecutingPc
        /\ "ended" # "acquiring"
    BY DEF ExecutingPc
  <2>2. QED
    BY <1>1, <2>1, NotExecuting
<1>5. SlotsOwned'
  BY <1>1, <1>3, <1>4 DEF SlotsOwned, Sound, InFlightExact
<1>6. TypeOK'
  BY <1>1, <1>3 DEF TypeOK, callerVars, Sound, PcState
<1>7. RowsFollow'
  BY <1>1 DEF RowsFollow, RowFollows, TypeOK, ExecutingPc, LiveStatuses
<1>8. QED
  BY <1>5, <1>6, <1>7

\* The child of a run acts, and its task stays where it is.
LEMMA ProcessStepInv ==
  ASSUME Inv, NEW r \in Runs, ProcessStep(r)
  PROVE  Inv'
<1> USE DEF Inv
<1>1. SlotsOwned'
  <2>1. UNCHANGED <<pc, sema, inFlight>>
    BY DEF ProcessStep, Exit, Die, ClosePipes
  <2>2. Executing' = Executing /\ Acquiring' = Acquiring
    BY <2>1 DEF Executing, Acquiring
  <2>3. QED
    BY <2>1, <2>2, SlotsUntouched
<1>2. CASE Exit(r)
  <2>1. PICK code \in {"zero", "nonzero"} : proc' = [proc EXCEPT ![r] = code]
    BY <1>2 DEF Exit
  <2>2. TypeOK'
    BY <1>2, <2>1 DEF Exit, TypeOK, callerVars, ProcState, Exited
  <2>3. RowsFollow'
    BY <1>2, <2>1 DEF Exit, RowsFollow, RowFollows, TypeOK, Exited
  <2>4. QED
    BY <1>1, <2>2, <2>3
<1>3. CASE Die(r)
  <2>1. TypeOK'
    BY <1>3 DEF Die, TypeOK, callerVars, ProcState, Exited
  <2>2. RowsFollow'
    BY <1>3 DEF Die, RowsFollow, RowFollows, TypeOK, Exited
  <2>3. QED
    BY <1>1, <2>1, <2>2
<1>4. CASE ClosePipes(r)
  <2>1. TypeOK'
    BY <1>4 DEF ClosePipes, TypeOK, callerVars
  <2>2. RowsFollow'
    BY <1>4 DEF ClosePipes, RowsFollow, RowFollows
  <2>3. QED
    BY <1>1, <2>1, <2>2
<1>5. QED
  BY <1>2, <1>3, <1>4 DEF ProcessStep

\* The waiting coroutines touch the tasks only in CancelLeftovers.
LEMMA CallerStepInv ==
  ASSUME Inv, (\E c \in Callers : CallerStep(c)) \/ GatherAll \/ Idle
  PROVE  Inv'
<1> USE DEF Inv
<1>1. UNCHANGED taskVars
  BY DEF CallerStep, Call, Deadline, Return, GatherAll, Idle, vars, taskVars
<1>2. SlotsOwned'
  <2>1. Executing' = Executing /\ Acquiring' = Acquiring
    BY <1>1 DEF taskVars, Executing, Acquiring
  <2>2. QED
    BY <1>1, <2>1, SlotsUntouched DEF taskVars
<1>3. RowsFollow'
  BY <1>1 DEF taskVars, RowsFollow, RowFollows
<1>4. TypeOK'
  <2>1. CASE \E c \in Callers : CallerStep(c)
    BY <1>1, <2>1 DEF CallerStep, Call, Deadline, Return, taskVars, TypeOK
  <2>2. CASE GatherAll
    BY <1>1, <2>2 DEF GatherAll, taskVars, TypeOK
  <2>3. CASE Idle
    BY <2>3 DEF Idle, vars, TypeOK
  <2>4. QED
    BY <2>1, <2>2, <2>3
<1>5. QED
  BY <1>2, <1>3, <1>4

\* shutdown_drain cancels every task and marks every live row in one step.
LEMMA CancelLeftoversInv ==
  ASSUME Inv, CancelLeftovers
  PROVE  Inv'
<1> USE DEF Inv
<1>1. /\ "shutdown" \in Callers
      /\ callerPc' = [callerPc EXCEPT !["shutdown"] = "gathering"]
      /\ spent' = [spent EXCEPT !["shutdown"] = FALSE]
      /\ batch' = [batch EXCEPT !["shutdown"] = NotDone]
      /\ cancelReq' = [r \in Runs |-> cancelReq[r] \/ r \in NotDone]
      /\ sema' = CancelFutures(sema, NotDone)
      /\ row' = [r \in Runs |->
           IF row[r] \in LiveStatuses THEN "interrupted" ELSE row[r]]
      /\ UNCHANGED <<pc, timed, proc, pipesOpen, inFlight>>
  BY DEF CancelLeftovers
<1>2. /\ Sound(sema', Runs) /\ Waiters(sema') = Waiters(sema)
      /\ Unused(sema') = Unused(sema) /\ Attentive(sema')
  <2>1. Sound(sema, Runs)
    BY DEF Sound, TypeOK, SlotsOwned
  <2>2. QED
    BY <1>1, <2>1, RunsAssumption, CancelFuturesFacts DEF SlotsOwned
<1>3. SlotsOwned'
  <2>1. Executing' = Executing /\ Acquiring' = Acquiring
    BY <1>1 DEF Executing, Acquiring
  <2>2. QED
    BY <1>1, <1>2, <2>1 DEF SlotsOwned, Sound, InFlightExact
<1>4. TypeOK'
  <2>1. NotDone \in SUBSET Runs
    BY DEF NotDone
  <2>2. cancelReq' \in [Runs -> BOOLEAN]
    BY <1>1
  <2>3. row' \in [Runs -> Status]
    BY <1>1 DEF TypeOK, Status
  <2>4. QED
    BY <1>1, <1>2, <2>1, <2>2, <2>3 DEF TypeOK, Sound
<1>5. RowsFollow'
  <2>1. ASSUME NEW r \in Runs
        PROVE  RowFollows(r)'
    <3>1. RowFollows(r) /\ pc[r] \in PcState
      BY DEF RowsFollow, TypeOK
    <3>2. /\ row'[r] = IF row[r] \in LiveStatuses THEN "interrupted" ELSE row[r]
          /\ cancelReq'[r] <=> (cancelReq[r] \/ r \in NotDone)
          /\ pc'[r] = pc[r] /\ proc'[r] = proc[r]
      BY <1>1
    <3>3. r \in NotDone <=> pc[r] \notin {"absent", "ended"}
      BY DEF NotDone
    <3>4. QED
      BY <3>1, <3>2, <3>3 DEF RowFollows, LiveStatuses, PcState, ExecutingPc
  <2>2. QED
    BY <2>1 DEF RowsFollow
<1>6. QED
  BY <1>3, <1>4, <1>5

-----------------------------------------------------------------------------
(* The invariant and what follows from it. *)

\* Inv is inductive.
LEMMA NextInv == Inv /\ [Next]_vars => Inv'
<1> SUFFICES ASSUME Inv, [Next]_vars PROVE Inv'
  OBVIOUS
<1>1. CASE UNCHANGED vars
  <2>1. TypeOK'
    BY <1>1 DEF Inv, TypeOK, vars
  <2>2. RowsFollow'
    BY <1>1 DEF Inv, RowsFollow, RowFollows, vars
  <2>3. SlotsOwned'
    <3>1. Executing' = Executing /\ Acquiring' = Acquiring
      BY <1>1 DEF vars, Executing, Acquiring
    <3>2. QED
      BY <1>1, <3>1, SlotsUntouched DEF Inv, vars
  <2>4. QED
    BY <2>1, <2>2, <2>3 DEF Inv
<1>2. ASSUME NEW r \in Runs, Submit(r) PROVE Inv'
  BY <1>2, SubmitInv
<1>3. ASSUME NEW r \in Runs, TaskStep(r) PROVE Inv'
  <2>1. CASE MovesOn(r)
    BY <2>1, MovesOnInv
  <2>2. CASE StartAtOnce(r) \/ QueueUp(r) \/ StartGranted(r)
    BY <2>2, StartAtOnceInv, QueueUpInv, StartGrantedInv
  <2>3. CASE Settle(r) \/ TimeOut(r) \/ CancelOutright(r) \/ Unwound(r)
    BY <2>3, SettleInv, TimeOutInv, CancelOutrightInv, UnwoundInv
  <2>4. CASE CancelCreated(r) \/ CancelAcquiring(r)
    BY <2>4, CancelCreatedInv, CancelAcquiringInv
  <2>5. QED
    BY <1>3, <2>1, <2>2, <2>3, <2>4 DEF TaskStep, MovesOn
<1>4. ASSUME NEW r \in Runs, ProcessStep(r) PROVE Inv'
  BY <1>4, ProcessStepInv
<1>5. CASE (\E c \in Callers : CallerStep(c)) \/ GatherAll \/ Idle
  BY <1>5, CallerStepInv
<1>6. CASE CancelLeftovers
  BY <1>6, CancelLeftoversInv
<1>7. QED
  BY <1>1, <1>2, <1>3, <1>4, <1>5, <1>6 DEF Next

\* Inv holds in every reachable state.
THEOREM InvInvariant == Spec => []Inv
<1>1. QED
  BY InitInv, NextInv, PTL DEF Spec

\* The state is typed and the in-flight count is a natural number.
THEOREM TypeInvariant == Spec => []TypeOK
<1>1. Inv => TypeOK
  BY DEF Inv
<1>2. QED
  BY <1>1, InvInvariant, PTL

\* No slot is ever lost or made up, for any number of runs and slots: what the
\* cap of AC-8.3 rests on.
THEOREM SlotsConserved == Spec => []SlotConservation
<1>1. Inv => SlotConservation
  <2> SUFFICES ASSUME Inv PROVE SlotConservation
    OBVIOUS
  <2>1. IsFiniteSet(Granted(sema)) /\ Granted(sema) \subseteq Waiters(sema)
    BY RunsAssumption, UnusedType DEF Inv, TypeOK, Granted, Waiters
  <2>2. Executing \cap Granted(sema) = {}
    BY <2>1 DEF Inv, SlotsOwned, Acquiring, Executing, ExecutingPc
  <2>3. Cardinality(Executing \cup Granted(sema)) =
          Cardinality(Executing) + Cardinality(Granted(sema)) - Cardinality({})
    BY <2>1, <2>2, ExecutingFinite, FS_Union
  <2>4. /\ Cardinality(Executing) \in Nat /\ Cardinality(Granted(sema)) \in Nat
        /\ sema.value \in Nat
    BY RunsAssumption, UnusedType, ExecutingFinite DEF Inv, TypeOK, Semaphores
  <2>5. QED
    BY <2>3, <2>4, FS_EmptySet DEF Inv, SlotsOwned, Unused, SlotConservation
<1>2. QED
  BY <1>1, InvInvariant, PTL

\* What both waiting coroutines poll is exact.
THEOREM InFlightIsExact == Spec => []InFlightExact
<1>1. Inv => InFlightExact
  BY DEF Inv, SlotsOwned
<1>2. QED
  BY <1>1, InvInvariant, PTL

\* No queued run sleeps beside a free slot that nobody is about to pass on.
THEOREM NoWakeupIsLost == Spec => []NoLostWakeup
<1>1. Inv => NoLostWakeup
  BY DEF Inv, SlotsOwned, Attentive, NoLostWakeup
<1>2. QED
  BY <1>1, InvInvariant, PTL

\* A row reads "interrupted" only when CancelledError is on its way to the task
\* or has reached it.
THEOREM InterruptedMeansCancelled == Spec => []InterruptedIsCancelled
<1>1. Inv => InterruptedIsCancelled
  BY DEF Inv, RowsFollow, RowFollows, InterruptedIsCancelled
<1>2. QED
  BY <1>1, InvInvariant, PTL

\* Only shutdown leaves a child of a finished task behind.
THEOREM OrphansOnlyByShutdown == Spec => []NoOrphanWithoutShutdown
<1>1. Inv => NoOrphanWithoutShutdown
  BY DEF Inv, RowsFollow, RowFollows, NoOrphanWithoutShutdown
<1>2. QED
  BY <1>1, InvInvariant, PTL

\* A finished run whose row is still live never had a child.
THEOREM OtherRowsAreTerminal == Spec => []OnlyAFailedSpawnLeavesALiveRow
<1>1. Inv => OnlyAFailedSpawnLeavesALiveRow
  BY DEF Inv, RowsFollow, RowFollows, OnlyAFailedSpawnLeavesALiveRow
<1>2. QED
  BY <1>1, InvInvariant, PTL
====
