---- MODULE Runner ----
(*****************************************************************************)
(* The background runner of FR-08 (taskq_api/service/runner.py, class Runner)*)
(* with the two coroutines that wait for it: Runner.drain and                *)
(* shutdown_drain (taskq_api/app.py).                                        *)
(*                                                                           *)
(* One action is one synchronous stretch of a coroutine: what runs between   *)
(* two awaits on the event loop.  pc[r] is the await the task of run r is    *)
(* suspended at:                                                             *)
(*   created       the task was created and has not taken its first step     *)
(*   acquiring     await self._semaphore.acquire()                           *)
(*   spawning      await asyncio.create_subprocess_exec(...)                 *)
(*   communicating await asyncio.wait_for(proc.communicate(), timeout)       *)
(*   collected     the same await, communicate() has completed               *)
(*   expired       the same await, the timer fired before communicate() did  *)
(*   expiring      wait_for is cancelling communicate()                      *)
(*   terminating   await proc.wait() in _terminate                           *)
(*   unwinding     a cancelled task in a library await that delays its       *)
(*                 CancelledError: the spawn reaping the child it killed, or *)
(*                 wait_for cancelling communicate()                         *)
(*                                                                           *)
(* The ready callbacks of the loop are taken in any order, and a submitter,  *)
(* the two waiting coroutines, the child processes and the timers act at any *)
(* time between two of them.                                                 *)
(*****************************************************************************)
EXTENDS Naturals, FiniteSets, AsyncSemaphore

CONSTANTS
  Runs,           \* the runs ever submitted, each with a row and a task
  MaxConcurrent,  \* TASKQ_MAX_CONCURRENT
  Callers,        \* which of shutdown_drain and Runner.drain are called
  Detaching       \* runs whose command leaves a descendant with the pipes open

ASSUME RunsAssumption == IsFiniteSet(Runs)
ASSUME MaxConcurrentAssumption == MaxConcurrent \in Nat
ASSUME CallersAssumption == Callers \subseteq {"shutdown", "drain"}
ASSUME DetachingAssumption == Detaching \subseteq Runs

VARIABLES
  pc,         \* where the task of each run is suspended
  row,        \* row["status"] of each run; "absent" before submit
  timed,      \* submit was given a timeout
  proc,       \* the child process
  pipesOpen,  \* some process still holds the child's stdout or stderr
  cancelReq,  \* Task.cancel() was called and has not been delivered
  sema,       \* self._semaphore
  inFlight,   \* self._in_flight
  callerPc,   \* where each waiting coroutine is
  spent,      \* its polling loop has seen the deadline pass
  batch       \* the tasks its asyncio.gather waits for

taskVars == <<pc, row, timed, proc, pipesOpen, cancelReq, sema, inFlight>>
callerVars == <<callerPc, spent, batch>>
vars == <<pc, row, timed, proc, pipesOpen, cancelReq, sema, inFlight,
          callerPc, spent, batch>>

-----------------------------------------------------------------------------

\* Awaits of _execute_assigned: the run counts as in flight.
ExecutingPc == {"spawning", "communicating", "collected", "expired",
                "expiring", "terminating", "unwinding"}

PcState == {"absent", "created", "acquiring", "ended"} \cup ExecutingPc

LiveStatuses == {"pending", "running"}

Status == {"absent", "done", "failed", "timeout", "interrupted"} \cup LiveStatuses

Exited == {"zero", "nonzero", "killed"}

\* "dying": SIGKILL was sent and the child is not reaped yet.
ProcState == {"none", "alive", "dying"} \cup Exited

Executing == {r \in Runs : pc[r] \in ExecutingPc}

NotDone == {r \in Runs : pc[r] \notin {"absent", "ended"}}

\* Transport.kill() does nothing to a child that has exited.
Killed(p) == IF p = "alive" THEN "dying" ELSE p

\* communicate(), and a wait() for a child that was not reaped yet, complete once
\* the child is reaped and its pipes are disconnected.
Reaped(r) == proc[r] \in Exited /\ ~pipesOpen[r]

-----------------------------------------------------------------------------

Init ==
  /\ pc = [r \in Runs |-> "absent"]
  /\ row = [r \in Runs |-> "absent"]
  /\ timed = [r \in Runs |-> FALSE]
  /\ proc = [r \in Runs |-> "none"]
  /\ pipesOpen = [r \in Runs |-> FALSE]
  /\ cancelReq = [r \in Runs |-> FALSE]
  /\ sema = NewSemaphore(MaxConcurrent, Runs)
  /\ inFlight = 0
  /\ callerPc = [c \in Callers |-> "idle"]
  /\ spent = [c \in Callers |-> FALSE]
  /\ batch = [c \in Callers |-> {}]

\* submit(): the row is "pending" and the task is scheduled; nobody waits.
Submit(r) ==
  /\ pc[r] = "absent"
  /\ pc' = [pc EXCEPT ![r] = "created"]
  /\ row' = [row EXCEPT ![r] = "pending"]
  /\ \E t \in BOOLEAN : timed' = [timed EXCEPT ![r] = t]
  /\ UNCHANGED <<proc, pipesOpen, cancelReq, sema, inFlight>>
  /\ UNCHANGED callerVars

-----------------------------------------------------------------------------
(* The steps of the task of run r. *)

\* Mutant of Finish: the in-flight count is forgotten.
FinishUncounted(r, status) ==
  /\ pc' = [pc EXCEPT ![r] = "ended"]
  /\ row' = [row EXCEPT ![r] = status]
  /\ inFlight' = inFlight
  /\ sema' = Release(sema)

\* Mutant of Finish: the slot is not given back.
FinishHoldingSlot(r, status) ==
  /\ pc' = [pc EXCEPT ![r] = "ended"]
  /\ row' = [row EXCEPT ![r] = status]
  /\ inFlight' = inFlight - 1
  /\ UNCHANGED sema

\* The task of r ends with this status in its row: it leaves the in-flight
\* count and gives its slot back (the two finally clauses).
Finish(r, status) ==
  /\ pc' = [pc EXCEPT ![r] = "ended"]
  /\ row' = [row EXCEPT ![r] = status]
  /\ inFlight' = inFlight - 1
  /\ sema' = Release(sema)

\* The child is started and the task waits for its pipes to be connected.
Launch(r, slot) ==
  /\ pc' = [pc EXCEPT ![r] = "spawning"]
  /\ row' = [row EXCEPT ![r] = "running"]
  /\ proc' = [proc EXCEPT ![r] = "alive"]
  /\ pipesOpen' = [pipesOpen EXCEPT ![r] = TRUE]
  /\ inFlight' = inFlight + 1
  /\ sema' = slot

\* Mutant of FailToLaunch: the count goes down for a run that never raised it.
FailUncounted(r, slot) ==
  /\ pc' = [pc EXCEPT ![r] = "ended"]
  /\ \E status \in {"failed", "running"} : row' = [row EXCEPT ![r] = status]
  /\ sema' = Release(slot)
  /\ inFlight' = inFlight - 1
  /\ UNCHANGED <<proc, pipesOpen>>

\* No child is started and the task ends in the same step.  An unparsable
\* command (ValueError) or an unknown program (FileNotFoundError) settles the
\* row to "failed"; any other error (PermissionError, an empty command)
\* propagates and leaves the row "running".
FailToLaunch(r, slot) ==
  /\ pc' = [pc EXCEPT ![r] = "ended"]
  /\ \E status \in {"failed", "running"} : row' = [row EXCEPT ![r] = status]
  /\ sema' = Release(slot)
  /\ UNCHANGED <<proc, pipesOpen, inFlight>>

\* _run_with_limit from the end of acquire() to its next await, slot being the
\* semaphore once the slot is taken.
RunWithSlot(r, slot) ==
  IF row[r] = "interrupted"
  THEN /\ pc' = [pc EXCEPT ![r] = "ended"]
       /\ sema' = Release(slot)
       /\ UNCHANGED <<row, proc, pipesOpen, inFlight>>
  ELSE Launch(r, slot) \/ FailToLaunch(r, slot)

\* Mutant of StartAtOnce: it runs without taking a slot.
StartUnguarded(r) ==
  /\ pc[r] = "created" /\ ~cancelReq[r]
  /\ RunWithSlot(r, sema)
  /\ UNCHANGED <<timed, cancelReq, callerVars>>

\* The first step of the task finds a free slot.
StartAtOnce(r) ==
  /\ pc[r] = "created" /\ ~cancelReq[r]
  /\ ~Locked(sema)
  /\ RunWithSlot(r, Take(sema))
  /\ UNCHANGED <<timed, cancelReq, callerVars>>

\* The first step of the task finds none and queues up.
QueueUp(r) ==
  /\ pc[r] = "created" /\ ~cancelReq[r]
  /\ Locked(sema)
  /\ pc' = [pc EXCEPT ![r] = "acquiring"]
  /\ sema' = Enqueue(sema, r)
  /\ UNCHANGED <<row, timed, proc, pipesOpen, cancelReq, inFlight, callerVars>>

\* Mutant of StartGranted: the grant is used although the task was cancelled.
StartGrantedAnyway(r) ==
  /\ pc[r] = "acquiring" /\ sema.fut[r] = "result"
  /\ Launch(r, Resume(sema, r))
  /\ UNCHANGED <<timed, cancelReq, callerVars>>

\* A queued task resumes with the slot it was given.
StartGranted(r) ==
  /\ pc[r] = "acquiring" /\ ~cancelReq[r]
  /\ sema.fut[r] = "result"
  /\ RunWithSlot(r, Resume(sema, r))
  /\ UNCHANGED <<timed, cancelReq, callerVars>>

\* create_subprocess_exec returns and communicate() begins.
Spawned(r) ==
  /\ pc[r] = "spawning" /\ ~cancelReq[r]
  /\ pc' = [pc EXCEPT ![r] = "communicating"]
  /\ UNCHANGED <<row, timed, proc, pipesOpen, cancelReq, sema, inFlight, callerVars>>

\* communicate() completes.  It may do so while a cancellation of the task
\* that awaits it is still on its way.
Communicated(r) ==
  /\ pc[r] \in {"communicating", "expired"}
  /\ Reaped(r)
  /\ pc' = [pc EXCEPT ![r] = "collected"]
  /\ UNCHANGED <<row, timed, proc, pipesOpen, cancelReq, sema, inFlight, callerVars>>

\* The timer of wait_for fires first.
TimerFires(r) ==
  /\ pc[r] = "communicating" /\ timed[r] /\ ~cancelReq[r]
  /\ pc' = [pc EXCEPT ![r] = "expired"]
  /\ UNCHANGED <<row, timed, proc, pipesOpen, cancelReq, sema, inFlight, callerVars>>

\* The task resumes with the result of communicate().  Under a timeout, a
\* cancellation that arrives when communicate() is done is dropped: wait_for
\* returns the result all the same.
Settle(r) ==
  /\ pc[r] = "collected" /\ (timed[r] \/ ~cancelReq[r])
  /\ Finish(r, IF proc[r] = "zero" THEN "done" ELSE "failed")
  /\ cancelReq' = [cancelReq EXCEPT ![r] = FALSE]
  /\ UNCHANGED <<timed, proc, pipesOpen, callerVars>>

\* wait_for finds communicate() unfinished after its timer, and cancels it.
Expire(r) ==
  /\ pc[r] = "expired" /\ ~cancelReq[r]
  /\ pc' = [pc EXCEPT ![r] = "expiring"]
  /\ UNCHANGED <<row, timed, proc, pipesOpen, cancelReq, sema, inFlight, callerVars>>

\* Mutant of Terminate: the child is waited for and not killed.
WaitWithoutKill(r) ==
  /\ pc[r] = "expiring" /\ ~cancelReq[r]
  /\ proc[r] \notin Exited
  /\ pc' = [pc EXCEPT ![r] = "terminating"]
  /\ UNCHANGED <<row, timed, proc, pipesOpen, cancelReq, sema, inFlight, callerVars>>

\* TimeoutError: _terminate kills the child and waits for it.
Terminate(r) ==
  /\ pc[r] = "expiring" /\ ~cancelReq[r]
  /\ proc[r] \notin Exited
  /\ pc' = [pc EXCEPT ![r] = "terminating"]
  /\ proc' = [proc EXCEPT ![r] = Killed(@)]
  /\ UNCHANGED <<row, timed, pipesOpen, cancelReq, sema, inFlight, callerVars>>

\* Mutant of TimeOut: the row settles without waiting for the child.
TimeOutAtOnce(r) ==
  /\ pc[r] \in {"expiring", "terminating"} /\ ~cancelReq[r]
  /\ Finish(r, "timeout")
  /\ UNCHANGED <<timed, proc, pipesOpen, cancelReq, callerVars>>

\* _terminate returns and the row settles to "timeout".  wait() ends with the pipes,
\* unless the child was reaped before it was called: then it does not wait at all,
\* and the kill before it found nothing to do.
TimeOut(r) ==
  /\ ~cancelReq[r]
  /\ \/ pc[r] = "terminating" /\ Reaped(r)
     \/ pc[r] = "expiring" /\ proc[r] \in Exited
  /\ Finish(r, "timeout")
  /\ UNCHANGED <<timed, proc, pipesOpen, cancelReq, callerVars>>

-----------------------------------------------------------------------------
(* CancelledError is delivered to the task of run r. *)

\* Before its first step: the coroutine never runs.
CancelCreated(r) ==
  /\ pc[r] = "created" /\ cancelReq[r]
  /\ pc' = [pc EXCEPT ![r] = "ended"]
  /\ cancelReq' = [cancelReq EXCEPT ![r] = FALSE]
  /\ UNCHANGED <<row, timed, proc, pipesOpen, sema, inFlight, callerVars>>

\* In acquire(), outside the try block that releases.
CancelAcquiring(r) ==
  /\ pc[r] = "acquiring" /\ cancelReq[r]
  /\ pc' = [pc EXCEPT ![r] = "ended"]
  /\ cancelReq' = [cancelReq EXCEPT ![r] = FALSE]
  /\ sema' = GiveUp(sema, r)
  /\ UNCHANGED <<row, timed, proc, pipesOpen, inFlight, callerVars>>

\* In create_subprocess_exec: it closes the transport, which kills the child,
\* and waits for it.
CancelSpawning(r) ==
  /\ pc[r] = "spawning" /\ cancelReq[r]
  /\ pc' = [pc EXCEPT ![r] = "unwinding"]
  /\ proc' = [proc EXCEPT ![r] = Killed(@)]
  /\ cancelReq' = [cancelReq EXCEPT ![r] = FALSE]
  /\ UNCHANGED <<row, timed, pipesOpen, sema, inFlight, callerVars>>

\* In communicate() under wait_for: communicate() is cancelled in turn.
CancelTimed(r) ==
  /\ pc[r] \in {"communicating", "expired"} /\ timed[r] /\ cancelReq[r]
  /\ pc' = [pc EXCEPT ![r] = "unwinding"]
  /\ cancelReq' = [cancelReq EXCEPT ![r] = FALSE]
  /\ UNCHANGED <<row, timed, proc, pipesOpen, sema, inFlight, callerVars>>

\* In communicate() without a timeout, in wait_for's own cancellation of
\* communicate(), or in _terminate: the task ends at once, its row as it is.
\* Nothing kills the child.
CancelOutright(r) ==
  /\ \/ pc[r] \in {"communicating", "collected"} /\ ~timed[r]
     \/ pc[r] \in {"expiring", "terminating"}
  /\ cancelReq[r]
  /\ Finish(r, row[r])
  /\ cancelReq' = [cancelReq EXCEPT ![r] = FALSE]
  /\ UNCHANGED <<timed, proc, pipesOpen, callerVars>>

\* The library's await ends and CancelledError leaves the task.
Unwound(r) ==
  /\ pc[r] = "unwinding" /\ proc[r] # "dying"
  /\ Finish(r, row[r])
  /\ UNCHANGED <<timed, proc, pipesOpen, cancelReq, callerVars>>

-----------------------------------------------------------------------------
(* The child process of run r. *)

Exit(r) ==
  /\ proc[r] = "alive"
  /\ \E code \in {"zero", "nonzero"} : proc' = [proc EXCEPT ![r] = code]
  /\ UNCHANGED <<pc, row, timed, pipesOpen, cancelReq, sema, inFlight, callerVars>>

Die(r) ==
  /\ proc[r] = "dying"
  /\ proc' = [proc EXCEPT ![r] = "killed"]
  /\ UNCHANGED <<pc, row, timed, pipesOpen, cancelReq, sema, inFlight, callerVars>>

\* The last process that holds the pipes, the child or a descendant, closes them.
ClosePipes(r) ==
  /\ proc[r] \in Exited /\ pipesOpen[r]
  /\ pipesOpen' = [pipesOpen EXCEPT ![r] = FALSE]
  /\ UNCHANGED <<pc, row, timed, proc, cancelReq, sema, inFlight, callerVars>>

-----------------------------------------------------------------------------
(* The waiting coroutines: shutdown_drain and Runner.drain. *)

\* The call computes the deadline and enters the polling loop.
Call(c) ==
  /\ callerPc[c] = "idle"
  /\ callerPc' = [callerPc EXCEPT ![c] = "polling"]
  /\ UNCHANGED <<spent, batch>> /\ UNCHANGED taskVars

Deadline(c) ==
  /\ callerPc[c] = "polling" /\ ~spent[c]
  /\ spent' = [spent EXCEPT ![c] = TRUE]
  /\ UNCHANGED <<callerPc, batch>> /\ UNCHANGED taskVars

\* Mutant of LoopEnds: the loop waits for a slot to be free.
LoopEndsWithASlot(c) ==
  callerPc[c] = "polling" /\ (inFlight < MaxConcurrent \/ spent[c])

\* The polling loop ends: nothing in flight, or the deadline has passed.
LoopEnds(c) == callerPc[c] = "polling" /\ (inFlight = 0 \/ spent[c])

\* drain(): every task of the runner so far is gathered.
GatherAll ==
  /\ "drain" \in Callers /\ LoopEnds("drain")
  /\ callerPc' = [callerPc EXCEPT !["drain"] = "gathering"]
  /\ spent' = [spent EXCEPT !["drain"] = FALSE]
  /\ batch' = [batch EXCEPT !["drain"] = {r \in Runs : pc[r] # "absent"}]
  /\ UNCHANGED taskVars

\* Mutant of CancelLeftovers: the rows are marked and the tasks left alone, which
\* an earlier version of shutdown_drain did (app.py:80).
MarkWithoutCancel ==
  /\ "shutdown" \in Callers /\ LoopEnds("shutdown")
  /\ callerPc' = [callerPc EXCEPT !["shutdown"] = "gathering"]
  /\ spent' = [spent EXCEPT !["shutdown"] = FALSE]
  /\ batch' = [batch EXCEPT !["shutdown"] = NotDone]
  /\ row' = [r \in Runs |-> IF row[r] \in LiveStatuses THEN "interrupted" ELSE row[r]]
  /\ UNCHANGED <<pc, timed, proc, pipesOpen, cancelReq, sema, inFlight>>

\* Mutant of CancelLeftovers: only the running rows are marked.
CancelWithoutMark ==
  /\ "shutdown" \in Callers /\ LoopEnds("shutdown")
  /\ callerPc' = [callerPc EXCEPT !["shutdown"] = "gathering"]
  /\ spent' = [spent EXCEPT !["shutdown"] = FALSE]
  /\ batch' = [batch EXCEPT !["shutdown"] = NotDone]
  /\ cancelReq' = [r \in Runs |-> cancelReq[r] \/ r \in NotDone]
  /\ sema' = CancelFutures(sema, NotDone)
  /\ row' = [r \in Runs |-> IF row[r] = "running" THEN "interrupted" ELSE row[r]]
  /\ UNCHANGED <<pc, timed, proc, pipesOpen, inFlight>>

\* shutdown_drain(): every task that is not done is cancelled and, in the same
\* step, every pending or running row is marked "interrupted".
CancelLeftovers ==
  /\ "shutdown" \in Callers /\ LoopEnds("shutdown")
  /\ callerPc' = [callerPc EXCEPT !["shutdown"] = "gathering"]
  /\ spent' = [spent EXCEPT !["shutdown"] = FALSE]
  /\ batch' = [batch EXCEPT !["shutdown"] = NotDone]
  /\ cancelReq' = [r \in Runs |-> cancelReq[r] \/ r \in NotDone]
  /\ sema' = CancelFutures(sema, NotDone)
  /\ row' = [r \in Runs |-> IF row[r] \in LiveStatuses THEN "interrupted" ELSE row[r]]
  /\ UNCHANGED <<pc, timed, proc, pipesOpen, inFlight>>

\* asyncio.gather(*batch, return_exceptions=True) completes.
Return(c) ==
  /\ callerPc[c] = "gathering"
  /\ \A r \in batch[c] : pc[r] = "ended"
  /\ callerPc' = [callerPc EXCEPT ![c] = "returned"]
  /\ UNCHANGED <<spent, batch>> /\ UNCHANGED taskVars

-----------------------------------------------------------------------------

\* What the event loop runs for the task of r.
TaskStep(r) ==
  \/ StartAtOnce(r) \/ QueueUp(r) \/ StartGranted(r)
  \/ Spawned(r) \/ Communicated(r) \/ TimerFires(r) \/ Settle(r)
  \/ Expire(r) \/ Terminate(r) \/ TimeOut(r)
  \/ CancelCreated(r) \/ CancelAcquiring(r) \/ CancelSpawning(r)
  \/ CancelTimed(r) \/ CancelOutright(r) \/ Unwound(r)

ProcessStep(r) == Exit(r) \/ Die(r) \/ ClosePipes(r)

CallerStep(c) == Call(c) \/ Deadline(c) \/ Return(c)

\* Every run has ended and every call has returned: nothing is left to do.
Quiescent ==
  /\ \A r \in Runs : pc[r] = "ended" /\ proc[r] \notin {"alive", "dying"} /\ ~pipesOpen[r]
  /\ \A c \in Callers : callerPc[c] = "returned"

Idle == Quiescent /\ UNCHANGED vars

Next ==
  \/ \E r \in Runs : Submit(r) \/ TaskStep(r) \/ ProcessStep(r)
  \/ \E c \in Callers : CallerStep(c)
  \/ GatherAll
  \/ CancelLeftovers
  \/ Idle

Spec == Init /\ [][Next]_vars

\* The event loop keeps running its ready callbacks and its timers, the kernel
\* reaps a killed child, and the pipes close when no detached descendant holds
\* them.  Nothing is assumed of a child that is left alone.
LoopFairness ==
  /\ \A r \in Runs : WF_vars(TaskStep(r)) /\ WF_vars(Die(r))
  /\ \A r \in Runs \ Detaching : WF_vars(ClosePipes(r))
  /\ \A c \in Callers : WF_vars(Deadline(c) \/ Return(c))
  /\ WF_vars(GatherAll) /\ WF_vars(CancelLeftovers)

LoopSpec == Spec /\ LoopFairness

\* Commands submitted without a timeout are assumed to exit by themselves.
CommandsExit == \A r \in Runs : WF_vars(~timed[r] /\ Exit(r))

-----------------------------------------------------------------------------
(* Properties *)

\* Types, with the two counters inside the capacity they count against.
TypeOK ==
  /\ pc \in [Runs -> PcState]
  /\ row \in [Runs -> Status]
  /\ timed \in [Runs -> BOOLEAN]
  /\ proc \in [Runs -> ProcState]
  /\ pipesOpen \in [Runs -> BOOLEAN]
  /\ cancelReq \in [Runs -> BOOLEAN]
  /\ sema \in Semaphores(Runs)
  /\ inFlight \in Nat
  /\ callerPc \in [Callers -> {"idle", "polling", "gathering", "returned"}]
  /\ spent \in [Callers -> BOOLEAN]
  /\ batch \in [Callers -> SUBSET Runs]

\* No slot is lost or made up, whatever order grants, timeouts and
\* cancellations come in: the free slots, the runs that execute and the queued
\* runs a slot was handed to add up to the cap (runner.py, AC-8.3).
SlotConservation ==
  sema.value + Cardinality(Executing \cup Granted(sema)) = MaxConcurrent

\* in_flight, which both waiting coroutines poll, is exactly the number of runs
\* that execute, also while cancelled tasks unwind.
InFlightExact == inFlight = Cardinality(Executing)

\* A queued run never sleeps beside a free slot unless some other queued run
\* has been woken and will pass the slot on.
NoLostWakeup ==
  sema.value > 0 /\ Pending(sema) # {} => Granted(sema) # {}

\* A run whose task is over leaves no child behind, unless shutdown_drain
\* interrupted it (AC-8.4, NP-15: kill, then wait, on timeout).
NoOrphanWithoutShutdown ==
  \A r \in Runs : pc[r] = "ended" /\ row[r] # "interrupted" =>
                    proc[r] \in Exited \cup {"none"}

\* A row reads "interrupted" only when its task is over, unwinding or about to
\* receive CancelledError: the status check after acquire() (_run_with_limit)
\* never finds anything.
InterruptedIsCancelled ==
  \A r \in Runs : row[r] = "interrupted" =>
                    cancelReq[r] \/ pc[r] \in {"unwinding", "ended"}

\* When shutdown_drain has returned, every task it found unfinished is over and
\* no row of theirs is still live (AC-8.1).
ShutdownLeavesNothingLive ==
  "shutdown" \in Callers /\ callerPc["shutdown"] = "returned" =>
    \A r \in batch["shutdown"] : pc[r] = "ended" /\ row[r] \notin LiveStatuses

\* A run that shutdown_drain cancels before it has a child never gets one,
\* although it may already have been granted a slot.
NoLaunchAfterShutdown ==
  [][\A r \in Runs :
       "shutdown" \in Callers /\ r \in batch["shutdown"] /\ proc[r] = "none"
         => proc'[r] = "none"]_vars

\* A run that executes when shutdown_drain begins has the whole drain budget to
\* finish in (AC-8.1).  That needs in_flight to miss no run that executes; a queued
\* or just submitted run is not counted in it and has no such promise.
ExecutingHasTheBudget ==
  [][\A r \in Executing : row[r] # "interrupted" /\ row'[r] = "interrupted"
                           => spent["shutdown"]]_vars

\* A run whose task is over has a terminal row (the comment at runner.py:570-574
\* wants that of every run), unless its spawn failed in a way that nobody catches: no
\* timeout, cancellation or shutdown, in whatever order, leaves a row live.
OnlyAFailedSpawnLeavesALiveRow ==
  \A r \in Runs : pc[r] = "ended" /\ row[r] \in LiveStatuses =>
                    row[r] = "running" /\ proc[r] = "none"

\* The rows change only as module RunLifecycle allows.
Lifecycle == INSTANCE RunLifecycle
  WITH status <- row, active <- Executing, Slots <- MaxConcurrent

ImplementsLifecycle == Lifecycle!Spec

-----------------------------------------------------------------------------
(* Liveness, under LoopSpec. *)

\* Every submitted run ends, with nobody starved of a slot, if the commands
\* without a timeout exit and every descendant closes its pipes.
EverySubmittedRunEnds ==
  CommandsExit /\ (\A r \in Detaching : WF_vars(ClosePipes(r)))
    => \A r \in Runs : pc[r] = "created" ~> pc[r] = "ended"

\* A run under a timeout leaves its slot, although its child never exits by
\* itself: _terminate sees to it (AC-8.4).
TimedRunsEnd ==
  \A r \in Runs \ Detaching :
    pc[r] = "communicating" /\ timed[r] ~> pc[r] = "ended"

\* shutdown_drain returns, although no child may ever exit by itself and
\* descendants may hold the pipes for ever.
ShutdownReturns ==
  "shutdown" \in Callers =>
    (callerPc["shutdown"] = "polling" ~> callerPc["shutdown"] = "returned")

-----------------------------------------------------------------------------
(* What documents and comments say of the runner, and the code does not do. *)

\* app.py:80-84, "the kernel resource is released before the process exits": no
\* child of a run that shutdown_drain cancelled is alive once it has returned.
ShutdownReapsChildren ==
  "shutdown" \in Callers /\ callerPc["shutdown"] = "returned" =>
    \A r \in batch["shutdown"] : proc[r] # "alive"
====
