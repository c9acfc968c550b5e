---- MODULE AsyncSemaphore ----
(*****************************************************************************)
(* asyncio.Semaphore (CPython 3.11) as Runner uses it: a counter and a deque *)
(* of waiters, each with a Future.  A semaphore is a record                  *)
(*   value  the counter                                                      *)
(*   queue  the deque of waiters, oldest first                               *)
(*   fut    the state of each waiter's Future ("none": not in the deque)     *)
(* and every operator below is one synchronous stretch of the library: what  *)
(* runs between two awaits.  Operators that return a semaphore are composed  *)
(* by the module that owns one.                                              *)
(*****************************************************************************)
EXTENDS Naturals, Sequences, SequencesExt

FutureState == {"none", "pending", "result", "cancelled"}

\* Semaphore(n), with Waiters the tasks that may ever wait on it.
NewSemaphore(n, Waiters) ==
  [value |-> n, queue |-> <<>>, fut |-> [w \in Waiters |-> "none"]]

Semaphores(Waiters) ==
  [value : Nat, queue : Seq(Waiters), fut : [Waiters -> FutureState]]

\* The waiters whose Future was resolved and that have not resumed yet: the
\* slot is already theirs.
Granted(s) == {w \in DOMAIN s.fut : s.fut[w] = "result"}

Pending(s) == {w \in DOMAIN s.fut : s.fut[w] = "pending"}

\* locked(): a waiter that is not cancelled keeps newcomers out of a free slot.
Locked(s) ==
  s.value = 0 \/ \E i \in DOMAIN s.queue : s.fut[s.queue[i]] # "cancelled"

\* _wake_up_next(): the oldest waiter that is not done gets one slot.
WakeUpNext(s) ==
  LET at == {i \in DOMAIN s.queue : s.queue[i] \in Pending(s)}
      first == CHOOSE i \in at : \A j \in at : i <= j
  IN  IF at = {} THEN s
      ELSE [value |-> s.value - 1, queue |-> s.queue,
            fut |-> [s.fut EXCEPT ![s.queue[first]] = "result"]]

\* acquire() without waiting, when the semaphore is not locked.
Take(s) == [value |-> s.value - 1, queue |-> s.queue, fut |-> s.fut]

\* acquire() up to its await.
Enqueue(s, w) ==
  [value |-> s.value, queue |-> Append(s.queue, w),
   fut |-> [s.fut EXCEPT ![w] = "pending"]]

\* The waiter leaves the deque, wherever it stands.
Dequeue(s, w) ==
  LET at == CHOOSE i \in DOMAIN s.queue : s.queue[i] = w
  IN  [value |-> s.value, queue |-> RemoveAt(s.queue, at),
       fut |-> [s.fut EXCEPT ![w] = "none"]]

\* One more free slot, and nobody is told.
AddSlot(s) == [value |-> s.value + 1, queue |-> s.queue, fut |-> s.fut]

\* Mutant of Release: the waiters are forgotten.
ReleaseQuietly(s) == AddSlot(s)

\* release()
Release(s) == WakeUpNext(AddSlot(s))

\* acquire() after its await: a waiter that resumes with a slot passes on
\* any slot that became free meanwhile.
Resume(s, w) ==
  LET left == Dequeue(s, w)
  IN  IF left.value > 0 THEN WakeUpNext(left) ELSE left

\* acquire() interrupted by CancelledError: a slot already granted goes back.
GiveUp(s, w) ==
  LET left == Dequeue(s, w)
  IN  IF s.fut[w] = "result" THEN Release(left) ELSE left

\* Task.cancel() of the tasks W: it cancels a Future that is still pending, and
\* cannot take back one that is resolved.
CancelFutures(s, W) ==
  [value |-> s.value, queue |-> s.queue,
   fut |-> [w \in DOMAIN s.fut |->
     IF w \in W /\ s.fut[w] = "pending" THEN "cancelled" ELSE s.fut[w]]]
====
