---- MODULE AsyncSemaphoreProofs ----
(*****************************************************************************)
(* Facts about the operators of AsyncSemaphore, each for every semaphore and *)
(* every finite set of waiters: what an operator does to the set of waiters, *)
(* to the slots (free or granted) and to the order of the deque.             *)
(*****************************************************************************)
EXTENDS AsyncSemaphore, FiniteSetTheorems, SequenceTheorems,
        WellFoundedInduction, TLAPS

Waiters(s) == {w \in DOMAIN s.fut : s.fut[w] # "none"}

\* The deque holds each waiter once and nobody else.
QueueMatches(s) ==
  /\ \A i \in DOMAIN s.queue : s.queue[i] \in Waiters(s)
  /\ \A w \in Waiters(s) : \E i \in DOMAIN s.queue : s.queue[i] = w
  /\ \A i, j \in DOMAIN s.queue : s.queue[i] = s.queue[j] => i = j

Sound(s, W) == s \in Semaphores(W) /\ QueueMatches(s)

\* The slots nobody uses yet: free, or handed to a waiter that is still asleep.
Unused(s) == s.value + Cardinality(Granted(s))

\* A waiter does not sleep beside a free slot unless another has been woken.
Attentive(s) == s.value > 0 /\ Pending(s) # {} => Granted(s) # {}

\* A set of naturals that is not empty has a least element.
LEMMA LeastOf ==
  ASSUME NEW S \in SUBSET Nat, S # {}
  PROVE  \E i \in S : \A j \in S : i <= j
<1> DEFINE less == OpToRel(<, Nat)
<1>1. IsWellFoundedOn(less, Nat)
  BY NatLessThanWellFounded
<1> HIDE DEF less
<1>2. \E i \in S : \A j \in S : ~(<<j, i>> \in less)
  BY <1>1, WFMin
<1>3. PICK i \in S : \A j \in S : ~(<<j, i>> \in less)
  BY <1>2
<1>4. ASSUME NEW j \in S
      PROVE  i <= j
  <2>1. i \in Nat /\ j \in Nat
    OBVIOUS
  <2>2. ~(<<j, i>> \in less)
    BY <1>3
  <2>3. ~(j < i)
    BY <2>1, <2>2 DEF less, OpToRel
  <2>4. QED
    BY <2>1, <2>3
<1>5. QED
  BY <1>4

\* A sound semaphore has a finite, natural number of unused slots.
LEMMA UnusedType ==
  ASSUME NEW W, IsFiniteSet(W), NEW s \in Semaphores(W)
  PROVE  /\ IsFiniteSet(Granted(s)) /\ Granted(s) \subseteq W
         /\ Cardinality(Granted(s)) \in Nat
         /\ Unused(s) \in Nat
<1>1. Granted(s) \in SUBSET W
  BY DEF Granted, Semaphores
<1>2. IsFiniteSet(Granted(s))
  BY <1>1, FS_Subset
<1>3. Cardinality(Granted(s)) \in Nat
  BY <1>2, FS_CardinalityType
<1>4. QED
  BY <1>1, <1>2, <1>3 DEF Unused, Semaphores

\* The deque has an oldest waiter that is not done, when one is not done.
LEMMA FirstPending ==
  ASSUME NEW W, NEW s, Sound(s, W), Pending(s) # {}
  PROVE  LET at == {i \in DOMAIN s.queue : s.queue[i] \in Pending(s)}
             first == CHOOSE i \in at : \A j \in at : i <= j
         IN  first \in at
<1> DEFINE at == {i \in DOMAIN s.queue : s.queue[i] \in Pending(s)}
<1>1. at \subseteq Nat
  BY LenProperties DEF Sound, Semaphores
<1>2. at # {}
  <2>1. PICK w \in Pending(s) : TRUE
    OBVIOUS
  <2>2. w \in Waiters(s)
    BY <2>1 DEF Pending, Waiters
  <2>3. QED
    BY <2>1, <2>2 DEF Sound, QueueMatches
<1>3. \E i \in at : \A j \in at : i <= j
  BY <1>1, <1>2, LeastOf
<1>4. QED
  BY <1>3


-----------------------------------------------------------------------------
(* Handing slots out. *)

\* _wake_up_next with a free slot: nobody joins or leaves the deque, a slot may
\* pass from free to granted, and afterwards no waiter sleeps beside a free slot.
LEMMA WakeUpNextFacts ==
  ASSUME NEW W, IsFiniteSet(W), NEW s, Sound(s, W), s.value > 0
  PROVE  /\ Sound(WakeUpNext(s), W)
         /\ Waiters(WakeUpNext(s)) = Waiters(s)
         /\ Unused(WakeUpNext(s)) = Unused(s)
         /\ Attentive(WakeUpNext(s))
<1> DEFINE at == {i \in DOMAIN s.queue : s.queue[i] \in Pending(s)}
           first == CHOOSE i \in at : \A j \in at : i <= j
           w == s.queue[first]
           t == [value |-> s.value - 1, queue |-> s.queue,
                 fut |-> [s.fut EXCEPT ![w] = "result"]]
<1>1. CASE at = {}
  <2>1. WakeUpNext(s) = s
    BY <1>1 DEF WakeUpNext
  <2>2. \A v \in Pending(s) : v \in Waiters(s)
    BY DEF Pending, Waiters
  <2>3. Pending(s) = {}
    BY <1>1, <2>2 DEF Sound, QueueMatches
  <2>4. QED
    BY <2>1, <2>3 DEF Attentive
<1>2. CASE at # {}
  <2>1. WakeUpNext(s) = t
    BY <1>2 DEF WakeUpNext
  <2>2. first \in at
    BY <1>2, FirstPending
  <2> HIDE DEF first
  <2>3. w \in W /\ s.fut[w] = "pending"
    BY <2>2 DEF Pending, Sound, Semaphores
  <2> HIDE DEF w
  <2>4. /\ t.value = s.value - 1 /\ t.value \in Nat
        /\ t.queue = s.queue
        /\ t.fut = [s.fut EXCEPT ![w] = "result"]
        /\ t \in Semaphores(W)
    BY <2>3 DEF Sound, Semaphores, FutureState
  <2>5. /\ DOMAIN t.fut = W /\ DOMAIN s.fut = W
        /\ \A v \in W : t.fut[v] = IF v = w THEN "result" ELSE s.fut[v]
    BY <2>3, <2>4 DEF Sound, Semaphores
  <2> HIDE DEF t
  <2>6. Waiters(t) = Waiters(s)
    BY <2>3, <2>5 DEF Waiters
  <2>7. Granted(t) = Granted(s) \cup {w} /\ w \notin Granted(s)
    BY <2>3, <2>5 DEF Granted
  <2>8. Sound(t, W)
    BY <2>4, <2>6 DEF Sound, QueueMatches
  <2>9. Unused(t) = Unused(s)
    <3>1. s \in Semaphores(W)
      BY DEF Sound
    <3>2. IsFiniteSet(Granted(s)) /\ Cardinality(Granted(s)) \in Nat
      BY <3>1, UnusedType
    <3>3. Cardinality(Granted(t)) = Cardinality(Granted(s)) + 1
      BY <2>7, <3>2, FS_AddElement
    <3>4. QED
      BY <2>4, <3>1, <3>2, <3>3 DEF Unused, Semaphores
  <2>10. Attentive(t)
    BY <2>7 DEF Attentive
  <2>11. QED
    BY <2>1, <2>6, <2>8, <2>9, <2>10
<1>3. QED
  BY <1>1, <1>2

\* release() adds one slot, and no waiter sleeps beside it.
LEMMA ReleaseFacts ==
  ASSUME NEW W, IsFiniteSet(W), NEW s, Sound(s, W)
  PROVE  /\ Sound(Release(s), W)
         /\ Waiters(Release(s)) = Waiters(s)
         /\ Unused(Release(s)) = Unused(s) + 1
         /\ Attentive(Release(s))
<1> DEFINE t == AddSlot(s)
<1>1. /\ t \in Semaphores(W) /\ t.value = s.value + 1 /\ t.value > 0
      /\ t.queue = s.queue /\ t.fut = s.fut
  BY DEF Sound, Semaphores, AddSlot
<1>2. Release(s) = WakeUpNext(t)
  BY DEF Release
<1> HIDE DEF t
<1>3. Waiters(t) = Waiters(s) /\ Granted(t) = Granted(s)
  BY <1>1 DEF Waiters, Granted
<1>4. Sound(t, W)
  BY <1>1, <1>3 DEF Sound, QueueMatches
<1>5. Unused(t) = Unused(s) + 1
  <2>1. s.value \in Nat /\ Cardinality(Granted(s)) \in Nat
    BY UnusedType DEF Sound, Semaphores
  <2>2. QED
    BY <1>1, <1>3, <2>1 DEF Unused
<1>6. QED
  BY <1>1, <1>2, <1>3, <1>4, <1>5, WakeUpNextFacts

\* acquire() of a semaphore that is not locked takes one slot; nobody is waiting
\* for it.
LEMMA TakeFacts ==
  ASSUME NEW W, IsFiniteSet(W), NEW s, Sound(s, W), ~Locked(s)
  PROVE  /\ Sound(Take(s), W)
         /\ Waiters(Take(s)) = Waiters(s)
         /\ Unused(Take(s)) = Unused(s) - 1
         /\ Attentive(Take(s))
<1> DEFINE t == Take(s)
<1>1. /\ t \in Semaphores(W) /\ t.value = s.value - 1
      /\ t.queue = s.queue /\ t.fut = s.fut
  BY DEF Sound, Semaphores, Locked, Take
<1> HIDE DEF t
<1>2. Waiters(t) = Waiters(s) /\ Granted(t) = Granted(s) /\ Pending(t) = Pending(s)
  BY <1>1 DEF Waiters, Granted, Pending
<1>3. Sound(t, W)
  BY <1>1, <1>2 DEF Sound, QueueMatches
<1>4. Unused(t) = Unused(s) - 1
  <2>1. s.value \in Nat /\ Cardinality(Granted(s)) \in Nat
    BY UnusedType DEF Sound, Semaphores
  <2>2. QED
    BY <1>1, <1>2, <2>1 DEF Unused
<1>5. Pending(s) = {}
  <2>1. \A i \in DOMAIN s.queue : s.fut[s.queue[i]] = "cancelled"
    BY DEF Locked
  <2>2. \A v \in Pending(s) : v \in Waiters(s) /\ s.fut[v] = "pending"
    BY DEF Pending, Waiters
  <2>3. \A v \in Pending(s) : \E i \in DOMAIN s.queue : s.queue[i] = v
    BY <2>2 DEF Sound, QueueMatches
  <2>4. QED
    BY <2>1, <2>2, <2>3
<1>6. QED
  BY <1>2, <1>3, <1>4, <1>5 DEF t, Attentive

-----------------------------------------------------------------------------
(* Joining and leaving the deque. *)

\* acquire() of a locked semaphore: the caller joins at the end, and a free slot
\* it finds is on its way to somebody who was woken.
LEMMA EnqueueFacts ==
  ASSUME NEW W, IsFiniteSet(W), NEW s, Sound(s, W),
         NEW w \in W, w \notin Waiters(s)
  PROVE  /\ Sound(Enqueue(s, w), W)
         /\ Waiters(Enqueue(s, w)) = Waiters(s) \cup {w}
         /\ Unused(Enqueue(s, w)) = Unused(s)
         /\ Locked(s) /\ Attentive(s) => Attentive(Enqueue(s, w))
<1> DEFINE t == Enqueue(s, w)
<1>1. /\ s.queue \in Seq(W) /\ Len(s.queue) \in Nat /\ DOMAIN s.queue = 1 .. Len(s.queue)
      /\ DOMAIN s.fut = W /\ s.fut[w] = "none"
  BY LenProperties DEF Sound, Semaphores, Waiters
<1>2. /\ t.value = s.value
      /\ t.queue = Append(s.queue, w)
      /\ t.fut = [s.fut EXCEPT ![w] = "pending"]
  BY DEF Enqueue
<1>3. /\ t.queue \in Seq(W) /\ Len(t.queue) = Len(s.queue) + 1
      /\ DOMAIN t.queue = 1 .. Len(s.queue) + 1
      /\ \A i \in DOMAIN s.queue : t.queue[i] = s.queue[i]
      /\ t.queue[Len(s.queue) + 1] = w
  BY <1>1, <1>2, AppendProperties, LenProperties
<1>4. t \in Semaphores(W)
  BY <1>3 DEF Enqueue, Sound, Semaphores, FutureState
<1>5. /\ DOMAIN t.fut = W
      /\ \A v \in W : t.fut[v] = IF v = w THEN "pending" ELSE s.fut[v]
  BY <1>1, <1>2 DEF Sound, Semaphores
<1> HIDE DEF t
<1>6. /\ Waiters(t) = Waiters(s) \cup {w}
      /\ Granted(t) = Granted(s)
      /\ Pending(t) = Pending(s) \cup {w}
  BY <1>1, <1>5 DEF Waiters, Granted, Pending
<1>7. QueueMatches(t)
  <2>1. \A i \in DOMAIN s.queue : s.queue[i] \in Waiters(s) /\ s.queue[i] # w
    BY DEF Sound, QueueMatches
  <2>2. \A i \in DOMAIN t.queue : i \in DOMAIN s.queue \/ i = Len(s.queue) + 1
    BY <1>1, <1>3
  <2>3. \A i \in DOMAIN t.queue : t.queue[i] \in Waiters(t)
    BY <1>3, <1>6, <2>1, <2>2
  <2>4. \A v \in Waiters(t) : \E i \in DOMAIN t.queue : t.queue[i] = v
    <3>1. DOMAIN s.queue \subseteq DOMAIN t.queue /\ Len(s.queue) + 1 \in DOMAIN t.queue
      BY <1>1, <1>3
    <3>2. \A v \in Waiters(s) : \E i \in DOMAIN s.queue : s.queue[i] = v
      BY DEF Sound, QueueMatches
    <3>3. QED
      BY <1>3, <1>6, <3>1, <3>2
  <2>5. \A i, j \in DOMAIN t.queue : t.queue[i] = t.queue[j] => i = j
    <3>1. \A i, j \in DOMAIN s.queue : s.queue[i] = s.queue[j] => i = j
      BY DEF Sound, QueueMatches
    <3>2. QED
      BY <1>3, <2>1, <2>2, <3>1
  <2>6. QED
    BY <2>3, <2>4, <2>5 DEF QueueMatches
<1>8. ASSUME Locked(s), Attentive(s)
      PROVE  Attentive(t)
  <2>1. CASE s.value = 0
    BY <1>2, <2>1 DEF Attentive
  <2>2. CASE \E i \in DOMAIN s.queue : s.fut[s.queue[i]] # "cancelled"
    <3>1. PICK i \in DOMAIN s.queue : s.fut[s.queue[i]] # "cancelled"
      BY <2>2
    <3>2. s.queue[i] \in Pending(s) \/ s.queue[i] \in Granted(s)
      BY <1>1, <3>1 DEF Sound, QueueMatches, Waiters, Semaphores, FutureState, Pending, Granted
    <3>3. s.value > 0 => Granted(s) # {}
      BY <1>8, <3>2 DEF Attentive
    <3>4. QED
      BY <1>2, <1>6, <3>3 DEF Attentive
  <2>3. QED
    BY <1>8, <2>1, <2>2 DEF Locked
<1>9. QED
  BY <1>2, <1>4, <1>6, <1>7, <1>8 DEF t, Sound, Unused

\* What is left of a sequence without its k-th element.
LEMMA RemoveAtFacts ==
  ASSUME NEW S, NEW q \in Seq(S), NEW k \in 1 .. Len(q)
  PROVE  /\ RemoveAt(q, k) \in Seq(S)
         /\ Len(RemoveAt(q, k)) = Len(q) - 1
         /\ \A i \in 1 .. Len(q) - 1 :
              RemoveAt(q, k)[i] = IF i < k THEN q[i] ELSE q[i + 1]
<1> DEFINE a == SubSeq(q, 1, k - 1)
           b == SubSeq(q, k + 1, Len(q))
<1>1. Len(q) \in Nat /\ \A i \in 1 .. Len(q) : q[i] \in S
  BY LenProperties, ElementOfSeq
<1>2. /\ a \in Seq(S) /\ Len(a) = k - 1
      /\ \A i \in 1 .. k - 1 : a[i] = q[i]
  <2>1. \A i \in 1 .. k - 1 : q[i] \in S
    BY <1>1
  <2>2. 1 \in Int /\ k - 1 \in Int
    BY <1>1
  <2>3. /\ a \in Seq(S) /\ Len(a) = (IF 1 <= k - 1 THEN k - 1 - 1 + 1 ELSE 0)
        /\ \A i \in 1 .. k - 1 - 1 + 1 : a[i] = q[1 + i - 1]
    BY <2>1, <2>2, SubSeqProperties
  <2> HIDE DEF a
  <2>4. QED
    BY <1>1, <2>3
<1>3. /\ b \in Seq(S) /\ Len(b) = Len(q) - k
      /\ \A i \in 1 .. Len(q) - k : b[i] = q[k + i]
  <2>1. \A i \in k + 1 .. Len(q) : q[i] \in S
    BY <1>1
  <2>2. k + 1 \in Int /\ Len(q) \in Int
    BY <1>1
  <2>3. /\ b \in Seq(S)
        /\ Len(b) = (IF k + 1 <= Len(q) THEN Len(q) - (k + 1) + 1 ELSE 0)
        /\ \A i \in 1 .. Len(q) - (k + 1) + 1 : b[i] = q[k + 1 + i - 1]
    BY <2>1, <2>2, SubSeqProperties
  <2> HIDE DEF b
  <2>4. QED
    BY <1>1, <2>3
<1> HIDE DEF a, b
<1>4. /\ a \o b \in Seq(S)
      /\ Len(a \o b) = Len(a) + Len(b)
      /\ \A i \in 1 .. Len(a) + Len(b) :
           (a \o b)[i] = IF i <= Len(a) THEN a[i] ELSE b[i - Len(a)]
  BY <1>2, <1>3, ConcatProperties
<1>5. RemoveAt(q, k) = a \o b
  BY DEF RemoveAt, a, b
<1>6. ASSUME NEW i \in 1 .. Len(q) - 1
      PROVE  (a \o b)[i] = IF i < k THEN q[i] ELSE q[i + 1]
  <2>1. (a \o b)[i] = IF i <= k - 1 THEN a[i] ELSE b[i - (k - 1)]
    BY <1>1, <1>2, <1>3, <1>4
  <2>2. CASE i < k
    BY <1>1, <1>2, <2>1, <2>2
  <2>3. CASE ~(i < k)
    <3>1. i - (k - 1) \in 1 .. Len(q) - k /\ k + (i - (k - 1)) = i + 1
      BY <1>1, <2>3
    <3>2. b[i - (k - 1)] = q[i + 1]
      BY <1>3, <3>1
    <3>3. QED
      BY <1>1, <2>1, <2>3, <3>2
  <2>4. QED
    BY <2>2, <2>3
<1>7. QED
  BY <1>1, <1>2, <1>3, <1>4, <1>5, <1>6

\* Leaving the deque takes one waiter away and keeps the others in order.
LEMMA DequeueFacts ==
  ASSUME NEW W, IsFiniteSet(W), NEW s, Sound(s, W), NEW w \in Waiters(s)
  PROVE  /\ Sound(Dequeue(s, w), W)
         /\ Dequeue(s, w).value = s.value
         /\ Waiters(Dequeue(s, w)) = Waiters(s) \ {w}
         /\ Granted(Dequeue(s, w)) = Granted(s) \ {w}
         /\ Pending(Dequeue(s, w)) = Pending(s) \ {w}
<1> DEFINE k == CHOOSE i \in DOMAIN s.queue : s.queue[i] = w
           t == Dequeue(s, w)
<1>1. /\ s.queue \in Seq(W) /\ Len(s.queue) \in Nat /\ DOMAIN s.queue = 1 .. Len(s.queue)
      /\ DOMAIN s.fut = W /\ w \in W
  BY LenProperties DEF Sound, Semaphores, Waiters
<1>2. k \in DOMAIN s.queue /\ s.queue[k] = w
  BY DEF Sound, QueueMatches
<1>3. /\ t.value = s.value
      /\ t.queue = RemoveAt(s.queue, k)
      /\ t.fut = [s.fut EXCEPT ![w] = "none"]
  BY DEF Dequeue
<1> HIDE DEF k
<1>4. /\ RemoveAt(s.queue, k) \in Seq(W)
      /\ Len(RemoveAt(s.queue, k)) = Len(s.queue) - 1
      /\ \A i \in 1 .. Len(s.queue) - 1 :
           RemoveAt(s.queue, k)[i] = IF i < k THEN s.queue[i] ELSE s.queue[i + 1]
  <2>1. k \in 1 .. Len(s.queue)
    BY <1>1, <1>2
  <2>2. QED
    BY <1>1, <2>1, RemoveAtFacts
<1>5. /\ t.queue \in Seq(W) /\ DOMAIN t.queue = 1 .. Len(s.queue) - 1
      /\ \A i \in DOMAIN t.queue :
           t.queue[i] = IF i < k THEN s.queue[i] ELSE s.queue[i + 1]
  BY <1>3, <1>4, LenProperties
<1>6. t \in Semaphores(W)
  <2>1. t = [value |-> s.value, queue |-> RemoveAt(s.queue, k),
             fut |-> [s.fut EXCEPT ![w] = "none"]]
    BY DEF Dequeue, k
  <2>2. s.value \in Nat /\ [s.fut EXCEPT ![w] = "none"] \in [W -> FutureState]
    BY <1>1 DEF Sound, Semaphores, FutureState
  <2> HIDE DEF t
  <2>3. QED
    BY <1>4, <2>1, <2>2 DEF Semaphores
<1>7. /\ DOMAIN t.fut = W
      /\ \A v \in W : t.fut[v] = IF v = w THEN "none" ELSE s.fut[v]
  BY <1>1, <1>3 DEF Sound, Semaphores
<1> HIDE DEF t
<1>8. /\ Waiters(t) = Waiters(s) \ {w}
      /\ Granted(t) = Granted(s) \ {w}
      /\ Pending(t) = Pending(s) \ {w}
  BY <1>1, <1>7 DEF Waiters, Granted, Pending
<1>9. QueueMatches(t)
  <2>1. \A i, j \in DOMAIN s.queue : s.queue[i] = s.queue[j] => i = j
    BY DEF Sound, QueueMatches
  <2>2. \A i \in DOMAIN s.queue : s.queue[i] \in Waiters(s)
    BY DEF Sound, QueueMatches
  <2>3. ASSUME NEW i \in DOMAIN t.queue
        PROVE  \E j \in DOMAIN s.queue :
                 j = (IF i < k THEN i ELSE i + 1) /\ j # k /\ t.queue[i] = s.queue[j]
    BY <1>1, <1>2, <1>5
  <2>4. \A i \in DOMAIN t.queue : t.queue[i] \in Waiters(t)
    BY <1>2, <1>8, <2>1, <2>2, <2>3
  <2>5. ASSUME NEW v \in Waiters(t)
        PROVE  \E i \in DOMAIN t.queue : t.queue[i] = v
    <3>1. PICK j \in DOMAIN s.queue : s.queue[j] = v
      BY <1>8, <2>5 DEF Sound, QueueMatches
    <3>2. j # k
      BY <1>2, <1>8, <2>5, <3>1
    <3>3. CASE j < k
      <4>1. j \in DOMAIN t.queue
        BY <1>1, <1>2, <1>5, <3>3
      <4>2. QED
        BY <1>5, <3>1, <3>3, <4>1
    <3>4. CASE j > k
      <4>1. j - 1 \in DOMAIN t.queue /\ ~(j - 1 < k) /\ (j - 1) + 1 = j
        BY <1>1, <1>2, <1>5, <3>4
      <4>2. QED
        BY <1>5, <3>1, <4>1
    <3>5. QED
      BY <1>1, <1>2, <3>2, <3>3, <3>4
  <2>6. ASSUME NEW i \in DOMAIN t.queue, NEW j \in DOMAIN t.queue,
               t.queue[i] = t.queue[j]
        PROVE  i = j
    <3>1. (IF i < k THEN i ELSE i + 1) = (IF j < k THEN j ELSE j + 1)
      BY <2>1, <2>3, <2>6
    <3>2. i \in Int /\ j \in Int /\ k \in Int
      BY <1>1, <1>2, <1>5
    <3>3. QED
      BY <3>1, <3>2
  <2>7. QED
    BY <2>4, <2>5, <2>6 DEF QueueMatches
<1>10. QED
  BY <1>3, <1>6, <1>8, <1>9 DEF t, Sound

\* acquire() resuming with a slot: it is used, and a slot that became free
\* meanwhile is passed on.
LEMMA ResumeFacts ==
  ASSUME NEW W, IsFiniteSet(W), NEW s, Sound(s, W), NEW w \in Granted(s)
  PROVE  /\ Sound(Resume(s, w), W)
         /\ Waiters(Resume(s, w)) = Waiters(s) \ {w}
         /\ Unused(Resume(s, w)) = Unused(s) - 1
         /\ Attentive(Resume(s, w))
<1> DEFINE left == Dequeue(s, w)
<1>1. w \in Waiters(s)
  BY DEF Granted, Waiters
<1>2. /\ Sound(left, W) /\ left.value = s.value
      /\ Waiters(left) = Waiters(s) \ {w}
      /\ Granted(left) = Granted(s) \ {w}
  BY <1>1, DequeueFacts
<1>3. Resume(s, w) = IF left.value > 0 THEN WakeUpNext(left) ELSE left
  BY DEF Resume
<1> HIDE DEF left
<1>4. s.value \in Nat /\ IsFiniteSet(Granted(s)) /\ Cardinality(Granted(s)) \in Nat
  BY UnusedType DEF Sound, Semaphores
<1>5. Unused(left) = Unused(s) - 1
  <2>1. Cardinality(Granted(s) \ {w}) = Cardinality(Granted(s)) - 1
    BY <1>4, FS_RemoveElement
  <2>2. QED
    BY <1>2, <1>4, <2>1 DEF Unused
<1>6. CASE left.value > 0
  BY <1>2, <1>3, <1>5, <1>6, WakeUpNextFacts
<1>7. CASE ~(left.value > 0)
  BY <1>2, <1>3, <1>5, <1>7 DEF Attentive
<1>8. QED
  BY <1>6, <1>7

\* acquire() interrupted: a slot that was already granted goes back and is
\* offered to the next waiter.
LEMMA GiveUpFacts ==
  ASSUME NEW W, IsFiniteSet(W), NEW s, Sound(s, W), NEW w \in Waiters(s)
  PROVE  /\ Sound(GiveUp(s, w), W)
         /\ Waiters(GiveUp(s, w)) = Waiters(s) \ {w}
         /\ Unused(GiveUp(s, w)) = Unused(s)
         /\ Attentive(s) => Attentive(GiveUp(s, w))
<1> DEFINE left == Dequeue(s, w)
<1>1. /\ Sound(left, W) /\ left.value = s.value
      /\ Waiters(left) = Waiters(s) \ {w}
      /\ Granted(left) = Granted(s) \ {w}
      /\ Pending(left) = Pending(s) \ {w}
  BY DequeueFacts
<1>2. GiveUp(s, w) = IF s.fut[w] = "result" THEN Release(left) ELSE left
  BY DEF GiveUp
<1> HIDE DEF left
<1>3. s.value \in Nat /\ IsFiniteSet(Granted(s)) /\ Cardinality(Granted(s)) \in Nat
  BY UnusedType DEF Sound, Semaphores
<1>4. CASE s.fut[w] = "result"
  <2>1. w \in Granted(s)
    BY <1>4 DEF Granted, Waiters
  <2>2. Cardinality(Granted(s) \ {w}) = Cardinality(Granted(s)) - 1
    BY <1>3, <2>1, FS_RemoveElement
  <2>3. Unused(left) + 1 = Unused(s)
    BY <1>1, <1>3, <2>2 DEF Unused
  <2>4. QED
    BY <1>1, <1>2, <1>4, <2>3, ReleaseFacts
<1>5. CASE s.fut[w] # "result"
  <2>1. Granted(left) = Granted(s)
    BY <1>1, <1>5 DEF Granted
  <2>2. QED
    BY <1>1, <1>2, <1>5, <2>1 DEF Unused, Attentive
<1>6. QED
  BY <1>4, <1>5

\* Cancelling waiting tasks moves no slot and nobody in the deque.
LEMMA CancelFuturesFacts ==
  ASSUME NEW W, IsFiniteSet(W), NEW s, Sound(s, W), NEW C
  PROVE  /\ Sound(CancelFutures(s, C), W)
         /\ Waiters(CancelFutures(s, C)) = Waiters(s)
         /\ Unused(CancelFutures(s, C)) = Unused(s)
         /\ Attentive(s) => Attentive(CancelFutures(s, C))
<1> DEFINE t == CancelFutures(s, C)
<1>1. /\ t \in Semaphores(W) /\ t.value = s.value /\ t.queue = s.queue
      /\ DOMAIN t.fut = W /\ DOMAIN s.fut = W
      /\ \A v \in W : t.fut[v] =
           IF v \in C /\ s.fut[v] = "pending" THEN "cancelled" ELSE s.fut[v]
  BY DEF CancelFutures, Sound, Semaphores, FutureState
<1> HIDE DEF t
<1>2. /\ Waiters(t) = Waiters(s)
      /\ Granted(t) = Granted(s)
      /\ Pending(t) \subseteq Pending(s)
  BY <1>1 DEF Waiters, Granted, Pending
<1>3. Sound(t, W)
  BY <1>1, <1>2 DEF Sound, QueueMatches
<1>4. QED
  BY <1>1, <1>2, <1>3 DEF t, Unused, Attentive

\* A new semaphore has all its slots free and nobody waiting.
LEMMA NewSemaphoreFacts ==
  ASSUME NEW W, IsFiniteSet(W), NEW n \in Nat
  PROVE  /\ Sound(NewSemaphore(n, W), W)
         /\ Waiters(NewSemaphore(n, W)) = {}
         /\ Unused(NewSemaphore(n, W)) = n
         /\ Attentive(NewSemaphore(n, W))
<1> DEFINE t == NewSemaphore(n, W)
<1>1. /\ t \in Semaphores(W) /\ t.value = n /\ t.queue = <<>>
      /\ DOMAIN t.fut = W /\ \A v \in W : t.fut[v] = "none"
  BY EmptySeq DEF NewSemaphore, Semaphores, FutureState
<1> HIDE DEF t
<1>2. Waiters(t) = {} /\ Granted(t) = {} /\ Pending(t) = {}
  BY <1>1 DEF Waiters, Granted, Pending
<1>3. DOMAIN t.queue = {}
  BY <1>1, LenProperties, EmptySeq
<1>4. Sound(t, W)
  BY <1>1, <1>2, <1>3 DEF Sound, QueueMatches
<1>5. Unused(t) = n
  BY <1>1, <1>2, FS_EmptySet DEF Unused
<1>6. QED
  BY <1>2, <1>4, <1>5 DEF t, Attentive
====
