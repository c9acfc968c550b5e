---- MODULE RateLimiterProofs ----
(*****************************************************************************)
(* Theorems about module RateLimiter, for any threads and keys, any burst,   *)
(* refill rate and token size: its types, that a key with one client is      *)
(* never over-admitted and is served as module TokenBucket says, that        *)
(* Retry-After is honest, and that refusals are counted.                     *)
(*                                                                           *)
(* It also shows that threads and processes that create or upgrade the table *)
(* at the same time do not make a request fail later.                        *)
(*                                                                           *)
(* Two of them need a strengthening.  Of a key with one client, the bucket   *)
(* pays for every admission (Paid), and the row that client's request works  *)
(* on is still the committed one, no younger than the request (Current).  A  *)
(* row that was written with a refusal holds a token when the client was     *)
(* told to come back (Promised), and that is the row it finds (Returned).    *)
(*****************************************************************************)
EXTENDS RateLimiterBucket, FiniteSetTheorems, TLAPS

\* Amounts of naturals multiply to naturals, and a longer time refills more.
LEMMA Products ==
  /\ \A m, n \in Nat : m * n \in Nat
  /\ \A m, n, p \in Nat : m <= n => p * m <= p * n
  /\ \A m, n, p \in Nat : p * m + n * p = p * (m + n)
BY SMT

\* A level is between nothing and the burst, whatever row it is computed from.
LEMMA RefilledType ==
  ASSUME NEW row \in {NoRow} \cup OldRows \cup Rows, NEW t \in Nat
  PROVE  Refilled(row, t) \in 0 .. Burst
<1>1. CASE row.burst # Burst
  BY <1>1, AmountsAssumption DEF Refilled
<1>2. CASE row.burst = Burst
  <2>1. row.tokens \in Nat /\ row.lastRefill \in Nat
    BY <1>2, AmountsAssumption, BoundsAssumption DEF NoRow, OldRows, Rows
  <2>2. GreaterOf(0, t - row.lastRefill) \in Nat
    BY <2>1 DEF GreaterOf
  <2>3. GreaterOf(0, t - row.lastRefill) * Refill \in Nat
    BY <2>2, AmountsAssumption, Products
  <2>4. QED
    BY <1>2, <2>1, <2>3, AmountsAssumption DEF Refilled, LesserOf
<1>3. QED
  BY <1>1, <1>2

\* The row a request stores is a row of this process.
LEMMA NewRowType ==
  ASSUME TypeOK, NEW t \in Threads
  PROVE  /\ Level(t) \in 0 .. Burst
         /\ NewRow(t) \in Rows
<1>1. /\ seen[t] \in {NoRow} \cup OldRows \cup Rows
      /\ now[t] \in 0 .. MaxClock /\ now[t] \in Nat
  BY BoundsAssumption DEF TypeOK
<1>2. Level(t) \in 0 .. Burst
  BY <1>1, RefilledType DEF Level
<1>3. (IF Allowed(t) THEN Level(t) - Unit ELSE Level(t)) \in 0 .. Burst
  BY <1>2, AmountsAssumption DEF Allowed
<1>4. QED
  BY <1>1, <1>2, <1>3 DEF NewRow, Rows

\* A refused client is told to come back at a moment, or after the end.
LEMMA DueType ==
  ASSUME TypeOK, NEW t \in Threads, ~Allowed(t)
  PROVE  LesserOf(NotDue, clock + RetryAfter(Level(t)) * TicksPerSecond)
           \in 0 .. NotDue
<1>1. Level(t) \in Int /\ clock \in Nat /\ NotDue \in Nat
  BY NewRowType, BoundsAssumption DEF TypeOK, NotDue
<1>2. RetryAfter(Level(t)) \in Nat
  <2>1. Refill * TicksPerSecond \in Nat \ {0}
    BY AmountsAssumption, SMT
  <2> DEFINE seconds == (Unit - Level(t) + Refill * TicksPerSecond - 1)
                           \div (Refill * TicksPerSecond)
  <2>2. Unit - Level(t) + Refill * TicksPerSecond - 1 \in Int
    BY <1>1, <2>1, AmountsAssumption
  <2>3. seconds \in Int
    BY <2>1, <2>2
  <2>4. RetryAfter(Level(t)) = GreaterOf(1, seconds)
    BY DEF RetryAfter
  <2> HIDE DEF seconds
  <2>5. QED
    BY <2>3, <2>4 DEF GreaterOf
<1>3. RetryAfter(Level(t)) * TicksPerSecond \in Nat
  BY <1>2, AmountsAssumption, Products
<1>4. QED
  BY <1>1, <1>3 DEF LesserOf

-----------------------------------------------------------------------------
(* The inductive invariant. *)

\* The admissions of key k, and what its bucket still holds, were paid for by
\* the first full bucket and the refills up to the row's time stamp.
Paid(k) ==
  /\ Unit * admitted[k] + StoredLevel(k) <= Burst + Refill * StoredAt(k)
  /\ StoredAt(k) <= clock

\* The request of thread t has calls left and an honest time stamp; of a key
\* with one client, the row it works on is the committed one.
Current(t) ==
  /\ pc[t] # "idle" =>
       /\ calls[t] < MaxCalls
       /\ now[t] <= clock
       /\ Alone(KeyOf[t]) => StoredAt(KeyOf[t]) <= now[t]
  /\ pc[t] \in {"selected", "upserted"} /\ Alone(KeyOf[t]) =>
       seen[t] = bucket[KeyOf[t]]

Inv ==
  /\ TypeOK
  /\ \A k \in Keys : Alone(k) => Paid(k)
  /\ \A t \in Threads : Current(t)

\* What the committed row of a key says is typed.
LEMMA StoredType ==
  ASSUME TypeOK, NEW k \in Keys
  PROVE  StoredLevel(k) \in 0 .. Burst /\ StoredAt(k) \in Nat
<1>1. bucket[k] \in {NoRow} \cup OldRows \cup Rows
  BY DEF TypeOK
<1>2. QED
  BY <1>1, AmountsAssumption, BoundsAssumption
     DEF StoredLevel, StoredAt, NoRow, OldRows, Rows

\* The level a request computes from the committed row is paid for at the time
\* the request was stamped.
LEMMA LevelPaid ==
  ASSUME TypeOK, NEW t \in Threads, Paid(KeyOf[t]),
         seen[t] = bucket[KeyOf[t]], StoredAt(KeyOf[t]) <= now[t]
  PROVE  Unit * admitted[KeyOf[t]] + Level(t) <= Burst + Refill * now[t]
<1> DEFINE k == KeyOf[t]
           spent == Unit * admitted[k]
<1>1. /\ k \in Keys /\ now[t] \in Nat /\ StoredAt(k) \in Nat
      /\ StoredLevel(k) \in 0 .. Burst /\ Level(t) \in 0 .. Burst
  BY KeyOfAssumption, BoundsAssumption, StoredType, NewRowType DEF TypeOK
<1>2. spent \in Nat
  BY <1>1, AmountsAssumption, Products DEF TypeOK
<1>3. spent + StoredLevel(k) <= Burst + Refill * StoredAt(k)
  BY DEF Paid
<1>4. Level(t) = Refilled(bucket[k], now[t])
  BY DEF Level
<1>5. StoredAt(k) <= now[t]
  OBVIOUS
<1>6. Refill * StoredAt(k) \in Nat /\ Refill * now[t] \in Nat
  BY <1>1, AmountsAssumption, Products
<1> HIDE DEF spent, k
<1>7. CASE bucket[k].burst # Burst
  <2>1. Level(t) = Burst /\ StoredLevel(k) = Burst
    BY <1>4, <1>7 DEF Refilled, StoredLevel
  <2>2. Refill * StoredAt(k) <= Refill * now[t]
    BY <1>1, <1>5, AmountsAssumption, Products
  <2>3. QED
    BY <1>1, <1>2, <1>3, <1>6, <2>1, <2>2, AmountsAssumption DEF spent, k
<1>8. CASE bucket[k].burst = Burst
  <2>1. /\ StoredLevel(k) = bucket[k].tokens
        /\ StoredAt(k) = bucket[k].lastRefill
    BY <1>8 DEF StoredLevel, StoredAt
  <2> DEFINE passed == now[t] - StoredAt(k)
  <2>2. passed \in Nat /\ now[t] = StoredAt(k) + passed
    BY <1>1, <1>5
  <2>3. GreaterOf(0, now[t] - bucket[k].lastRefill) = passed
    BY <2>1, <2>2 DEF GreaterOf
  <2>4. Level(t) = LesserOf(Burst, StoredLevel(k) + passed * Refill)
    BY <1>4, <1>8, <2>1, <2>3 DEF Refilled
  <2> HIDE DEF passed
  <2>5. passed * Refill \in Nat
    BY <2>2, AmountsAssumption, Products
  <2>6. Level(t) <= StoredLevel(k) + passed * Refill
    BY <1>1, <2>4, <2>5, AmountsAssumption DEF LesserOf
  <2>7. Refill * StoredAt(k) + passed * Refill = Refill * now[t]
    BY <1>1, <2>2, AmountsAssumption, Products
  <2>8. QED
    BY <1>1, <1>2, <1>3, <1>6, <2>5, <2>6, <2>7, AmountsAssumption DEF spent, k
<1>9. QED
  BY <1>7, <1>8

LEMMA InitInv == Init => Inv
<1> SUFFICES ASSUME Init PROVE Inv
  OBVIOUS
<1>1. TypeOK
  <2>1. NotDue \in 0 .. NotDue
    BY BoundsAssumption DEF NotDue
  <2>2. NoRow \in {NoRow} \cup OldRows \cup Rows
    OBVIOUS
  <2>3. bucket \in [Keys -> {NoRow} \cup OldRows \cup Rows]
    BY DEF Init
  <2>4. /\ 0 \in 0 .. MaxClock /\ 0 \in 0 .. MaxCalls
    BY BoundsAssumption
  <2>5. QED
    BY <2>1, <2>2, <2>3, <2>4 DEF Init, TypeOK
<1>2. ASSUME NEW k \in Keys PROVE Paid(k)
  <2>1. admitted[k] = 0 /\ clock = 0
    BY DEF Init
  <2>2. bucket[k] \in {NoRow} \cup OldRows
    BY DEF Init
  <2>3. StoredAt(k) = 0 /\ StoredLevel(k) \in 0 .. Burst
    BY <1>1, <2>2, StoredType DEF StoredAt, NoRow, OldRows
  <2>4. Unit * 0 = 0 /\ Refill * 0 = 0
    BY AmountsAssumption
  <2>5. QED
    BY <2>1, <2>3, <2>4, AmountsAssumption DEF Paid
<1>3. \A t \in Threads : Current(t)
  BY DEF Init, Current
<1>4. QED
  BY <1>1, <1>2, <1>3 DEF Inv

\* A step that commits nothing leaves what is paid alone.
LEMMA StillPaid ==
  ASSUME Inv, UNCHANGED <<bucket, admitted>>, clock' \in Nat, clock <= clock'
  PROVE  \A k \in Keys : Alone(k) => Paid(k)'
<1>1. \A k \in Keys : /\ StoredLevel(k)' = StoredLevel(k)
                      /\ StoredAt(k)' = StoredAt(k)
                      /\ StoredAt(k) \in Nat
  BY StoredType DEF Inv, StoredLevel, StoredAt
<1>2. clock \in Nat
  BY BoundsAssumption DEF Inv, TypeOK
<1>3. QED
  BY <1>1, <1>2 DEF Inv, Paid

\* The end of a request, whatever its outcome, restores its locals.
LEMMA AnsweredType ==
  ASSUME Inv, NEW t \in Threads, pc[t] # "idle", Answered(t)
  PROVE  /\ writer' \in Threads \cup {NoThread}
         /\ pc' \in [Threads -> Upgrading \cup {"idle", "stamped", "unready", "selected",
                                            "upserted"}]
         /\ now' \in [Threads -> 0 .. MaxClock]
         /\ seen' \in [Threads -> {NoRow} \cup OldRows \cup Rows]
         /\ calls' \in [Threads -> 0 .. MaxCalls]
BY BoundsAssumption DEF Inv, Current, TypeOK, Answered, Over

-----------------------------------------------------------------------------
(* Each action preserves it. *)

LEMMA TickInv ==
  ASSUME Inv, Tick
  PROVE  Inv'
<1>1. TypeOK'
  BY BoundsAssumption DEF Inv, Tick, TypeOK, schema
<1>2. clock \in Nat /\ clock' \in Nat /\ clock <= clock'
  BY BoundsAssumption DEF Inv, Tick, TypeOK
<1>3. \A k \in Keys : Alone(k) => Paid(k)'
  BY <1>2, StillPaid DEF Tick
<1>4. ASSUME NEW t \in Threads PROVE Current(t)'
  <2>1. Current(t) /\ now[t] \in Nat
    BY BoundsAssumption DEF Inv, TypeOK
  <2>2. QED
    BY <1>2, <2>1 DEF Tick, Current, StoredAt
<1>5. QED
  BY <1>1, <1>3, <1>4 DEF Inv, Alone

\* The clock is read: no committed row of a key with one client is younger.
LEMMA ReadClockInv ==
  ASSUME Inv, NEW t \in Threads, ReadClock(t)
  PROVE  Inv'
<1>1. TypeOK'
  BY DEF Inv, ReadClock, TypeOK, schema
<1>2. clock' \in Nat /\ clock <= clock'
  BY BoundsAssumption DEF Inv, ReadClock, TypeOK
<1>3. \A k \in Keys : Alone(k) => Paid(k)'
  BY <1>2, StillPaid DEF ReadClock
<1>4. ASSUME NEW u \in Threads PROVE Current(u)'
  <2>1. Current(u) /\ KeyOf[u] \in Keys
    BY KeyOfAssumption DEF Inv
  <2>2. StoredAt(KeyOf[u])' = StoredAt(KeyOf[u])
    BY DEF ReadClock, StoredAt
  <2>3. CASE u = t
    <3>1. pc'[t] = "stamped" /\ now'[t] = clock /\ clock' = clock
      BY DEF Inv, TypeOK, ReadClock
    <3>2. calls'[t] < MaxCalls
      BY DEF ReadClock
    <3>3. Alone(KeyOf[t]) => StoredAt(KeyOf[t]) <= clock
      BY <2>1, <2>3 DEF Inv, Paid
    <3>4. clock <= clock
      BY <1>2 DEF ReadClock
    <3>5. QED
      BY <2>2, <2>3, <3>1, <3>2, <3>3, <3>4 DEF Current
  <2>4. CASE u # t
    BY <2>1, <2>2, <2>4 DEF ReadClock, Current, Inv, TypeOK
  <2>5. QED
    BY <2>3, <2>4
<1>5. QED
  BY <1>1, <1>3, <1>4 DEF Inv, Alone

\* The SELECT returns the committed row.
LEMMA SelectInv ==
  ASSUME Inv, NEW t \in Threads, Select(t)
  PROVE  Inv'
<1>1. TypeOK'
  BY KeyOfAssumption DEF Inv, Select, TypeOK, schema
<1>2. clock \in Nat /\ clock' \in Nat /\ clock <= clock'
  BY BoundsAssumption DEF Inv, Select, TypeOK
<1>3. \A k \in Keys : Alone(k) => Paid(k)'
  BY <1>2, StillPaid DEF Select
<1>4. ASSUME NEW u \in Threads PROVE Current(u)'
  <2>1. Current(u)
    BY DEF Inv
  <2>2. StoredAt(KeyOf[u])' = StoredAt(KeyOf[u])
    BY DEF Select, StoredAt
  <2>3. QED
    BY <2>1, <2>2 DEF Select, Current, Inv, TypeOK
<1>5. QED
  BY <1>1, <1>3, <1>4 DEF Inv, Alone

\* The upsert takes the lock and commits nothing.
LEMMA UpsertInv ==
  ASSUME Inv, NEW t \in Threads, Upsert(t)
  PROVE  Inv'
<1>1. TypeOK'
  BY DEF Inv, Upsert, TypeOK, schema
<1>2. clock' \in Nat /\ clock <= clock'
  BY BoundsAssumption DEF Inv, Upsert, TypeOK
<1>3. \A k \in Keys : Alone(k) => Paid(k)'
  BY <1>2, StillPaid DEF Upsert
<1>4. ASSUME NEW u \in Threads PROVE Current(u)'
  <2>1. Current(u)
    BY DEF Inv
  <2>2. StoredAt(KeyOf[u])' = StoredAt(KeyOf[u])
    BY DEF Upsert, StoredAt
  <2>3. QED
    BY <2>1, <2>2 DEF Upsert, Current, Inv, TypeOK
<1>5. QED
  BY <1>1, <1>3, <1>4 DEF Inv, Alone

\* Creating or upgrading the table touches no row, clock or time stamp.
LEMMA SchemaStepInv ==
  ASSUME Inv,
         \/ OtherProcess
         \/ \E t \in Threads : \/ FindUnready(t) \/ TakeSchemaLock(t)
                               \/ CreateTable(t) \/ FindColumn(t)
                               \/ FindNoColumn(t) \/ AddColumn(t)
  PROVE  Inv'
<1>1. /\ UNCHANGED <<clock, bucket, writer, now, seen, rejections, calls, admitted,
                      denied, due>>
      /\ table' \in {"absent", "old", "new"} /\ ready' \in BOOLEAN
      /\ schemaLock' \in Threads \cup {NoThread}
  BY DEF OtherProcess, FindUnready, TakeSchemaLock, CreateTable, FindColumn,
         FindNoColumn, AddColumn, MadeReady, schema, Inv, TypeOK
<1>2. /\ pc' \in [Threads -> Upgrading \cup {"idle", "stamped", "unready", "selected",
                                            "upserted"}]
      /\ \A u \in Threads : \/ pc'[u] = pc[u]
                            \/ pc[u] # "idle" /\ pc'[u] \notin {"selected", "upserted"}
  BY DEF OtherProcess, FindUnready, TakeSchemaLock, CreateTable, FindColumn,
         FindNoColumn, AddColumn, MadeReady, Inv, TypeOK, Upgrading
<1>3. TypeOK'
  BY <1>1, <1>2 DEF Inv, TypeOK
<1>4. clock' \in Nat /\ clock <= clock'
  BY <1>1, BoundsAssumption DEF Inv, TypeOK
<1>5. \A k \in Keys : Alone(k) => Paid(k)'
  BY <1>1, <1>4, StillPaid
<1>6. ASSUME NEW u \in Threads PROVE Current(u)'
  <2>1. Current(u)
    BY DEF Inv
  <2>2. StoredAt(KeyOf[u])' = StoredAt(KeyOf[u])
    BY <1>1 DEF StoredAt
  <2>3. QED
    BY <1>1, <1>2, <2>1, <2>2 DEF Current
<1>7. QED
  BY <1>3, <1>5, <1>6 DEF Inv, Alone

\* A request that fails answers a 500 and commits nothing.
LEMMA FailureInv ==
  ASSUME Inv, NEW t \in Threads, Busy(t) \/ CommitFails(t) \/ SchemaFails(t)
  PROVE  Inv'
<1>1. /\ pc[t] # "idle"
      /\ table' = table /\ ready' = ready
      /\ schemaLock' \in {schemaLock, NoThread}
      /\ pc' = [pc EXCEPT ![t] = "idle"]
      /\ seen' = [seen EXCEPT ![t] = NoRow]
      /\ now' = [now EXCEPT ![t] = 0]
      /\ calls' = [calls EXCEPT ![t] = @ + 1]
      /\ writer' \in {writer, NoThread}
      /\ UNCHANGED <<clock, bucket, rejections, admitted, denied, due>>
  BY DEF Busy, CommitFails, SchemaFails, Answered, Over, schema, Upgrading
<1>2. TypeOK'
  BY <1>1, BoundsAssumption DEF Inv, Current, TypeOK
<1>3. clock' \in Nat /\ clock <= clock'
  BY <1>1, BoundsAssumption DEF Inv, TypeOK
<1>4. \A k \in Keys : Alone(k) => Paid(k)'
  BY <1>1, <1>3, StillPaid
<1>5. ASSUME NEW u \in Threads PROVE Current(u)'
  <2>1. Current(u)
    BY DEF Inv
  <2>2. StoredAt(KeyOf[u])' = StoredAt(KeyOf[u])
    BY <1>1 DEF StoredAt
  <2>3. QED
    BY <1>1, <2>1, <2>2 DEF Current, Inv, TypeOK
<1>6. QED
  BY <1>2, <1>4, <1>5 DEF Inv, Alone

\* The commit stores a row that is paid for, of a key with one client.
LEMMA CommitInv ==
  ASSUME Inv, NEW t \in Threads, Admit(t) \/ Deny(t)
  PROVE  Inv'
<1> DEFINE k == KeyOf[t]
<1>1. /\ pc[t] = "upserted" /\ k \in Keys
      /\ bucket' = [bucket EXCEPT ![k] = NewRow(t)]
      /\ Answered(t) /\ Over(t) /\ clock' = clock /\ UNCHANGED schema
      /\ admitted' = [admitted EXCEPT ![k] = IF Allowed(t) THEN @ + 1 ELSE @]
  BY KeyOfAssumption DEF Admit, Deny, Answered, Inv, TypeOK
<1> HIDE DEF k
<1>2. NewRow(t) \in Rows /\ Level(t) \in 0 .. Burst
  BY NewRowType DEF Inv
<1>3. TypeOK'
  <2>1. /\ writer' \in Threads \cup {NoThread}
        /\ pc' \in [Threads -> Upgrading \cup {"idle", "stamped", "unready", "selected",
                                            "upserted"}]
        /\ now' \in [Threads -> 0 .. MaxClock]
        /\ seen' \in [Threads -> {NoRow} \cup OldRows \cup Rows]
        /\ calls' \in [Threads -> 0 .. MaxCalls]
    BY <1>1, AnsweredType
  <2>2. /\ bucket' \in [Keys -> {NoRow} \cup OldRows \cup Rows]
        /\ admitted' \in [Keys -> Nat]
        /\ clock' \in 0 .. MaxClock
        /\ table' \in {"absent", "old", "new"} /\ ready' \in BOOLEAN
        /\ schemaLock' \in Threads \cup {NoThread}
    BY <1>1, <1>2 DEF Inv, TypeOK, schema
  <2>3. CASE Admit(t)
    <3>1. due' \in [Keys -> 0 .. NotDue]
      <4>1. NotDue \in 0 .. NotDue
        BY BoundsAssumption DEF NotDue
      <4>2. QED
        BY <2>3, <4>1 DEF Admit, Inv, TypeOK
    <3>2. QED
      BY <2>1, <2>2, <2>3, <3>1 DEF Admit, Inv, TypeOK
  <2>4. CASE Deny(t)
    <3>1. due' \in [Keys -> 0 .. NotDue]
      <4>1. LesserOf(NotDue, clock + RetryAfter(Level(t)) * TicksPerSecond)
              \in 0 .. NotDue
        BY <2>4, DueType DEF Deny, Inv
      <4>2. QED
        BY <2>4, <4>1 DEF Deny, Inv, TypeOK
    <3>2. QED
      BY <2>1, <2>2, <2>4, <3>1 DEF Deny, Inv, TypeOK
  <2>5. QED
    BY <2>3, <2>4
<1>4. /\ StoredLevel(k)' = (IF Allowed(t) THEN Level(t) - Unit ELSE Level(t))
      /\ StoredAt(k)' = now[t]
      /\ \A j \in Keys \ {k} : /\ StoredLevel(j)' = StoredLevel(j)
                               /\ StoredAt(j)' = StoredAt(j)
                               /\ admitted'[j] = admitted[j]
  BY <1>1 DEF StoredLevel, StoredAt, NewRow, Inv, TypeOK
<1>5. ASSUME NEW j \in Keys, Alone(j) PROVE Paid(j)'
  <2>1. CASE j # k
    BY <1>1, <1>4, <1>5, <2>1 DEF Inv, Paid
  <2>2. CASE j = k
    <3>1. Paid(KeyOf[t]) /\ seen[t] = bucket[KeyOf[t]] /\ StoredAt(KeyOf[t]) <= now[t]
      BY <1>1, <1>5, <2>2 DEF Inv, Current, k
    <3>2. Unit * admitted[k] + Level(t) <= Burst + Refill * now[t]
      BY <3>1, LevelPaid DEF Inv, k
    <3>3. /\ admitted[k] \in Nat /\ now[t] \in Nat /\ now[t] <= clock
          /\ Unit * admitted[k] \in Nat /\ Refill * now[t] \in Nat
      BY <1>1, BoundsAssumption, AmountsAssumption, Products DEF Inv, TypeOK, Current
    <3>4. Unit * (admitted[k] + 1) = Unit * admitted[k] + Unit
      BY <3>3, AmountsAssumption
    <3>5. Unit * admitted'[k] + StoredLevel(k)' <= Burst + Refill * StoredAt(k)'
      <4>1. CASE Allowed(t)
        <5>1. admitted'[k] = admitted[k] + 1 /\ StoredLevel(k)' = Level(t) - Unit
          BY <1>1, <1>4, <4>1 DEF Inv, TypeOK
        <5>2. QED
          BY <1>2, <1>4, <3>2, <3>3, <3>4, <5>1, AmountsAssumption
      <4>2. CASE ~Allowed(t)
        <5>1. admitted'[k] = admitted[k] /\ StoredLevel(k)' = Level(t)
          BY <1>1, <1>4, <4>2 DEF Inv, TypeOK
        <5>2. QED
          BY <1>4, <3>2, <5>1
      <4>3. QED
        BY <4>1, <4>2
    <3>6. QED
      BY <1>1, <1>4, <2>2, <3>3, <3>5 DEF Paid
  <2>3. QED
    BY <2>1, <2>2
<1>6. ASSUME NEW u \in Threads PROVE Current(u)'
  <2>1. Current(u)
    BY DEF Inv
  <2>2. CASE u = t
    BY <1>1, <2>2 DEF Over, Current, Inv, TypeOK
  <2>3. CASE u # t
    <3>1. /\ pc'[u] = pc[u] /\ now'[u] = now[u] /\ calls'[u] = calls[u]
          /\ seen'[u] = seen[u]
      BY <1>1, <2>3 DEF Over, Inv, TypeOK
    <3>2. Alone(KeyOf[u]) => KeyOf[u] # k
      BY <2>3 DEF Alone, k
    <3>3. KeyOf[u] \in Keys
      BY KeyOfAssumption
    <3>4. Alone(KeyOf[u]) => /\ StoredAt(KeyOf[u])' = StoredAt(KeyOf[u])
                             /\ bucket'[KeyOf[u]] = bucket[KeyOf[u]]
      BY <1>1, <1>4, <3>2, <3>3 DEF Inv, TypeOK
    <3>5. QED
      BY <1>1, <2>1, <3>1, <3>4 DEF Current
  <2>4. QED
    BY <2>2, <2>3
<1>7. QED
  BY <1>3, <1>5, <1>6 DEF Inv, Alone

-----------------------------------------------------------------------------

\* Inv is inductive.
LEMMA NextInv == Inv /\ [Next]_vars => Inv'
<1> SUFFICES ASSUME Inv, [Next]_vars PROVE Inv'
  OBVIOUS
<1>1. CASE UNCHANGED vars
  <2>1. TypeOK'
    BY <1>1 DEF vars, schema, Inv, TypeOK
  <2>2. clock' \in Nat /\ clock <= clock'
    BY <1>1, BoundsAssumption DEF vars, Inv, TypeOK
  <2>3. \A k \in Keys : Alone(k) => Paid(k)'
    BY <1>1, <2>2, StillPaid DEF vars
  <2>4. \A t \in Threads : Current(t)'
    BY <1>1 DEF vars, Inv, Current, StoredAt
  <2>5. QED
    BY <2>1, <2>3, <2>4 DEF Inv, Alone
<1>2. CASE Tick
  BY <1>2, TickInv
<1>3. ASSUME NEW t \in Threads, Step(t) PROVE Inv'
  BY <1>3, ReadClockInv, SchemaStepInv, SelectInv, UpsertInv, FailureInv, CommitInv DEF Step
<1>4. QED
  BY <1>1, <1>2, <1>3, SchemaStepInv DEF Next, Idle

\* The state is typed: in particular every stored level is between nothing and
\* the burst, for any burst, rate and token size.
THEOREM TypeInvariant == Spec => []TypeOK
<1>1. Inv => TypeOK
  BY DEF Inv
<1>2. QED
  BY <1>1, InitInv, NextInv, PTL DEF Spec

\* A key with one client is never over-admitted, for any number of other keys
\* and threads, and whatever requests fail.
THEOREM AloneNotOverAdmitted == Spec => []NoOverAdmissionAlone
<1>1. Inv => NoOverAdmissionAlone
  <2> SUFFICES ASSUME Inv, NEW k \in Keys, Alone(k)
               PROVE  Unit * admitted[k] <= Burst + Refill * clock
    BY DEF NoOverAdmissionAlone
  <2>1. Paid(k) /\ admitted[k] \in Nat /\ clock \in Nat
    BY BoundsAssumption DEF Inv, TypeOK
  <2>2. StoredLevel(k) \in 0 .. Burst /\ StoredAt(k) \in Nat
    BY StoredType DEF Inv
  <2>3. Refill * StoredAt(k) <= Refill * clock
    BY <2>1, <2>2, AmountsAssumption, Products DEF Paid
  <2>4. /\ Unit * admitted[k] \in Nat
        /\ Refill * StoredAt(k) \in Nat /\ Refill * clock \in Nat
    BY <2>1, <2>2, AmountsAssumption, Products
  <2>5. QED
    BY <2>1, <2>2, <2>3, <2>4, AmountsAssumption DEF Paid
<1>2. QED
  BY <1>1, InitInv, NextInv, PTL DEF Spec

-----------------------------------------------------------------------------
(* The count of refusals. *)

\* The step of a request changes only that request's part of Refusing.
LEMMA RefusingOfOthers ==
  ASSUME Inv, NEW t \in Threads, Step(t)
  PROVE  /\ Refusing' \ {t} = Refusing \ {t}
         /\ t \in Refusing => pc'[t] = "idle"
<1>1. ASSUME NEW u \in Threads, u # t
      PROVE  pc'[u] = pc[u] /\ seen'[u] = seen[u] /\ now'[u] = now[u]
  BY <1>1 DEF Step, ReadClock, FindUnready, TakeSchemaLock, CreateTable, FindColumn,
              FindNoColumn, AddColumn, MadeReady, SchemaFails, Select, Upsert, Busy,
              Admit, Deny, CommitFails, Answered, Over, Inv, TypeOK
<1>2. ASSUME NEW u \in Threads, u # t PROVE u \in Refusing' <=> u \in Refusing
  BY <1>1, <1>2 DEF Refusing, Allowed, Level
<1>3. ASSUME t \in Refusing PROVE pc'[t] = "idle"
  <2>1. pc[t] = "upserted"
    BY <1>3 DEF Refusing
  <2>2. Admit(t) \/ Deny(t) \/ CommitFails(t)
    BY <2>1 DEF Step, ReadClock, FindUnready, TakeSchemaLock, CreateTable, FindColumn,
                FindNoColumn, AddColumn, SchemaFails, Upgrading, Select, Upsert, Busy
  <2>3. QED
    BY <2>2 DEF Admit, Deny, CommitFails, Answered, Over, Inv, TypeOK
<1>4. Refusing \subseteq Threads /\ Refusing' \subseteq Threads
  BY DEF Refusing
<1>5. QED
  BY <1>2, <1>3, <1>4

LEMMA InitRejections == Init => RejectionsCoverAnswers
<1> SUFFICES ASSUME Init PROVE RejectionsCoverAnswers
  OBVIOUS
<1>1. Refusing = {}
  BY DEF Init, Refusing
<1>2. QED
  BY <1>1, FS_EmptySet DEF Init, RejectionsCoverAnswers

LEMMA NextRejections ==
  ASSUME Inv, Inv', RejectionsCoverAnswers, [Next]_vars
  PROVE  RejectionsCoverAnswers'
<1>1. /\ IsFiniteSet(Refusing) /\ Cardinality(Refusing) \in Nat
      /\ IsFiniteSet(Refusing') /\ Cardinality(Refusing') \in Nat
  BY ThreadsAssumption, FS_Subset, FS_CardinalityType DEF Refusing
<1>2. denied \in Nat /\ rejections \in Nat
  BY DEF Inv, TypeOK
<1>3. CASE Tick \/ OtherProcess \/ Idle \/ UNCHANGED vars
  <2>1. UNCHANGED <<pc, seen, now, denied, rejections>>
    BY <1>3 DEF Tick, OtherProcess, Idle, vars
  <2>2. Refusing' = Refusing
    BY <2>1 DEF Refusing, Allowed, Level
  <2>3. QED
    BY <2>1, <2>2 DEF RejectionsCoverAnswers
<1>4. ASSUME NEW t \in Threads, Step(t) PROVE RejectionsCoverAnswers'
  <2>1. Refusing' \ {t} = Refusing \ {t} /\ (t \in Refusing => pc'[t] = "idle")
    BY <1>4, RefusingOfOthers
  <2>2. CASE t \in Refusing /\ Deny(t)
    <3>1. Refusing' = Refusing \ {t}
      BY <2>1, <2>2 DEF Refusing
    <3>2. Cardinality(Refusing') = Cardinality(Refusing) - 1
      BY <1>1, <2>2, <3>1, FS_RemoveElement
    <3>3. denied' = denied + 1 /\ rejections' = rejections
      BY <2>2 DEF Deny
    <3>4. QED
      BY <1>1, <1>2, <3>2, <3>3 DEF RejectionsCoverAnswers
  <2>3. CASE t \notin Refusing /\ Upsert(t) /\ ~Allowed(t)
    <3>1. Refusing' \subseteq Refusing \cup {t}
      BY <2>1
    <3>2. Cardinality(Refusing') <= Cardinality(Refusing) + 1
      <4>1. /\ IsFiniteSet(Refusing \cup {t})
            /\ Cardinality(Refusing \cup {t}) = Cardinality(Refusing) + 1
        BY <1>1, <2>3, FS_AddElement
      <4>2. Cardinality(Refusing') <= Cardinality(Refusing \cup {t})
        BY <3>1, <4>1, FS_Subset
      <4>3. QED
        BY <4>1, <4>2
    <3>3. denied' = denied /\ rejections' = rejections + 1
      BY <2>3 DEF Upsert
    <3>4. QED
      BY <1>1, <1>2, <3>2, <3>3 DEF RejectionsCoverAnswers
  <2>4. CASE ~(t \in Refusing /\ Deny(t))
             /\ ~(t \notin Refusing /\ Upsert(t) /\ ~Allowed(t))
    <3>1. ~Deny(t)
      BY <2>4 DEF Deny, Refusing
    <3>2. ~(Upsert(t) /\ ~Allowed(t))
      BY <2>4 DEF Upsert, Refusing
    <3>3. denied' = denied /\ rejections' = rejections
      BY <1>4, <3>1, <3>2
         DEF Step, ReadClock, FindUnready, TakeSchemaLock, CreateTable, FindColumn,
             FindNoColumn, AddColumn, MadeReady, SchemaFails, Select, Upsert, Busy,
             Admit, CommitFails
    <3>4. t \notin Refusing'
      <4>1. CASE Upsert(t)
        <5>1. seen'[t] = seen[t] /\ now'[t] = now[t] /\ Allowed(t)
          BY <3>2, <4>1 DEF Upsert
        <5>2. QED
          BY <5>1 DEF Refusing, Allowed, Level
      <4>2. CASE ~Upsert(t)
        <5>1. pc'[t] # "upserted"
          BY <1>4, <4>2
             DEF Step, ReadClock, FindUnready, TakeSchemaLock, CreateTable, FindColumn,
                 FindNoColumn, AddColumn, MadeReady, SchemaFails, Select, Busy,
                 Admit, Deny, CommitFails, Answered, Over, Inv, TypeOK
        <5>2. QED
          BY <5>1 DEF Refusing
      <4>3. QED
        BY <4>1, <4>2
    <3>5. Refusing' \subseteq Refusing
      BY <2>1, <3>4
    <3>6. Cardinality(Refusing') <= Cardinality(Refusing)
      BY <1>1, <3>5, FS_Subset
    <3>7. QED
      BY <1>1, <1>2, <3>3, <3>6 DEF RejectionsCoverAnswers
  <2>5. QED
    BY <2>2, <2>3, <2>4
<1>5. QED
  BY <1>3, <1>4 DEF Next

\* The count of refusals covers the 429 answers, for any number of threads and
\* whatever commits fail.
THEOREM RejectionsCovered == Spec => []RejectionsCoverAnswers
BY InitInv, NextInv, InitRejections, NextRejections, PTL DEF Spec

-----------------------------------------------------------------------------
(* The creation of the table. *)

\* A thread that works on the schema holds the lock, and _schema_ready is not
\* ahead of the table.
SchemaInv ==
  /\ ready => table = "new"
  /\ \A t \in Threads : pc[t] \in Upgrading => schemaLock = t

LEMMA InitSchema == Init => SchemaInv
BY DEF Init, SchemaInv, Upgrading

LEMMA NextSchema ==
  ASSUME Inv, SchemaInv, [Next]_vars
  PROVE  SchemaInv'
<1>1. CASE Tick \/ OtherProcess \/ Idle \/ UNCHANGED vars
  BY <1>1 DEF Tick, OtherProcess, Idle, vars, schema, SchemaInv
<1>2. ASSUME NEW t \in Threads, Step(t) PROVE SchemaInv'
  <2>1. CASE TakeSchemaLock(t)
    BY <2>1, NoThreadAssumption DEF TakeSchemaLock, SchemaInv, Inv, TypeOK, Upgrading
  <2>2. CASE CreateTable(t)
    BY <2>2 DEF CreateTable, SchemaInv, Inv, TypeOK, Upgrading
  <2>3. CASE FindColumn(t) \/ AddColumn(t)
    <3>1. pc[t] \in Upgrading /\ table' = "new" /\ MadeReady(t)
      BY <2>3 DEF FindColumn, AddColumn, Upgrading
    <3>2. QED
      BY <3>1 DEF MadeReady, SchemaInv, Inv, TypeOK, Upgrading
  <2>4. CASE FindNoColumn(t)
    BY <2>4 DEF FindNoColumn, SchemaInv, Inv, TypeOK, Upgrading, schema
  <2>5. CASE SchemaFails(t)
    BY <2>5 DEF SchemaFails, Over, SchemaInv, Inv, TypeOK, Upgrading
  <2>6. CASE \/ ReadClock(t) \/ FindUnready(t) \/ Select(t) \/ Upsert(t) \/ Busy(t)
             \/ Admit(t) \/ Deny(t) \/ CommitFails(t)
    <3>1. UNCHANGED schema
      BY <2>6 DEF ReadClock, FindUnready, Select, Upsert, Busy, Admit, Deny,
                  CommitFails, Answered
    <3>2. \A u \in Threads : pc'[u] \in Upgrading => pc[u] \in Upgrading
      BY <2>6 DEF ReadClock, FindUnready, Select, Upsert, Busy, Admit, Deny,
                  CommitFails, Answered, Over, Inv, TypeOK, Upgrading
    <3>3. QED
      BY <3>1, <3>2 DEF SchemaInv, schema
  <2>7. QED
    BY <1>2, <2>1, <2>2, <2>3, <2>4, <2>5, <2>6 DEF Step
<1>3. QED
  BY <1>1, <1>2 DEF Next

\* A SELECT never meets a table without its column, for any number of threads
\* and whatever other processes do to the table at the same time.
THEOREM SelectsFindTheColumn == Spec => SelectFindsColumn
<1>1. ASSUME Inv, SchemaInv, [Next]_vars, NEW t \in Threads,
             pc[t] = "stamped", pc'[t] = "selected"
      PROVE  table = "new"
  <2>1. ready
    <3>1. CASE Tick \/ OtherProcess \/ Idle \/ UNCHANGED vars
      BY <1>1, <3>1 DEF Tick, OtherProcess, Idle, vars
    <3>2. ASSUME NEW u \in Threads, Step(u) PROVE ready
      BY <1>1, <3>2
         DEF Step, ReadClock, FindUnready, TakeSchemaLock, CreateTable, FindColumn,
             FindNoColumn, AddColumn, MadeReady, SchemaFails, Select, Upsert, Busy,
             Admit, Deny, CommitFails, Answered, Over, Inv, TypeOK
    <3>3. QED
      BY <1>1, <3>1, <3>2 DEF Next
  <2>2. QED
    BY <1>1, <2>1 DEF SchemaInv
<1>2. Inv /\ SchemaInv /\ [Next]_vars
        => [\A t \in Threads : pc[t] = "stamped" /\ pc'[t] = "selected"
              => table = "new"]_vars
  BY <1>1
<1>3. QED
  BY <1>2, InitInv, NextInv, InitSchema, NextSchema, PTL DEF Spec, SelectFindsColumn

\* One thread of a process issues the ALTER on what its PRAGMA said, and none is
\* left that would issue another.
THEOREM UpgradesOnce == Spec => UpgradedOnce
<1>1. ASSUME Inv, SchemaInv, [Next]_vars, NEW t \in Threads,
             pc[t] = "lacking", pc'[t] # "lacking", NEW u \in Threads
      PROVE  pc'[u] # "lacking"
  <2>1. ASSUME u # t PROVE pc[u] # "lacking"
    BY <1>1, <2>1 DEF SchemaInv, Upgrading
  <2>2. pc'[u] = pc[u] \/ u = t
    <3>1. CASE Tick \/ OtherProcess \/ Idle \/ UNCHANGED vars
      BY <3>1 DEF Tick, OtherProcess, Idle, vars
    <3>2. ASSUME NEW v \in Threads, Step(v)
          PROVE  \A w \in Threads : pc'[w] = pc[w] \/ w = v
      BY <1>1, <3>2
         DEF Step, ReadClock, FindUnready, TakeSchemaLock, CreateTable, FindColumn,
             FindNoColumn, AddColumn, MadeReady, SchemaFails, Select, Upsert, Busy,
             Admit, Deny, CommitFails, Answered, Over, Inv, TypeOK
    <3>3. QED
      BY <1>1, <3>1, <3>2 DEF Next
  <2>3. QED
    BY <1>1, <2>1, <2>2
<1>2. Inv /\ SchemaInv /\ [Next]_vars
        => [\A t \in Threads : pc[t] = "lacking" /\ pc'[t] # "lacking"
              => \A u \in Threads : pc'[u] # "lacking"]_vars
  BY <1>1
<1>3. QED
  BY <1>2, InitInv, NextInv, InitSchema, NextSchema, PTL DEF Spec, UpgradedOnce

-----------------------------------------------------------------------------
(* The bucket of a key with one client. *)

\* The level a request computes from the committed row is that of the bucket at
\* the time the request was stamped.
LEMMA SameLevel ==
  ASSUME TypeOK, NEW t \in Threads, KeyOf[t] = solo,
         seen[t] = bucket[solo], StoredAt(solo) <= now[t]
  PROVE  Level(t) = SoloBucket!LevelAt(now[t])
<1>1. /\ now[t] \in Nat /\ StoredAt(solo) \in Nat
      /\ StoredLevel(solo) \in 0 .. Burst /\ Level(t) = Refilled(bucket[solo], now[t])
  BY SoloAssumption, BoundsAssumption, StoredType DEF TypeOK, Level
<1> DEFINE passed == now[t] - StoredAt(solo)
<1>2. passed \in Nat
  BY <1>1
<1>3. SoloBucket!LevelAt(now[t]) = SoloBucket!Capped(StoredLevel(solo) + Refill * passed)
  BY DEF SoloBucket!LevelAt
<1>4. Refill * passed \in Nat /\ Refill * passed = passed * Refill
  BY <1>2, AmountsAssumption, Products
<1>5. CASE bucket[solo].burst # Burst
  <2>1. Level(t) = Burst /\ StoredLevel(solo) = Burst
    BY <1>1, <1>5 DEF Refilled, StoredLevel
  <2> HIDE DEF passed
  <2>2. QED
    BY <1>3, <1>4, <2>1, AmountsAssumption DEF SoloBucket!Capped
<1>6. CASE bucket[solo].burst = Burst
  <2>1. /\ StoredLevel(solo) = bucket[solo].tokens
        /\ StoredAt(solo) = bucket[solo].lastRefill
    BY <1>6 DEF StoredLevel, StoredAt
  <2>2. GreaterOf(0, now[t] - bucket[solo].lastRefill) = passed
    BY <1>2, <2>1 DEF GreaterOf
  <2>3. Level(t) = LesserOf(Burst, StoredLevel(solo) + passed * Refill)
    BY <1>1, <1>6, <2>1, <2>2 DEF Refilled
  <2> HIDE DEF passed
  <2>4. QED
    BY <1>1, <1>3, <1>4, <2>3, AmountsAssumption DEF SoloBucket!Capped, LesserOf
<1>7. QED
  BY <1>5, <1>6

\* A commit for the key is an admission or a refusal of the bucket.
LEMMA CommitRefines ==
  ASSUME Inv, NEW t \in Threads, Admit(t) \/ Deny(t)
  PROVE  [SoloBucket!Next]_SoloBucket!vars
<1>1. /\ pc[t] = "upserted" /\ KeyOf[t] \in Keys /\ clock' = clock
      /\ bucket' = [bucket EXCEPT ![KeyOf[t]] = NewRow(t)]
  BY KeyOfAssumption DEF Admit, Deny
<1>2. CASE KeyOf[t] # solo
  <2>1. bucket'[solo] = bucket[solo] /\ admitted'[solo] = admitted[solo]
    BY <1>1, <1>2, SoloAssumption DEF Admit, Deny, Inv, TypeOK
  <2>2. QED
    BY <1>1, <2>1 DEF SoloBucket!vars, StoredLevel, StoredAt
<1>3. CASE KeyOf[t] = solo
  <2>1. /\ seen[t] = bucket[solo] /\ StoredAt(solo) <= now[t] /\ now[t] <= clock
    BY <1>1, <1>3, SoloAssumption DEF Inv, Current
  <2>2. Level(t) = SoloBucket!LevelAt(now[t])
    BY <1>3, <2>1, SameLevel DEF Inv
  <2>3. now[t] \in StoredAt(solo) .. clock
    BY <2>1, StoredType, SoloAssumption, BoundsAssumption DEF Inv, TypeOK
  <2>4. /\ StoredAt(solo)' = now[t]
        /\ StoredLevel(solo)' = IF Allowed(t) THEN Level(t) - Unit ELSE Level(t)
    BY <1>1, <1>3 DEF StoredLevel, StoredAt, NewRow, Inv, TypeOK
  <2>5. CASE Admit(t)
    <3>1. Allowed(t) /\ admitted'[solo] = admitted[solo] + 1
      BY <1>3, <2>5, SoloAssumption DEF Admit, Inv, TypeOK
    <3>2. SoloBucket!Admit(now[t])
      BY <1>1, <2>2, <2>4, <3>1 DEF SoloBucket!Admit, Allowed
    <3>3. QED
      BY <2>3, <3>2 DEF SoloBucket!Next
  <2>6. CASE Deny(t)
    <3>1. ~Allowed(t) /\ admitted' = admitted
      BY <2>6 DEF Deny
    <3>2. Level(t) < Unit
      BY <3>1, NewRowType, AmountsAssumption DEF Allowed, Inv
    <3>3. SoloBucket!Refuse(now[t])
      BY <1>1, <2>2, <2>4, <3>1, <3>2 DEF SoloBucket!Refuse
    <3>4. QED
      BY <2>3, <3>3 DEF SoloBucket!Next
  <2>7. QED
    BY <2>5, <2>6
<1>4. QED
  BY <1>2, <1>3

LEMMA InitRefines == Init => SoloBucket!Init
<1> SUFFICES ASSUME Init PROVE SoloBucket!Init
  OBVIOUS
<1>1. TypeOK
  BY InitInv DEF Inv
<1>2. StoredLevel(solo) \in 0 .. Burst
  BY <1>1, SoloAssumption, StoredType
<1>3. bucket[solo] \in {NoRow} \cup OldRows /\ clock = 0 /\ admitted[solo] = 0
  BY SoloAssumption DEF Init
<1>4. StoredAt(solo) = 0
  BY <1>3 DEF StoredAt, NoRow, OldRows
<1>5. QED
  BY <1>2, <1>3, <1>4 DEF SoloBucket!Init

LEMMA NextRefines ==
  ASSUME Inv, [Next]_vars
  PROVE  [SoloBucket!Next]_SoloBucket!vars
<1>1. CASE Tick
  <2>1. clock' = clock + 1 /\ UNCHANGED <<bucket, admitted>>
    BY <1>1 DEF Tick
  <2>2. SoloBucket!Tick
    BY <2>1 DEF SoloBucket!Tick, StoredLevel, StoredAt
  <2>3. QED
    BY <2>2 DEF SoloBucket!Next
<1>2. ASSUME UNCHANGED <<clock, bucket, admitted>>
      PROVE  [SoloBucket!Next]_SoloBucket!vars
  BY <1>2 DEF SoloBucket!vars, StoredLevel, StoredAt
<1>3. ASSUME NEW t \in Threads, Step(t) PROVE [SoloBucket!Next]_SoloBucket!vars
  <2>1. CASE Admit(t) \/ Deny(t)
    BY <2>1, CommitRefines
  <2>2. CASE ~Admit(t) /\ ~Deny(t)
    <3>1. UNCHANGED <<clock, bucket, admitted>>
      BY <1>3, <2>2
         DEF Step, ReadClock, FindUnready, TakeSchemaLock, CreateTable, FindColumn,
             FindNoColumn, AddColumn, MadeReady, SchemaFails, Select, Upsert, Busy,
             CommitFails
    <3>2. QED
      BY <1>2, <3>1
  <2>3. QED
    BY <2>1, <2>2
<1>4. CASE OtherProcess \/ Idle \/ UNCHANGED vars
  BY <1>2, <1>4 DEF OtherProcess, Idle, vars
<1>5. QED
  BY <1>1, <1>3, <1>4 DEF Next

\* The bucket of a key with one client is a token bucket, for any other keys and
\* threads, any amounts, any failures and any row that was there.
THEOREM SoloIsTokenBucket == Spec => ImplementsTokenBucket
BY InitInv, NextInv, InitRefines, NextRefines, PTL
   DEF Spec, ImplementsTokenBucket, SoloBucket!Spec

-----------------------------------------------------------------------------
(* Retry-After. *)

\* The row of a key whose last answer was a refusal will hold a token when its
\* client was told to come back, ...
Promised(k) ==
  due[k] <= MaxClock =>
    /\ bucket[k].burst = Burst /\ bucket[k].lastRefill <= due[k]
    /\ Unit <= bucket[k].tokens + (due[k] - bucket[k].lastRefill) * Refill

\* ... and a request that has come no earlier works on that row.
Returned(t) ==
  pc[t] \in {"selected", "upserted"} /\ due[KeyOf[t]] <= now[t]
    => seen[t] = bucket[KeyOf[t]]

Honest == (\A k \in Keys : Promised(k)) /\ \A t \in Threads : Returned(t)

\* What is missing to a token comes back in the seconds that are announced, of
\* which there is at least one.
LEMMA LongEnough ==
  ASSUME NEW level \in 0 .. Burst
  PROVE  /\ RetryAfter(level) \in Nat \ {0}
         /\ Unit - level <= (RetryAfter(level) * TicksPerSecond) * Refill
<1> DEFINE perSecond == Refill * TicksPerSecond
           missing == Unit - level
           seconds == (missing + perSecond - 1) \div perSecond
<1>1. level \in Nat /\ missing \in Int /\ perSecond \in Nat \ {0}
  BY AmountsAssumption, SMT
<1>2. RetryAfter(level) = GreaterOf(1, seconds)
  BY DEF RetryAfter
<1> HIDE DEF missing
<1>3. (RetryAfter(level) * TicksPerSecond) * Refill = perSecond * RetryAfter(level)
      \/ RetryAfter(level) \notin Int
  BY AmountsAssumption, SMT
<1> HIDE DEF perSecond
<1>4. seconds \in Int /\ missing <= perSecond * seconds
  BY <1>1, SMT
<1> HIDE DEF seconds
<1>5. RetryAfter(level) \in Nat \ {0} /\ seconds <= RetryAfter(level)
  BY <1>2, <1>4 DEF GreaterOf
<1>6. perSecond * seconds <= perSecond * RetryAfter(level)
  BY <1>1, <1>4, <1>5, SMT
<1>7. perSecond * seconds \in Int /\ perSecond * RetryAfter(level) \in Int
  BY <1>1, <1>4, <1>5, SMT
<1>8. missing <= (RetryAfter(level) * TicksPerSecond) * Refill
  BY <1>1, <1>3, <1>4, <1>5, <1>6, <1>7
<1>9. QED
  BY <1>5, <1>8 DEF missing

\* The refusal of a request promises what its row will hold, and no request
\* under way has come back that late.
LEMMA DenyPromises ==
  ASSUME Inv, NEW t \in Threads, Deny(t)
  PROVE  Promised(KeyOf[t])' /\ clock < due'[KeyOf[t]]
<1> DEFINE k == KeyOf[t]
           wait == RetryAfter(Level(t)) * TicksPerSecond
<1>1. /\ k \in Keys /\ pc[t] = "upserted" /\ ~Allowed(t) /\ clock' = clock
      /\ bucket'[k] = NewRow(t) /\ due'[k] = LesserOf(NotDue, clock + wait)
  BY KeyOfAssumption DEF Deny, Inv, TypeOK
<1>2. /\ Level(t) \in 0 .. Burst /\ now[t] \in Nat /\ now[t] <= clock
      /\ clock \in Nat /\ clock <= MaxClock /\ MaxClock \in Nat
  BY <1>1, NewRowType, BoundsAssumption DEF Inv, TypeOK, Current
<1>3. wait \in Nat \ {0} /\ Unit - Level(t) <= wait * Refill
  <2>1. RetryAfter(Level(t)) \in Nat \ {0} /\ Unit - Level(t) <= wait * Refill
    BY <1>2, LongEnough
  <2>2. \A m, n \in Nat \ {0} : m * n \in Nat \ {0}
    BY SMT
  <2>3. QED
    BY <2>1, <2>2, AmountsAssumption
<1> HIDE DEF wait
<1>4. clock < due'[k]
  BY <1>1, <1>2, <1>3 DEF LesserOf, NotDue
<1>5. /\ bucket'[k].burst = Burst /\ bucket'[k].tokens = Level(t)
      /\ bucket'[k].lastRefill = now[t]
  BY <1>1 DEF NewRow
<1>6. ASSUME due'[k] <= MaxClock
      PROVE  Unit <= Level(t) + (due'[k] - now[t]) * Refill
  <2>1. due'[k] = clock + wait
    BY <1>1, <1>2, <1>3, <1>6 DEF LesserOf, NotDue
  <2>2. due'[k] - now[t] \in Nat /\ wait <= due'[k] - now[t]
    BY <1>2, <1>3, <2>1
  <2>3. /\ Refill * wait <= Refill * (due'[k] - now[t])
        /\ Refill * wait = wait * Refill /\ Refill * wait \in Nat
        /\ Refill * (due'[k] - now[t]) = (due'[k] - now[t]) * Refill
        /\ Refill * (due'[k] - now[t]) \in Nat
    BY <1>3, <2>2, AmountsAssumption, Products
  <2>4. QED
    BY <1>2, <1>3, <2>3, AmountsAssumption
<1>7. now[t] <= due'[k]
  BY <1>1, <1>2, <1>3 DEF LesserOf, NotDue
<1>8. QED
  BY <1>4, <1>5, <1>6, <1>7 DEF Promised

LEMMA InitHonest == Init => Honest
BY KeyOfAssumption, BoundsAssumption DEF Init, Honest, Promised, Returned, NotDue

LEMMA NextHonest ==
  ASSUME Inv, Honest, [Next]_vars
  PROVE  Honest'
<1>1. CASE Tick \/ OtherProcess \/ Idle \/ UNCHANGED vars
  BY <1>1 DEF Tick, OtherProcess, Idle, vars, Honest, Promised, Returned
<1>2. ASSUME NEW t \in Threads, Step(t) PROVE Honest'
  <2> DEFINE k == KeyOf[t]
  <2>1. k \in Keys /\ (\A u \in Threads : KeyOf[u] \in Keys)
    BY KeyOfAssumption
  <2>2. CASE Select(t)
    BY <2>2 DEF Select, Honest, Promised, Returned, Inv, TypeOK
  <2>3. CASE ~Select(t) /\ ~Admit(t) /\ ~Deny(t)
    <3>1. UNCHANGED <<bucket, due>>
      BY <1>2, <2>3
         DEF Step, ReadClock, FindUnready, TakeSchemaLock, CreateTable, FindColumn,
             FindNoColumn, AddColumn, MadeReady, SchemaFails, Upsert, Busy, CommitFails
    <3>2. \A u \in Threads : pc'[u] \in {"selected", "upserted"} =>
            /\ pc[u] \in {"selected", "upserted"}
            /\ now'[u] = now[u] /\ seen'[u] = seen[u]
      BY <1>2, <2>3
         DEF Step, ReadClock, FindUnready, TakeSchemaLock, CreateTable, FindColumn,
             FindNoColumn, AddColumn, MadeReady, SchemaFails, Upsert, Busy, CommitFails,
             Answered, Over, Inv, TypeOK
    <3>3. QED
      BY <3>1, <3>2 DEF Honest, Promised, Returned
  <2>4. CASE Admit(t) \/ Deny(t)
    <3>1. /\ \A j \in Keys \ {k} : bucket'[j] = bucket[j] /\ due'[j] = due[j]
          /\ \A u \in Threads : pc'[u] \in {"selected", "upserted"} =>
               /\ pc[u] \in {"selected", "upserted"}
               /\ now'[u] = now[u] /\ seen'[u] = seen[u]
      BY <2>4 DEF Admit, Deny, Answered, Over, Inv, TypeOK
    <3>2. Promised(k)' /\ clock < due'[k]
      <4>1. CASE Admit(t)
        BY <2>1, <4>1, BoundsAssumption DEF Admit, Promised, NotDue, Inv, TypeOK
      <4>2. CASE Deny(t)
        BY <4>2, DenyPromises
      <4>3. QED
        BY <2>4, <4>1, <4>2
    <3>3. ASSUME NEW j \in Keys PROVE Promised(j)'
      BY <3>1, <3>2, <3>3 DEF Honest, Promised
    <3>4. ASSUME NEW u \in Threads, pc'[u] \in {"selected", "upserted"},
                 due'[KeyOf[u]] <= now'[u]
          PROVE  seen'[u] = bucket'[KeyOf[u]]
      <4>1. now'[u] <= clock /\ now'[u] \in Nat /\ clock \in Nat
        BY <3>1, <3>4, BoundsAssumption DEF Inv, Current, TypeOK
      <4>2. KeyOf[u] # k
        <5>1. due'[k] \in Nat
          BY <2>1, <2>4, DueType, BoundsAssumption DEF Admit, Deny, Inv, TypeOK, NotDue
        <5>2. QED
          BY <3>2, <3>4, <4>1, <5>1
      <4>3. QED
        BY <2>1, <3>1, <3>4, <4>2 DEF Honest, Returned
    <3>5. QED
      BY <3>3, <3>4 DEF Honest, Returned
  <2>5. QED
    BY <2>2, <2>3, <2>4
<1>3. QED
  BY <1>1, <1>2 DEF Next

\* Where the burst is at least one token, a client that comes back when a 429 has
\* told it to is let through unless another was admitted in between, for any
\* rates, keys and threads.  (A smaller burst refuses everybody for ever.)
THEOREM RetryAfterIsHonest ==
  ASSUME Unit <= Burst
  PROVE  Spec => RetryAfterHonest
<1>1. ASSUME Inv, Honest, [Next]_vars, NEW t \in Threads,
             denied' > denied, pc[t] = "upserted", pc'[t] = "idle"
      PROVE  now[t] < due[KeyOf[t]]
  <2>1. Deny(t)
    <3>1. ASSUME denied' = denied PROVE FALSE
      BY <1>1, <3>1 DEF Inv, TypeOK
    <3>2. PICK u \in Threads : Deny(u)
      BY <1>1, <3>1
         DEF Next, Tick, OtherProcess, Idle, vars, Step, ReadClock, FindUnready,
             TakeSchemaLock, CreateTable, FindColumn, FindNoColumn, AddColumn, MadeReady,
             SchemaFails, Select, Upsert, Busy, Admit, CommitFails
    <3>3. u = t
      BY <1>1, <3>2 DEF Deny, Answered, Over, Inv, TypeOK
    <3>4. QED
      BY <3>2, <3>3
  <2> DEFINE k == KeyOf[t]
  <2>2. /\ k \in Keys /\ now[t] \in 0 .. MaxClock /\ due[k] \in 0 .. NotDue
        /\ NotDue \in Nat /\ MaxClock \in Nat
    BY <1>1, KeyOfAssumption, BoundsAssumption DEF Inv, TypeOK, NotDue
  <2>3. SUFFICES ASSUME due[k] <= now[t] PROVE Allowed(t)
    BY <2>1, <2>2 DEF Deny
  <2>4. /\ seen[t] = bucket[k] /\ bucket[k].burst = Burst
        /\ bucket[k].lastRefill <= due[k]
        /\ Unit <= bucket[k].tokens + (due[k] - bucket[k].lastRefill) * Refill
    BY <1>1, <2>2, <2>3 DEF Honest, Promised, Returned
  <2>5. bucket[k].tokens \in Nat /\ bucket[k].lastRefill \in Nat
    <3>1. bucket[k] \in {NoRow} \cup OldRows \cup Rows
      BY <1>1, <2>2 DEF Inv, TypeOK
    <3>2. QED
      BY <2>4, <3>1, AmountsAssumption, BoundsAssumption DEF NoRow, OldRows, Rows
  <2> DEFINE before == due[k] - bucket[k].lastRefill
             passed == now[t] - bucket[k].lastRefill
  <2>6. before \in Nat /\ passed \in Nat /\ before <= passed
    BY <2>2, <2>3, <2>4, <2>5
  <2>7. GreaterOf(0, passed) = passed
    BY <2>6 DEF GreaterOf
  <2>8. Level(t) = LesserOf(Burst, bucket[k].tokens + passed * Refill)
    BY <2>4, <2>7 DEF Level, Refilled
  <2>9. Unit <= bucket[k].tokens + before * Refill
    BY <2>4
  <2> HIDE DEF before, passed
  <2>10. /\ before * Refill = Refill * before /\ passed * Refill = Refill * passed
         /\ Refill * before <= Refill * passed
         /\ Refill * before \in Nat /\ Refill * passed \in Nat
    BY <2>6, AmountsAssumption, Products
  <2>11. QED
    BY <2>5, <2>8, <2>9, <2>10, AmountsAssumption DEF Allowed, LesserOf
<1>2. Inv /\ Honest /\ [Next]_vars
        => [\A t \in Threads :
              denied' > denied /\ pc[t] = "upserted" /\ pc'[t] = "idle"
                => now[t] < due[KeyOf[t]]]_vars
  BY <1>1
<1>3. QED
  BY <1>2, InitInv, NextInv, InitHonest, NextHonest, PTL DEF Spec, RetryAfterHonest
====
