---- MODULE RateLimiter ----
(*****************************************************************************)
(* The rate limiter of FR-05: check_rate_limit (service/ratelimit.py) and    *)
(* try_consume (repository/rate_repo.py), called by the threads of FastAPI's *)
(* threadpool (the scope dependency is a plain def), on a SQLite file with   *)
(* one pooled connection per thread.                                         *)
(*                                                                           *)
(* The sqlite3 driver opens its transaction (BEGIN, deferred) at the first   *)
(* statement that writes, so the SELECT reads the committed row outside any  *)
(* transaction and holds no lock afterwards; the upsert takes the write lock *)
(* of the database, and the commit publishes the row and drops the lock.     *)
(*                                                                           *)
(* Before its SELECT each request makes sure that the table is there and has *)
(* its column burst (_ensure_schema).  The driver opens no transaction for a *)
(* DDL statement, so the CREATE, the PRAGMA and the ALTER are three steps    *)
(* that another process on the same file can come between.                   *)
(*                                                                           *)
(* The code computes in floats; here amounts are whole parts of a token and  *)
(* times whole ticks.                                                        *)
(*****************************************************************************)
EXTENDS Integers, FiniteSets

CONSTANTS
  Threads, Keys,
  KeyOf,           \* the API key each thread's requests present
  NoThread,
  Burst,           \* DEFAULT_BURST, in parts
  Unit,            \* the parts of one token
  Refill,          \* DEFAULT_PER_SEC, in parts per tick
  TicksPerSecond,
  OtherBurst,      \* the burst an earlier process used on the same file
  MaxClock,        \* bound on the clock
  MaxCalls         \* bound on the requests of a thread

ASSUME ThreadsAssumption == IsFiniteSet(Threads)
ASSUME KeyOfAssumption == KeyOf \in [Threads -> Keys]
ASSUME NoThreadAssumption == NoThread \notin Threads
ASSUME AmountsAssumption ==
  /\ Burst \in Nat \ {0} /\ OtherBurst \in Nat
  /\ Unit \in Nat \ {0} /\ Refill \in Nat \ {0} /\ TicksPerSecond \in Nat \ {0}
ASSUME BoundsAssumption == MaxClock \in Nat /\ MaxCalls \in Nat

VARIABLES
  clock,       \* time.monotonic()
  bucket,      \* the committed row of each key, or NoRow
  writer,      \* the thread that holds the database's write lock
  table,       \* rate_buckets: "absent", "old" (no column burst) or "new"
  ready,       \* _schema_ready
  schemaLock,  \* the thread that holds _schema_lock, or NoThread
  pc,          \* where the request of each thread is
  now,         \* time.monotonic() as the request read it
  seen,        \* the row its SELECT returned
  rejections,  \* _rejection_count
  calls,       \* requests answered so far, per thread
  admitted,    \* admissions answered so far, per key
  denied,      \* 429 answers so far
  due          \* per key, when the last refused client was told to come back,
               \* unless a request was admitted since

schema == <<table, ready, schemaLock>>
vars == <<clock, bucket, writer, schema, pc, now, seen, rejections, calls,
          admitted, denied, due>>

NoRow == [tokens |-> 0, lastRefill |-> 0, burst |-> -1]

Rows == [tokens : 0 .. Burst, lastRefill : 0 .. MaxClock, burst : {Burst}]
\* Rows left by an earlier process, before the clock started; a row that is
\* older than the column burst reads its default, 0.
OldRows == [tokens : 0 .. OtherBurst, lastRefill : {0}, burst : {OtherBurst, 0}]

NotDue == MaxClock + 1

-----------------------------------------------------------------------------
(* Arithmetic *)

LesserOf(m, n) == IF m < n THEN m ELSE n
GreaterOf(m, n) == IF m > n THEN m ELSE n

\* Mutant of Refilled: the level is not capped.
RefilledWithoutCap(row, t) ==
  IF row.burst # Burst THEN Burst
  ELSE row.tokens + GreaterOf(0, t - row.lastRefill) * Refill

\* The level at time t by the row that was read.  A missing row, and a row
\* written under another burst, count as a full bucket.
Refilled(row, t) ==
  IF row.burst # Burst THEN Burst
  ELSE LesserOf(Burst, row.tokens + GreaterOf(0, t - row.lastRefill) * Refill)

\* Mutant of RetryAfter: rounded down.
RetryAfterFloor(level) ==
  GreaterOf(1, (Unit - level) \div (Refill * TicksPerSecond))

\* _retry_after_seconds: whole seconds, at least one, rounded up.
RetryAfter(level) ==
  GreaterOf(1, (Unit - level + Refill * TicksPerSecond - 1)
                 \div (Refill * TicksPerSecond))

-----------------------------------------------------------------------------

Init ==
  /\ clock = 0
  /\ table \in {"absent", "old", "new"}
  /\ bucket \in [Keys -> {NoRow} \cup OldRows]
  /\ \A k \in Keys : \/ bucket[k] = NoRow
                     \/ table = "old" /\ bucket[k].burst = 0
                     \/ table = "new"
  /\ writer = NoThread
  /\ ready = FALSE /\ schemaLock = NoThread
  /\ pc = [t \in Threads |-> "idle"]
  /\ now = [t \in Threads |-> 0]
  /\ seen = [t \in Threads |-> NoRow]
  /\ rejections = 0
  /\ calls = [t \in Threads |-> 0]
  /\ admitted = [k \in Keys |-> 0]
  /\ denied = 0
  /\ due = [k \in Keys |-> NotDue]

Tick ==
  /\ clock < MaxClock
  /\ clock' = clock + 1
  /\ UNCHANGED <<bucket, writer, schema, pc, now, seen, rejections, calls,
                 admitted, denied, due>>

\* check_rate_limit reads the clock, before any transaction.
ReadClock(t) ==
  /\ pc[t] = "idle" /\ calls[t] < MaxCalls
  /\ pc' = [pc EXCEPT ![t] = "stamped"]
  /\ now' = [now EXCEPT ![t] = clock]
  /\ UNCHANGED <<clock, bucket, writer, schema, seen, rejections, calls,
                 admitted, denied, due>>

\* The request of t is over; its locals are gone.
Over(t) ==
  /\ pc' = [pc EXCEPT ![t] = "idle"]
  /\ seen' = [seen EXCEPT ![t] = NoRow]
  /\ now' = [now EXCEPT ![t] = 0]
  /\ calls' = [calls EXCEPT ![t] = @ + 1]

-----------------------------------------------------------------------------
(* _ensure_schema.  The threads of this process take turns; a request that   *)
(* fails leaves the work to the next one.                                    *)

Upgrading == {"creating", "created", "lacking"}

\* The first look at _schema_ready.
FindUnready(t) ==
  /\ pc[t] = "stamped" /\ ~ready
  /\ pc' = [pc EXCEPT ![t] = "unready"]
  /\ UNCHANGED <<clock, bucket, writer, schema, now, seen, rejections, calls,
                 admitted, denied, due>>

\* Mutant of TakeSchemaLock: no lock is taken.
TakeNoLock(t) ==
  /\ pc[t] = "unready"
  /\ pc' = [pc EXCEPT ![t] = IF ready THEN "stamped" ELSE "creating"]
  /\ UNCHANGED <<clock, bucket, writer, schema, now, seen, rejections, calls,
                 admitted, denied, due>>

\* Mutant of TakeSchemaLock: the schema counts as ready once it is worked on.
ReadyTooSoon(t) ==
  /\ pc[t] = "unready" /\ schemaLock = NoThread
  /\ pc' = [pc EXCEPT ![t] = IF ready THEN "stamped" ELSE "creating"]
  /\ schemaLock' = IF ready THEN NoThread ELSE t
  /\ ready' = TRUE
  /\ UNCHANGED <<clock, bucket, writer, table, now, seen, rejections, calls,
                 admitted, denied, due>>

\* The second look, with the lock held.
TakeSchemaLock(t) ==
  /\ pc[t] = "unready" /\ schemaLock = NoThread
  /\ pc' = [pc EXCEPT ![t] = IF ready THEN "stamped" ELSE "creating"]
  /\ schemaLock' = IF ready THEN NoThread ELSE t
  /\ UNCHANGED <<clock, bucket, writer, table, ready, now, seen, rejections,
                 calls, admitted, denied, due>>

\* CREATE TABLE IF NOT EXISTS, with the column burst.
CreateTable(t) ==
  /\ pc[t] = "creating"
  /\ table' = IF table = "absent" THEN "new" ELSE table
  /\ pc' = [pc EXCEPT ![t] = "created"]
  /\ UNCHANGED <<clock, bucket, writer, ready, schemaLock, now, seen, rejections,
                 calls, admitted, denied, due>>

\* The schema is ready, and t goes on to its SELECT.
MadeReady(t) ==
  /\ ready' = TRUE /\ schemaLock' = NoThread
  /\ pc' = [pc EXCEPT ![t] = "stamped"]
  /\ UNCHANGED <<clock, bucket, writer, now, seen, rejections, calls, admitted,
                 denied, due>>

\* The PRAGMA lists the column burst ...
FindColumn(t) ==
  /\ pc[t] = "created" /\ table = "new"
  /\ MadeReady(t)
  /\ UNCHANGED table

\* ... or not.
FindNoColumn(t) ==
  /\ pc[t] = "created" /\ table = "old"
  /\ pc' = [pc EXCEPT ![t] = "lacking"]
  /\ UNCHANGED <<clock, bucket, writer, schema, now, seen, rejections, calls,
                 admitted, denied, due>>

\* ALTER TABLE ADD COLUMN, which the column must not be there for.
AddColumn(t) ==
  /\ pc[t] = "lacking" /\ table = "old" /\ writer = NoThread
  /\ table' = "new"
  /\ MadeReady(t)

\* A statement fails: the column is there already, or the database is locked.
\* The lock is released and the answer is a 500.
SchemaFails(t) ==
  /\ pc[t] \in Upgrading
  /\ schemaLock' = NoThread
  /\ Over(t)
  /\ UNCHANGED <<clock, bucket, writer, table, ready, rejections, admitted,
                 denied, due>>

\* Another process creates the table, or adds the column.
OtherProcess ==
  /\ table # "new"
  /\ table' = "new"
  /\ UNCHANGED <<clock, bucket, writer, ready, schemaLock, pc, now, seen,
                 rejections, calls, admitted, denied, due>>

-----------------------------------------------------------------------------
(* try_consume *)

\* The SELECT of a request that finds the schema ready: it takes no lock and
\* sees the committed row.
Select(t) ==
  /\ pc[t] = "stamped" /\ ready
  /\ pc' = [pc EXCEPT ![t] = "selected"]
  /\ seen' = [seen EXCEPT ![t] = bucket[KeyOf[t]]]
  /\ UNCHANGED <<clock, bucket, writer, schema, now, rejections, calls,
                 admitted, denied, due>>

Level(t) == Refilled(seen[t], now[t])
Allowed(t) == Level(t) >= Unit

\* Mutant of Upsert: the refusal is not counted.
UpsertUncounted(t) ==
  /\ pc[t] = "selected" /\ writer = NoThread
  /\ writer' = t
  /\ pc' = [pc EXCEPT ![t] = "upserted"]
  /\ UNCHANGED <<clock, bucket, schema, now, seen, rejections, calls, admitted,
                 denied, due>>

\* The upsert opens the transaction and takes the write lock; a refusal is
\* counted before the transaction commits.
Upsert(t) ==
  /\ pc[t] = "selected" /\ writer = NoThread
  /\ writer' = t
  /\ pc' = [pc EXCEPT ![t] = "upserted"]
  /\ rejections' = IF Allowed(t) THEN rejections ELSE rejections + 1
  /\ UNCHANGED <<clock, bucket, schema, now, seen, calls, admitted, denied, due>>

\* The busy timeout of the driver: "database is locked", a 500 answer.
Busy(t) ==
  /\ pc[t] = "selected" /\ writer # NoThread
  /\ Over(t)
  /\ UNCHANGED <<clock, bucket, writer, schema, rejections, admitted, denied, due>>

\* Mutant of NewRow: a refused request pays too.
NewRowUnconditional(t) ==
  [tokens |-> Level(t) - Unit, lastRefill |-> now[t], burst |-> Burst]

\* The row the upsert of t stores.
NewRow(t) ==
  [tokens |-> IF Allowed(t) THEN Level(t) - Unit ELSE Level(t),
   lastRefill |-> now[t],
   burst |-> Burst]

\* The transaction of t ends, and its request.
Answered(t) == Over(t) /\ writer' = NoThread /\ UNCHANGED schema

\* Mutant of Admit: the row goes back to the level before the request.
AdmitForFree(t) ==
  /\ pc[t] = "upserted" /\ Allowed(t)
  /\ bucket' = [bucket EXCEPT ![KeyOf[t]] = [NewRow(t) EXCEPT !.tokens = Level(t)]]
  /\ admitted' = [admitted EXCEPT ![KeyOf[t]] = @ + 1]
  /\ due' = [due EXCEPT ![KeyOf[t]] = NotDue]
  /\ Answered(t)
  /\ UNCHANGED <<clock, rejections, denied>>

\* The transaction of a request that is let through commits.
Admit(t) ==
  /\ pc[t] = "upserted" /\ Allowed(t)
  /\ bucket' = [bucket EXCEPT ![KeyOf[t]] = NewRow(t)]
  /\ admitted' = [admitted EXCEPT ![KeyOf[t]] = @ + 1]
  /\ due' = [due EXCEPT ![KeyOf[t]] = NotDue]
  /\ Answered(t)
  /\ UNCHANGED <<clock, rejections, denied>>

\* The transaction of a refused request commits; the 429 tells the client when
\* to come back.
Deny(t) ==
  /\ pc[t] = "upserted" /\ ~Allowed(t)
  /\ bucket' = [bucket EXCEPT ![KeyOf[t]] = NewRow(t)]
  /\ denied' = denied + 1
  /\ due' = [due EXCEPT ![KeyOf[t]] =
       LesserOf(NotDue, clock + RetryAfter(Level(t)) * TicksPerSecond)]
  /\ Answered(t)
  /\ UNCHANGED <<clock, rejections, admitted>>

\* The commit fails: the row stays, the answer is a 500.
CommitFails(t) ==
  /\ pc[t] = "upserted"
  /\ Answered(t)
  /\ UNCHANGED <<clock, bucket, rejections, admitted, denied, due>>

Step(t) ==
  \/ ReadClock(t)
  \/ FindUnready(t) \/ TakeSchemaLock(t) \/ CreateTable(t)
  \/ FindColumn(t) \/ FindNoColumn(t) \/ AddColumn(t) \/ SchemaFails(t)
  \/ Select(t) \/ Upsert(t) \/ Busy(t)
  \/ Admit(t) \/ Deny(t) \/ CommitFails(t)

Finished == \A t \in Threads : pc[t] = "idle" /\ calls[t] = MaxCalls
Idle == Finished /\ clock = MaxClock /\ UNCHANGED vars

Next == Tick \/ OtherProcess \/ (\E t \in Threads : Step(t)) \/ Idle

Spec == Init /\ [][Next]_vars

-----------------------------------------------------------------------------
(* Properties *)

\* Types; the level of a row is between nothing and the burst.
TypeOK ==
  /\ clock \in 0 .. MaxClock
  /\ bucket \in [Keys -> {NoRow} \cup OldRows \cup Rows]
  /\ writer \in Threads \cup {NoThread}
  /\ table \in {"absent", "old", "new"}
  /\ ready \in BOOLEAN
  /\ schemaLock \in Threads \cup {NoThread}
  /\ pc \in [Threads -> Upgrading \cup {"idle", "stamped", "unready", "selected",
                                      "upserted"}]
  /\ now \in [Threads -> 0 .. MaxClock]
  /\ seen \in [Threads -> {NoRow} \cup OldRows \cup Rows]
  /\ rejections \in Nat
  /\ calls \in [Threads -> 0 .. MaxCalls]
  /\ admitted \in [Keys -> Nat]
  /\ denied \in Nat
  /\ due \in [Keys -> 0 .. NotDue]

\* The requests that are being refused.
Refusing == {t \in Threads : pc[t] = "upserted" /\ ~Allowed(t)}

\* /v1/metrics never reports fewer refusals than 429 answers were given, also
\* while refusals are in progress or fail to commit.
RejectionsCoverAnswers == denied + Cardinality(Refusing) <= rejections

\* Retry-After is honest (AC-5.2), whatever other threads do on stale rows: a
\* request that reads the clock when the last refused client was told to come
\* back, or later, is not refused unless another was admitted in between.
RetryAfterHonest ==
  [][\A t \in Threads :
       denied' > denied /\ pc[t] = "upserted" /\ pc'[t] = "idle"
         => now[t] < due[KeyOf[t]]]_vars

\* A request names the column burst in its SELECT only when the table has it,
\* whichever thread or process made the table, and whoever failed before.
SelectFindsColumn ==
  [][\A t \in Threads : pc[t] = "stamped" /\ pc'[t] = "selected"
       => table = "new"]_vars

\* Of the requests of a process that find the column missing, only one issues
\* the ALTER: when it is through, with success or with an error, none is left
\* that would issue another on what it read before.
UpgradedOnce ==
  [][\A t \in Threads : pc[t] = "lacking" /\ pc'[t] # "lacking"
       => \A u \in Threads : pc'[u] # "lacking"]_vars

\* The bucket of key k as module TokenBucket sees it: no row, and a row written
\* under another burst, are a bucket that has been full since the start.
StoredLevel(k) == IF bucket[k].burst = Burst THEN bucket[k].tokens ELSE Burst
StoredAt(k) == IF bucket[k].burst = Burst THEN bucket[k].lastRefill ELSE 0

\* A key whose requests all come from one client is never admitted more than one
\* full bucket plus what was refilled since the start, although the clients of
\* other keys interleave with it, a commit may fail, and the row may have been
\* left by a process with another burst.
Alone(k) == \A t, u \in Threads : KeyOf[t] = k /\ KeyOf[u] = k => t = u

NoOverAdmissionAlone ==
  \A k \in Keys : Alone(k) => Unit * admitted[k] <= Burst + Refill * clock

\* rate_repo.py:245-246, "Concurrent attempts against the same token serialise
\* on that row lock - no over-admission is possible".
NoOverAdmission ==
  \A k \in Keys : Unit * admitted[k] <= Burst + Refill * clock
====
