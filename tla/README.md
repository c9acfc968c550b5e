# taskq-super: a TLA+ verification project

This directory is a formal model of the taskq API (`src/03-development/src/taskq_api` and
`src/03-development/src/migrations`): TLA+ modules translated from the code, TLC configurations that
model-check them, and TLAPS proofs of what matters most. `runner.py` below is
`taskq_api/service/runner.py`, and so on. `PROJECT.json` maps every definition to the lines it stands for.

## 1. Inventory

| Component | State it keeps | Operations | Interacts through |
|---|---|---|---|
| Background runner, FR-08 (`service/runner.py`, `Runner`) | a semaphore, `_in_flight`, one row and one asyncio task per run, the child processes | `submit`, `_run_with_limit`, `_execute_assigned`, `_run_subprocess`, `_terminate`, `drain` | asyncio tasks, cancellation, signals |
| Shutdown, FR-08 (`app.py`, `shutdown_drain`) | a deadline | poll `in_flight`, cancel, mark rows, gather | reads and writes the runner's rows and tasks |
| Run history, FR-02 (`service/runner.py`, `api/tasks.py`) | the SQLite file `TASKQ_RUNNER_DB`, one shared connection per process | `_run_async` with three `_upsert`s, `list_runs` | the file's locks, between requests and processes |
| Rate limiter, FR-05 (`service/ratelimit.py`, `repository/rate_repo.py`) | table `rate_buckets`, `_schema_ready`, `_rejection_count` | `check_rate_limit`, `try_consume`, `_ensure_schema` | database transactions of the threadpool's threads, other processes on the file |
| Migrations, FR-07 (`migrations/versions`) | the schema, `alembic_version`, the rows it moves | upgrade and downgrade of v1, v2, v3 | DDL and transactions, the running service |
| Authentication and scopes, FR-03/04 (`service/auth.py`, `repository/key_repo.py`, `api/deps.py`) | the lazily seeded key registry | bearer check, scope check, then the rate limit | threads of the threadpool |
| Task CRUD and pages, FR-01 (`service/tasks.py`, `repository/task_repo.py`, `repository/session.py`) | the task store, which exists only as a test stand-in | create, get, delete, list by cursor | one `transactional()` block per call |
| Health and metrics, FR-09 (`api/health.py`) | two migration identifiers read at import | `/healthz`, `/readyz`, `/v1/metrics` with percentiles | reads the store and `_rejection_count` |
| Error envelope, FR-10 (`errors.py`) | none | exceptions to RFC 7807 answers | every refusal of the other components |
| Configuration, CLI, models | environment variables, declarative classes | read once | none |

What is hard to test here, and where it bites, is the list "hazards" in `PROJECT.json`. In short:

- *asyncio interleavings*: cancellation, semaphore grants, `wait_for` timers and child exits meet at
  the same awaits. Correctness: slots are conserved, nobody sleeps beside a free slot, `in_flight` is
  exact, every run settles once, a timed-out child is dead before its row settles, shutdown leaves
  nothing live and starts nothing.
- *one SQLite connection for all requests of a process, one file for all processes*: busy errors between
  INSERT and commit, crashes between upserts. Correctness: answered means stored, executed means
  recorded, the history only moves forward, no request hangs the event loop for ever, an idle process keeps
  the file locked only after a commit that gave up.
- *a read outside the transaction* in the rate limiter, and a table that threads and processes create or
  upgrade at the same time. Correctness: a client alone on its key gets no
  more than its bucket, Retry-After is honest, refusals are counted, no SELECT meets a table without
  its column, one thread of a process does the upgrade.
- *DDL that is not transactional* in the migrations, and an application that goes on writing the column they copied.
  Correctness: the schema is the recorded revision's, task rows survive every round trip, the back-fill is complete. SQLite
  has none of it but the second once a command fails or a task is written at the wrong moment; there the properties say what is left, and
  violations what is lost.
- *threads in the scope dependency* and the lazily seeded registry; pages whose cursor may be deleted.
  Correctness: only authorised keys write or learn which tasks exist, by a problem as little as by a page; a valid
  key is refused only while the registry is being seeded; a listing followed to its end has shown every task. (The rows of
  a deleted task's runs ought to be deleted with it, and are not.)
- *readiness that never reads the database*. Correctness: a release is ready only over its newest revision.

## 2. Modules

| Module | Models | Extends / uses |
|---|---|---|
| `AsyncSemaphore` | CPython's `asyncio.Semaphore` (external): value, FIFO of waiters, granted and cancelled futures | |
| `Runner` | `Runner` and `shutdown_drain` | `AsyncSemaphore`; instantiates `RunLifecycle` |
| `RunLifecycle` | abstract: what the rows of runs may do | |
| `RunHistory` | `_run_async`, `_upsert`, `list_runs` by several processes | |
| `RateLimiter` | `check_rate_limit`, `try_consume`, `_ensure_schema` | |
| `TokenBucket` | abstract: one bucket, requests judged one at a time | instantiated by `RateLimiterBucket` |
| `RateLimiterBucket` | the refinement mapping: the bucket of one key whose requests all come from one client | `RateLimiter`; instantiates `TokenBucket` |
| `Migrations` | the statements of the three revisions under alembic | |
| `Problems` | the answers of `errors.py`, as operators | |
| `TaskApi` | the `/v1/tasks` endpoints and `/v1/metrics` behind the scope dependency | `Problems` |
| `Readiness` | `/readyz` and `/healthz` beside the operator's migrations | `Migrations`, `Problems` |
| `MC*` | instances for TLC | the module of that name |
| `*Proofs` | theorems (section 5) | the module of that name, `TLAPS` |

### Runner

One action is one synchronous stretch of a coroutine, from await to await. `pc[r]` names the await the
task of run `r` is suspended at; the header of the module lists them. `row[r]` is `row["status"]`,
`sema` and `inFlight` are `self._semaphore` and `self._in_flight`, `proc[r]` and `pipesOpen[r]` the child.
`callerPc`, `spent` and `batch` belong to `shutdown_drain` and `Runner.drain`, each called at most once.

- `Submit` is `submit`; `StartAtOnce`, `QueueUp`, `StartGranted` are the three ways through
  `acquire()`, with `RunWithSlot` for the status check and the spawn; `Finish` is the way out: it gives
  the slot back, lowers `_in_flight` and settles the row.
- `Spawned`, `Communicated`, `TimerFires`, `Expire`, `Settle`, `Terminate`, `TimeOut` follow
  `_run_subprocess` and `_terminate`. The `Cancel...` actions deliver `CancelledError` at each await, as
  CPython 3.11 does it; a cancelled spawn or `wait_for` first finishes its own cleanup (`unwinding`). `_terminate` does not
  wait for a child that was reaped before, although a descendant may still hold its pipes.
- Ready callbacks run in any order. That is coarser than asyncio's FIFO queue: safety proved here
  holds for the real order too.
- `_execute_with_kill` is left out: only tests call it. `Runner` and `shutdown_drain` are not wired
  into the FastAPI application at this commit; they are modelled as the tests drive them.

### RunHistory

A process is an event loop and its shared connection. An upsert is `Insert` and `Commit`, each of which
may instead give up on a lock. A commit that does (`CommitFails`) leaves its transaction open with its locks, as in the
code, which has no rollback; an INSERT that does (`InsertFails`) leaves no lock behind, because SQLite lets go of
what a transaction was reading under when it cannot begin to write. `tx[p]` holds what it wrote, `lock[p]` what it locked, `stored` is the committed file.
While an upsert waits it blocks the loop, so only other processes act. `Cancelled` drops a request that awaits its
command, `Crash` ends a process anywhere. The locks are those of SQLite's rollback journal
(external). The table exists from the start, and a busy lock is the only error.

### RateLimiter

The sqlite3 driver begins a transaction at the first statement that writes, so `Select` is outside it
and `Upsert` takes the write lock until `Admit`, `Deny` or `CommitFails`. The clock is read
before (`ReadClock`). Floats are modelled as whole parts of a token and whole ticks. The model is the SQLite file with a
connection per thread.

Before its SELECT a request goes through `_ensure_schema`: `FindUnready` and `TakeSchemaLock` are the two looks at
`_schema_ready`; `CreateTable`, `FindColumn` or `FindNoColumn` (the PRAGMA) and `AddColumn` are separate steps because the
driver opens no transaction for DDL, and `OtherProcess` may create or upgrade the table between them. `SchemaFails` is
any of those statements failing (the column is there already, the database is locked): the lock is released, the answer is a
500, and the next request starts over. The table is at first missing, without the column `burst`, or up to date; a row older than the column reads 0.

### Migrations

A command (`alembic upgrade` or `downgrade` to any revision) is the list of its statements in `todo`. On
PostgreSQL one transaction covers the command. On SQLite alembic opens one per revision, and the driver's
`BEGIN` comes only with the first INSERT or UPDATE: DDL before it stays. `Creates`, `Drops`,
`Selects`, `Copies`, `Stamps` execute a statement; `Refused` is a statement that cannot succeed, `SelectFails` and
`CopyFails` go through the `except` of the v3 upgrade, whose DROP (`CleansUp`) stays if no transaction is open by then (also when
SQLite rolled back of itself, on a full disk); `Interrupted` is a kill or a locked database. `Write` is the
application, which inserts a task, writes or clears its `result_json`, or deletes it (`Inserts`, `Updates`, `Deletes`) whenever no transaction of the
migration is in its way. These statements are external: the docstring of v3 and the tests tell of them, and no code of the
service issues them at this commit. A deletion takes the row of `task_results` along on PostgreSQL only: nothing turns SQLite's
foreign keys on. The environment file is the
one of `tests/test_fr07.py:204-251` (the repository has no `migrations/env.py`).

### TaskApi

The dependency is a plain `def`, so FastAPI runs it in a worker thread: `Arrive` to `Admitted` are its steps, with
`_ensure_seeded` split where a thread switch matters (`Arrive` reads the flag; `BeginSeeding`, `Seed`, `EndSeeding`). The
endpoints are coroutines without an await (but for the run): one action each. The limiter's answer is a choice
(`Admitted`, `NotAdmitted`), since `RateLimiter` models it. A request's task, name or body is chosen in its
endpoint. `answer` is what the last step answered: a response of `Problems`, and the set of tasks whose existence or
absence it lets the client know (`about`). A body that is not JSON is refused before the dependency runs (`AnswerAtOnce`), an
invalid one after it (`InvalidBody`), since FastAPI parses first and validates last. `running[c]` is the task whose run its
request awaits: `RunEnds` answers with that run also when the task was deleted meanwhile. The rows of the runs are `RunHistory`'s and no part of this
module. `cursor`, `due` and `shown` are the client's side of a listing. The store is
the stand-in of `tests/conftest.py:75-116`, the only one the repository has (the session that the real `transactional`
yields has none of the store's methods); `created_at` is taken to grow, as the wall clock does unless it is set back.

### Problems and Readiness

`Problems` is the function from exception and request to answer that `errors.py` computes: the status, the
headers of `TaskQError`, the path, which a 403 does not repeat, and the correlation id. The body's wording is left out.
`Readiness` adds the probes to the actions of `Migrations`: `Start` imports a release, which finds its head among the
files of `migrations/versions` (`ResolvedHead`) and takes the current revision to be the same; `readyz` answers from that and
from what the probe of the database finds.

## 3. Runs

Passing runs check deadlock.

| Run | Instance | States | What it shows |
|---|---|---|---|
| `runner_safety` | 3 runs, 2 slots, shutdown at any moment, symmetric | 342,668 | all safety of the runner, refinement of `RunLifecycle` |
| `runner_liveness` | 2 runs, 1 slot, both callers, one command whose descendant may keep the pipes | 138,920 | who ends, and under what assumption |
| `run_history` | 3 requests, 2 processes (2 and 1) | 71,696 | what survives busy errors and crashes, and who keeps the file locked |
| `rate_limiter` | 3 threads, one alone on its key, 2 requests each, 4 instants, bucket of one token, table missing, old or new | 1,352,445 | what holds although transactions do not serialise and the table may be upgraded by anyone |
| `task_api` | 2 clients, one of them followed page by page, 3 tasks, pages of 1, keys: read, all scopes, unknown; symmetric | 220,031 | seeding, scopes, who learns what, complete listings |
| `migrations` | both backends, 2 tasks, 2 names, one result (or none) | 514,443 | every sequence of commands, failure at every statement, writes between them |

The bounds are the smallest in which the interesting cases exist. Runner: a third run queues behind two
slots, so a grant, a cancellation of the granted run and a second waiter meet; one slot and two
runs starve if anything leaks. RunHistory: two requests on one connection are needed to publish
another's row, a second process to make a commit fail; what each additional one adds is covered by the
proofs. RateLimiter: a bucket holds one token and three quarters of one come back per instant, so a refused request stores a remainder,
Retry-After has to round, and a refill can overflow; two
requests per thread let a refusal be followed by the obedient retry, and the last instant is late enough
for a refill. `MaxCalls` and `MaxClock` bound the model only (`Idle` is the end of a bounded run). TaskApi: three tasks in pages of
one give a first, a middle and a last page, and the second client deletes or creates around the first one's cursor. Migrations: two tasks make
a duplicate name possible; a result that is written and cleared again is enough to be out of date; commands are unbounded.

### Violations: where the code and its documents disagree

| Run | The documents say | The code does |
|---|---|---|
| `runner_orphan` | shutdown releases the child processes (`app.py:80-84`) | a run cancelled in `communicate()` leaves its child alive |
| `readiness` | `/readyz` reports 503 until the operator has upgraded (`health.py:202-205`) | the current revision is never read: a release is ready over any database |
| `rate_over_admission` | no over-admission (`rate_repo.py:245-246`) | two requests of one key decide on the same row |
| `run_history_rollback` | a failed transaction is rolled back and its row absent (SRS AC-N3.4) | the next request's commit publishes it |
| `migrations_partial` | a failing migration leaves no partial schema (SRS AC-N3.5), and v3 is all-or-nothing without transactional DDL (`v3_split_results.py:68-70`) | on SQLite the compensating DROP is rolled back with the failed INSERT, the CREATE is not |
| `migrations_race` | every task that had a result has its row in `task_results` (`v3_split_results.py:56-58`) | on SQLite one written between the SELECT and the INSERT has none |

`migrations_partial` has one task, so that no name occurs twice: with two tasks the same property also fails at the unique index of v2
(`v2_tags.py:61`), which is refused after `tags` and `task_tags` were created for good.

Four more disagreements can be read off the code, and need no run:

- `Runner.drain` promises to wait "up to `timeout` seconds" (`runner.py:457`), but the gather after its loop (`runner.py:471`) has no bound: a run
  without a timeout whose command does not exit holds it for ever. Only tests call it.
- A spawn that raises something else than `FileNotFoundError` or `ValueError` (`PermissionError`, or `TypeError` for an empty command) leaves the row
  "running" for ever, which the handler at `runner.py:570-574` means to prevent. `OnlyAFailedSpawnLeavesALiveRow` says that nothing else does.
- SRS AC-1.10 (`SRS.md:249-251`) wants the deletion of a task to delete its rows in `task_results`. `delete_task` (`service/tasks.py:115`) deletes none,
  the rows of its runs stay in the history, and a run under way then adds one.
- The docstring of v3 calls a JOIN with `task_results` the canonical read path while code goes on writing `tasks.result_json`
  (`v3_split_results.py:7-8`). Nothing carries such a write over: the join reads the past. `OnlyWritesMakeStale` says what else can make it so.

## 4. Fairness

- Runner, `LoopSpec`: weak fairness of each task's step and of the two callers (the event loop runs every
  ready callback, and timers fire), of `Die` (the kernel delivers SIGKILL and the child watcher reaps), and of
  `ClosePipes` for commands without detached descendants. Nothing is assumed of a child that is left alone.
  `EverySubmittedRunEnds` holds only if commands without a timeout exit: that premise
  (`CommandsExit`) is inside the property. `TimedRunsEnd` and `ShutdownReturns` do without it.
- RunHistory, `FairSpec`: weak fairness of a request's upsert step, which SQLite's busy timeout
  justifies: a statement that waits either gets its lock or gives up. `NoUpsertHangs` says the event
  loop is never blocked for ever, even while another process keeps the file locked.
- RateLimiter, TaskApi and Migrations claim no liveness: clients, operators and crashes decide.

## 5. Proofs

TLAPS proves the following for every value of the constants, from the named assumptions of
each module (finitely many runs and threads, any number of slots, any assignment of requests to processes, positive rates, a burst above zero).

- `AsyncSemaphoreProofs`: what each semaphore operation does to slots, waiters and granted futures, as lemmas with ASSUME/PROVE.
- `RunnerProofs`: the inductive invariant `TypeOK /\ SlotsOwned /\ RowsFollow`. `SlotConservation` alone
  is not inductive: `SlotsOwned` adds that the semaphore's queue is exactly the set of acquiring tasks and that
  a free slot beside waiters means one of them was woken; `RowsFollow` says for each await what the row and the
  child are. Consequences: `TypeInvariant`, `SlotsConserved`, `InFlightIsExact`, `NoWakeupIsLost`,
  `InterruptedMeansCancelled`, `OrphansOnlyByShutdown`, `OtherRowsAreTerminal`.
- `RunnerShutdownProofs`: a run that was cancelled and marked stays over (`OverStaysOver`), hence
  `ShutdownFinishesItsBatch` and `NothingLaunchedAfterShutdown`; and `ExecutingRunsHaveTheBudget`, from the exactness of `in_flight`.
- `RunnerRefinementProofs`: `RunnerImplementsLifecycle`; every runner step is a `RunLifecycle` step or a stutter, with
  executing runs as `active` and slot conservation giving room for each start.
- `RateLimiterProofs`: `TypeInvariant`, and `AloneNotOverAdmitted` from `Paid` (admissions plus what the bucket holds were
  paid for by the first bucket and the refills up to the row's time stamp) and `Current` (a client alone on its key works on the committed row).
  The same invariant gives `SoloIsTokenBucket`: for any key with one client (`SoloAssumption`, in `RateLimiterBucket`) the
  commit of an answer is a `TokenBucket` step with the row's level and time stamp as its state, and every other step is a tick or a stutter.
  `RetryAfterIsHonest` adds `Promised` (a row written with a refusal will hold a token at the time announced) and `Returned`
  (the request that comes back then works on that row); its arithmetic is that the rounded-up seconds bring back at least what was missing
  (`LongEnough`). Its hypothesis `Unit <= Burst` holds whenever `TASKQ_RATE_BURST`, a whole number of tokens, is not zero.
  `RejectionsCovered`, by counting the requests that are being refused; `SelectsFindTheColumn` and `UpgradesOnce` from
  `SchemaInv` (who works on the schema holds the lock, and the flag is not ahead of the table).
- `RunHistoryProofs`: the invariant says what each stage of a request has committed and that an uncommitted row
  is always ahead of the committed one, so that publishing it late cannot move the history back. Consequences: `TypeInvariant`,
  `AnsweredMeansStored`, `ExecutionIsRecorded`, `HistoryIsMonotonic`. `IdleLocksAreExplained` adds
  (`LockExplained`) that a lock belongs to an upsert under way or to the row of a request that was answered with an error and is not published yet.
- `MigrationsProofs`, for any tasks, names and results. `SchemaMatchesRevision` speaks of the time between commands and says nothing of
  the statements, so the invariant follows the command: what is left of it is a list of whole revisions or the rest of one (`Ordered`),
  and its next statement tells which revision is recorded and what has been created or dropped (`Place`). Objects exist in the order of the
  scripts (`Nested`); an object that is there or missing without a statement under way to account for it makes the schema `Broken`, which takes a
  failure on SQLite (`Whole`). `Transaction` says what a rollback would restore, `Filled` that `task_results` is empty
  until the back-fill and, on PostgreSQL, what that has fetched and inserted. Consequences: `TypeInvariant`, `SchemaIsThatOfRevision`, `OnlyWritesDo`, `BackfillIsComplete`, `RowsSurvive`.
  `BrokenForGood` uses that `Broken` lasts: whatever command comes next, its statements run into the object that is left or missing, or pass it by.
- `TaskApiProofs`, for any clients, keys, scopes, tasks and any page size. `Gatekept`: once the flag says seeded, a key that is not in the index is in the
  hands of a seeding thread, and whoever was let in has a key with the scope. Hence `RefusalsEndWithSeeding`, `WritesByAuthorised`, and, with what
  each endpoint's answer is about, `OnlyAuthorisedLearn`. `Positions`: what a listing still owes
  comes after the cursor's task in the store and what it has shown does not, which insertions at the end and deletions anywhere preserve. Hence
  `ListingsAreComplete` and `PagesDoNotRepeat`.

Every invariant above was first checked by TLC on an instance. Every safety property, action property and refinement
that a passing run checks is a theorem. Model-checked only: the four liveness properties of section 4 (liveness under fairness is out of the
prover's reach), and the properties of the violation runs, which are false. `Readiness` has no passing run: its only claim is false of this code.

## 6. Not modelled

- *The limiter on other databases.* `_build_engine` passes `check_same_thread` to every URL and `_ensure_schema` issues a
  `PRAGMA`, so the `FOR UPDATE` path cannot be reached although `rate_repo.py:22-23` speaks of any URL. With
  the default `:memory:` engine all threads share one connection, whose commits and rollbacks then cover each other's writes:
  a test setting, left out. So is the path for a missing token, which the dependency never takes, a limiter whose
  refill rate is zero, which fails in Retry-After, and one whose burst is zero, which refuses everybody and still announces a time.
- *Shutdown and runs that have not begun.* `in_flight` misses a run that has no slot yet, so `shutdown_drain`
  cancels it at once with the budget unspent; the model does the same, and `ExecutingHasTheBudget` speaks of executing runs only.
- *Percentiles* of `/v1/metrics`: `int(q * n) - 1` is not the `ceil(q * N) - 1` of its docstring, but no stored task has a
  `duration_ms`, so none is ever computed. Likewise the status filter of listings: nothing changes a task's status.
- *transactional* (`session.py`): it never commits, but no store of the repository goes through it.
- *Creation of the run history's table.* `_get_conn` caches its connection before `_ensure_schema` ran, so a CREATE that fails
  leaves later requests of the process without a table until a listing or another process creates it; only an I/O
  error or two processes creating it at the same instant get there.
- *Configuration, CLI, declarative models, the texts of logs and problems, the parsing of a migration file, alembic's offline
  mode, a full disk (but in the back-fill).* `create_key`, which the CLI calls, stores nothing: a key it prints is a stranger to the registry.

## 7. Plan

1. *Done*: every module of section 2, and proofs of all that the passing runs check except liveness.
2. Possible next: what the violations leave true, stated and proved: which of the runs that shutdown cancels keep their
   child (`NoOrphanWithoutShutdown` says only that no others do), and how far a key that several clients share is over-admitted.
