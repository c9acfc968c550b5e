---- MODULE RunHistory ----
(*****************************************************************************)
(* The synchronous runs of FR-02: POST /v1/tasks/{id}/run (_run_async,       *)
(* _upsert, _get_conn) and GET /v1/tasks/{id}/runs (list_runs), all in       *)
(* taskq_api/service/runner.py, by several processes over the SQLite file    *)
(* TASKQ_RUNNER_DB that they share.                                          *)
(*                                                                           *)
(* A process is one event loop with one shared connection for its writes;    *)
(* list_runs opens a connection of its own.  An upsert (INSERT, then commit) *)
(* blocks the loop.  Neither _upsert nor its callers roll back: a statement  *)
(* that fails with "database is locked" after the busy timeout leaves the    *)
(* transaction on the shared connection, with the lock it has got so far: an *)
(* INSERT that could not begin to write has none, a commit keeps its own.    *)
(*                                                                           *)
(* The locks of a writer are SQLite's, in rollback-journal mode:             *)
(*   reserved  the one writer, readers still welcome                         *)
(*   pending   a commit waits, or has given up waiting, for readers to leave:*)
(*             nobody may begin to read                                      *)
(*****************************************************************************)
EXTENDS Naturals

CONSTANTS
  Runs,    \* the runs ever requested
  Procs,   \* the processes that share the file
  Host     \* the process each run is requested from

ASSUME HostAssumption == Host \in [Runs -> Procs]

VARIABLES
  stage,     \* where the request of each run is
  outcome,   \* the status its command ended with
  launched,  \* its command was started
  tx,        \* rows written by a process's open transaction: run -> status
  stored,    \* the committed rows: run -> status
  lock,      \* the lock of each process's shared connection
  loop,      \* what occupies the event loop of each process
  inserted   \* the upsert in progress has executed its INSERT

vars == <<stage, outcome, launched, tx, stored, lock, loop, inserted>>

-----------------------------------------------------------------------------

Final == {"done", "failed", "timeout"}
Status == {"absent", "pending", "running"} \cup Final

\* The stages at which the request is inside an upsert.
Writing == {"creating", "starting", "settling"}

\* "error": answered 500.  "lost": cancelled, or gone with its process.
Over == {"answered", "error", "lost"}
Stages == {"absent", "executing"} \cup Writing \cup Over

Free == [by |-> "nobody"]
Listing == [by |-> "list_runs"]
Handling(r) == [by |-> "run", run |-> r]
Busy(r) == loop[Host[r]] = Handling(r)

NoTx == [r \in Runs |-> "absent"]

\* Some other process has begun to write and has not committed.
WriterBeside(p) == \E q \in Procs \ {p} : lock[q] \in {"reserved", "pending"}

\* Some connection other than the one p writes with is reading.
ReaderBeside(p) == \E q \in Procs \ {p} : loop[q] = Listing

CommitPending == \E q \in Procs : lock[q] = "pending"

\* Mutant of WrittenStatus: the first two rows are swapped.
WrittenStatusSwapped(r) ==
  CASE stage[r] = "creating" -> "running"
    [] stage[r] = "starting" -> "pending"
    [] OTHER -> outcome[r]

\* The status in the row that the upsert of r writes.
WrittenStatus(r) ==
  CASE stage[r] = "creating" -> "pending"
    [] stage[r] = "starting" -> "running"
    [] OTHER -> outcome[r]

\* Where _run_async goes after an upsert.
Following(s) ==
  CASE s = "creating" -> "starting"
    [] s = "starting" -> "executing"
    [] OTHER -> "answered"

-----------------------------------------------------------------------------

Init ==
  /\ stage = [r \in Runs |-> "absent"]
  /\ outcome = [r \in Runs |-> "absent"]
  /\ launched = [r \in Runs |-> FALSE]
  /\ tx = [p \in Procs |-> NoTx]
  /\ stored = [r \in Runs |-> "absent"]
  /\ lock = [p \in Procs |-> "none"]
  /\ loop = [p \in Procs |-> Free]
  /\ inserted = [p \in Procs |-> FALSE]

\* The handler finds the task and enters _run_async; it does not await
\* anything before the command is started.
Request(r) ==
  /\ stage[r] = "absent" /\ loop[Host[r]] = Free
  /\ stage' = [stage EXCEPT ![r] = "creating"]
  /\ loop' = [loop EXCEPT ![Host[r]] = Handling(r)]
  /\ UNCHANGED <<outcome, launched, tx, stored, lock, inserted>>

\* The INSERT opens a transaction, unless a failed upsert has left one open,
\* and gets the write lock.
Insert(r) ==
  LET p == Host[r] IN
  /\ Busy(r) /\ stage[r] \in Writing /\ ~inserted[p]
  /\ ~WriterBeside(p)
  /\ tx' = [tx EXCEPT ![p][r] = WrittenStatus(r)]
  /\ lock' = [lock EXCEPT ![p] = IF @ = "pending" THEN @ ELSE "reserved"]
  /\ inserted' = [inserted EXCEPT ![p] = TRUE]
  /\ UNCHANGED <<stage, outcome, launched, stored, loop>>

\* The request of r ends with a 500.
Raise(r) ==
  /\ stage' = [stage EXCEPT ![r] = "error"]
  /\ loop' = [loop EXCEPT ![Host[r]] = Free]
  /\ inserted' = [inserted EXCEPT ![Host[r]] = FALSE]

\* Mutant of InsertFails: without a busy timeout the INSERT keeps trying.
InsertKeepsTrying(r) ==
  /\ Busy(r) /\ stage[r] \in Writing /\ ~inserted[Host[r]]
  /\ WriterBeside(Host[r])
  /\ UNCHANGED vars

\* The INSERT gives up on the lock.  Its transaction has nothing in it, and SQLite
\* lets go of the lock it was reading under.
InsertFails(r) ==
  /\ Busy(r) /\ stage[r] \in Writing /\ ~inserted[Host[r]]
  /\ WriterBeside(Host[r])
  /\ Raise(r)
  /\ UNCHANGED <<outcome, launched, tx, stored, lock>>

\* The commit has to wait for readers.
CommitWaits(r) ==
  LET p == Host[r] IN
  /\ Busy(r) /\ inserted[p] /\ lock[p] = "reserved"
  /\ ReaderBeside(p)
  /\ lock' = [lock EXCEPT ![p] = "pending"]
  /\ UNCHANGED <<stage, outcome, launched, tx, stored, loop, inserted>>

\* Mutant of CommitFails: the error of the commit is swallowed.
CommitFailsSilently(r) ==
  LET p == Host[r] IN
  /\ Busy(r) /\ inserted[p] /\ lock[p] = "pending"
  /\ ReaderBeside(p)
  /\ stage' = [stage EXCEPT ![r] = Following(@)]
  /\ launched' = [launched EXCEPT ![r] = @ \/ stage[r] = "starting"]
  /\ loop' = [loop EXCEPT ![p] = IF stage[r] = "creating" THEN @ ELSE Free]
  /\ inserted' = [inserted EXCEPT ![p] = FALSE]
  /\ UNCHANGED <<outcome, tx, stored, lock>>

\* The commit gives up waiting; the transaction stays open.
CommitFails(r) ==
  LET p == Host[r] IN
  /\ Busy(r) /\ inserted[p] /\ lock[p] = "pending"
  /\ ReaderBeside(p)
  /\ Raise(r)
  /\ UNCHANGED <<outcome, launched, tx, stored, lock>>

\* What the commit of p publishes: everything its transaction has written,
\* also for requests that were answered with an error long ago.
Published(p) == [r \in Runs |-> IF tx[p][r] = "absent" THEN stored[r] ELSE tx[p][r]]

\* The upsert of r commits, and _run_async goes on to its next upsert or await.
Commit(r) ==
  LET p == Host[r] IN
  /\ Busy(r) /\ inserted[p] /\ ~ReaderBeside(p)
  /\ stored' = Published(p)
  /\ tx' = [tx EXCEPT ![p] = NoTx]
  /\ lock' = [lock EXCEPT ![p] = "none"]
  /\ inserted' = [inserted EXCEPT ![p] = FALSE]
  /\ stage' = [stage EXCEPT ![r] = Following(@)]
  /\ launched' = [launched EXCEPT ![r] = @ \/ stage[r] = "starting"]
  /\ loop' = [loop EXCEPT ![p] = IF stage[r] = "creating" THEN @ ELSE Free]
  /\ UNCHANGED outcome

\* Mutant of Ended: a command that could not be started gets a status of its own.
EndedWithError(r) ==
  /\ stage[r] = "executing" /\ loop[Host[r]] = Free
  /\ \E s \in Final \cup {"error"} : outcome' = [outcome EXCEPT ![r] = s]
  /\ stage' = [stage EXCEPT ![r] = "settling"]
  /\ loop' = [loop EXCEPT ![Host[r]] = Handling(r)]
  /\ UNCHANGED <<launched, tx, stored, lock, inserted>>

\* The command ended, could not be started, or was killed after its timeout.
Ended(r) ==
  /\ stage[r] = "executing" /\ loop[Host[r]] = Free
  /\ \E s \in Final : outcome' = [outcome EXCEPT ![r] = s]
  /\ stage' = [stage EXCEPT ![r] = "settling"]
  /\ loop' = [loop EXCEPT ![Host[r]] = Handling(r)]
  /\ UNCHANGED <<launched, tx, stored, lock, inserted>>

\* Mutant of Cancelled: the upserts await, so that one can be cancelled after its
\* INSERT.
CancelledInUpsert(r) ==
  /\ stage[r] \in Writing \cup {"executing"} /\ loop[Host[r]] \in {Free, Handling(r)}
  /\ stage' = [stage EXCEPT ![r] = "lost"]
  /\ loop' = [loop EXCEPT ![Host[r]] = Free]
  /\ inserted' = [inserted EXCEPT ![Host[r]] = FALSE]
  /\ UNCHANGED <<outcome, launched, tx, stored, lock>>

\* The server cancels the request while it awaits its command: CancelledError
\* leaves _run_async before the last upsert.
Cancelled(r) ==
  /\ stage[r] = "executing" /\ loop[Host[r]] = Free
  /\ stage' = [stage EXCEPT ![r] = "lost"]
  /\ UNCHANGED <<outcome, launched, tx, stored, lock, loop, inserted>>

-----------------------------------------------------------------------------

\* list_runs reads the committed rows on a connection of its own.
ListBegins(p) ==
  /\ loop[p] = Free /\ ~CommitPending
  /\ loop' = [loop EXCEPT ![p] = Listing]
  /\ UNCHANGED <<stage, outcome, launched, tx, stored, lock, inserted>>

ListEnds(p) ==
  /\ loop[p] = Listing
  /\ loop' = [loop EXCEPT ![p] = Free]
  /\ UNCHANGED <<stage, outcome, launched, tx, stored, lock, inserted>>

\* The process is killed, in any state, and started again: its transaction is
\* rolled back by SQLite, its locks and its requests are gone.
Crash(p) ==
  /\ stage' = [r \in Runs |->
       IF Host[r] = p /\ stage[r] \notin Over \cup {"absent"} THEN "lost" ELSE stage[r]]
  /\ tx' = [tx EXCEPT ![p] = NoTx]
  /\ lock' = [lock EXCEPT ![p] = "none"]
  /\ loop' = [loop EXCEPT ![p] = Free]
  /\ inserted' = [inserted EXCEPT ![p] = FALSE]
  /\ UNCHANGED <<outcome, launched, stored>>

-----------------------------------------------------------------------------

\* What the process does on its own once the request is in an upsert.
UpsertStep(r) ==
  Insert(r) \/ InsertFails(r) \/ CommitWaits(r) \/ CommitFails(r) \/ Commit(r)

Next ==
  \/ \E r \in Runs : Request(r) \/ UpsertStep(r) \/ Ended(r) \/ Cancelled(r)
  \/ \E p \in Procs : ListBegins(p) \/ ListEnds(p) \/ Crash(p)

Spec == Init /\ [][Next]_vars

\* SQLite's busy timeout sees to it that an upsert does not wait for ever.
FairSpec == Spec /\ \A r \in Runs : WF_vars(UpsertStep(r))

-----------------------------------------------------------------------------
(* Properties *)

TypeOK ==
  /\ stage \in [Runs -> Stages]
  /\ outcome \in [Runs -> {"absent"} \cup Final]
  /\ launched \in [Runs -> BOOLEAN]
  /\ tx \in [Procs -> [Runs -> Status]]
  /\ stored \in [Runs -> Status]
  /\ lock \in [Procs -> {"none", "reserved", "pending"}]
  /\ loop \in [Procs -> {Free, Listing} \cup {Handling(r) : r \in Runs}]
  /\ inserted \in [Procs -> BOOLEAN]

\* A run that was answered 202 is settled in the file for good, with the status
\* it was answered with: no crash, failed commit or later transaction of any
\* process takes it back (api/tasks.py:168, "fully persisted before the HTTP
\* response is finalised").
AnsweredRunIsStored ==
  \A r \in Runs : stage[r] = "answered" => stored[r] = outcome[r] /\ stored[r] \in Final

\* Write-ahead: no command is ever executed that the history does not show,
\* also when the process dies or the last upsert fails.
NoUnrecordedExecution ==
  \A r \in Runs : launched[r] => stored[r] \in {"running"} \cup Final

\* The history only moves forward, although a commit may publish rows that
\* several requests wrote, some of them answered with an error in between.
Rank(s) ==
  CASE s = "absent" -> 0 [] s = "pending" -> 1 [] s = "running" -> 2 [] OTHER -> 3

HistoryMovesForward ==
  [][\A r \in Runs :
       stored'[r] # stored[r] => Rank(stored[r]) < Rank(stored'[r])]_vars

\* A process whose event loop is free holds the file locked, so that listings and
\* the upserts of other processes fail, only because of a commit that gave up: the
\* row is still there that it was to commit, of a request answered with an error.
IdleLockIsFailedCommit ==
  \A p \in Procs : loop[p] = Free /\ lock[p] # "none" =>
    \E r \in Runs : Host[r] = p /\ stage[r] = "error" /\ tx[p][r] # "absent"

\* An upsert never blocks the event loop for ever, although another process may
\* keep the file locked (runner.py:60, "a bounded busy timeout"): under FairSpec.
NoUpsertHangs ==
  \A r \in Runs : stage[r] \in Writing ~> stage[r] \notin Writing

\* SRS.md AC-N3.4, "causes the rollback; the rolled-back row is absent on a
\* follow-up read": a request that was answered with an error changes nothing
\* afterwards.
ErrorLeavesNothingBehind ==
  [][\A r \in Runs : stage[r] = "error" => stored'[r] = stored[r]]_vars
====
