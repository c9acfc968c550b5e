---- MODULE Migrations ----
(*****************************************************************************)
(* The three schema revisions of FR-07 (migrations/versions) as alembic runs *)
(* them, up or down, while the service may write to the tasks table.         *)
(*                                                                           *)
(* A command is the list of the statements of its revisions, each ended by   *)
(* the update of alembic_version.  On PostgreSQL alembic's one transaction   *)
(* covers the command.  On SQLite every revision commits on its own, and the *)
(* driver begins a transaction only at the first INSERT or UPDATE: the DDL   *)
(* before it takes effect at once and stays.                                 *)
(*****************************************************************************)
EXTENDS Naturals, Sequences, FiniteSets

CONSTANTS
  Backends,  \* "postgresql", "sqlite"
  Tasks,     \* the ids tasks may have
  Names,     \* tasks.name
  Payloads,  \* tasks.result_json, where it is not NULL
  Null

ASSUME BackendAssumption == Backends \subseteq {"postgresql", "sqlite"}
ASSUME NullAssumption == Null \notin Payloads

VARIABLES
  backend,   \* what the service was installed on
  version,   \* alembic_version: 0 is base, 3 is head
  objects,   \* the tables and indexes there are
  tasks,     \* the rows of tasks, or NoRow
  results,   \* the rows of task_results, Null where there is none
  todo,      \* the statements left of the command that is running
  fetched,   \* what the SELECT of the back-fill returned, until it is inserted
  open,      \* the driver has a transaction open
  saved,     \* what a rollback returns to
  failed     \* some command has failed so far

data == <<version, objects, tasks, results>>
vars == <<backend, version, objects, tasks, results, todo, fetched, open, saved, failed>>

-----------------------------------------------------------------------------

Index == "ix_tasks_name_unique"
ObjectsOf(v) ==
  (IF v >= 1 THEN {"tasks", "api_keys"} ELSE {})
    \cup (IF v >= 2 THEN {"tags", "task_tags", Index} ELSE {})
    \cup (IF v >= 3 THEN {"task_results"} ELSE {})

Create(o) == [do |-> "create", what |-> o]
Drop(o) == [do |-> "drop", what |-> o]
Select == [do |-> "select", what |-> "tasks"]
Copy == [do |-> "copy", what |-> "task_results"]
Stamp(v) == [do |-> "stamp", what |-> v]

UpgradeV1 == <<Create("tasks"), Create("api_keys"), Stamp(1)>>
DowngradeV1 == <<Drop("api_keys"), Drop("tasks"), Stamp(0)>>

UpgradeV2 == <<Create("tags"), Create("task_tags"), Create(Index), Stamp(2)>>

\* Mutant of DowngradeV2: the association table is left.
DowngradeV2Forgetful == <<Drop(Index), Drop("tags"), Stamp(1)>>
DowngradeV2 == <<Drop(Index), Drop("task_tags"), Drop("tags"), Stamp(1)>>

UpgradeV3 == <<Create("task_results"), Select, Copy, Stamp(3)>>

\* Mutant of DowngradeV3: task_results is kept.
DowngradeV3Keeping == <<Stamp(2)>>
DowngradeV3 == <<Drop("task_results"), Stamp(2)>>

\* alembic upgrade to revision v, alembic downgrade to revision v
UpgradeTo(v) ==
  (IF version < 1 /\ v >= 1 THEN UpgradeV1 ELSE <<>>)
    \o (IF version < 2 /\ v >= 2 THEN UpgradeV2 ELSE <<>>)
    \o (IF version < 3 /\ v >= 3 THEN UpgradeV3 ELSE <<>>)
DowngradeTo(v) ==
  (IF version >= 3 /\ v < 3 THEN DowngradeV3 ELSE <<>>)
    \o (IF version >= 2 /\ v < 2 THEN DowngradeV2 ELSE <<>>)
    \o (IF version >= 1 /\ v < 1 THEN DowngradeV1 ELSE <<>>)

NoRow == [name |-> Null, result |-> Null]
NoRows == [t \in Tasks |-> NoRow]
NoResults == [t \in Tasks |-> Null]

Current == [version |-> version, objects |-> objects, tasks |-> tasks, results |-> results]

-----------------------------------------------------------------------------

Init ==
  /\ backend \in Backends
  /\ version = 0 /\ objects = {}
  /\ tasks = NoRows /\ results = NoResults
  /\ todo = <<>> /\ fetched = NoResults
  /\ open = FALSE /\ saved = Current
  /\ failed = FALSE

\* An operator starts a command.
Begin ==
  /\ todo = <<>>
  /\ \E v \in 0 .. 3 : v # version /\ todo' = UpgradeTo(v) \o DowngradeTo(v)
  /\ open' = (backend = "postgresql") /\ saved' = Current
  /\ UNCHANGED <<backend, version, objects, tasks, results, fetched, failed>>

\* The command fails or its process dies: what its transaction did is undone,
\* and the rest stays.
RollBack ==
  /\ todo' = <<>> /\ open' = FALSE /\ failed' = TRUE
  /\ IF open
     THEN /\ version' = saved.version /\ objects' = saved.objects
          /\ tasks' = saved.tasks /\ results' = saved.results
     ELSE UNCHANGED data
  /\ fetched' = NoResults
  /\ UNCHANGED <<backend, saved>>

Doing(what) == todo # <<>> /\ Head(todo).do = what

NamesDiffer ==
  \A t, u \in Tasks : t # u /\ tasks[t] # NoRow => tasks[t].name # tasks[u].name

CanCreate(o) == o \notin objects /\ (o = Index => "tasks" \in objects /\ NamesDiffer)

\* op.create_table, op.create_index
Creates ==
  LET o == Head(todo).what IN
  /\ Doing("create") /\ CanCreate(o)
  /\ objects' = objects \cup {o}
  /\ todo' = Tail(todo)
  /\ UNCHANGED <<backend, version, tasks, results, fetched, open, saved, failed>>

\* The rows of a table go with it, and so does the index on it.
Without(o) == objects \ (IF o = "tasks" THEN {o, Index} ELSE {o})
RowsWithout(o) == IF o = "tasks" THEN NoRows ELSE tasks
ResultsWithout(o) == IF o = "task_results" THEN NoResults ELSE results

\* Mutant of Drops: if_exists is given.
DropsIfExists ==
  LET o == Head(todo).what IN
  /\ Doing("drop")
  /\ objects' = Without(o) /\ tasks' = RowsWithout(o) /\ results' = ResultsWithout(o)
  /\ todo' = Tail(todo)
  /\ UNCHANGED <<backend, version, fetched, open, saved, failed>>

\* op.drop_table, op.drop_index
Drops ==
  LET o == Head(todo).what IN
  /\ Doing("drop") /\ o \in objects
  /\ objects' = Without(o) /\ tasks' = RowsWithout(o) /\ results' = ResultsWithout(o)
  /\ todo' = Tail(todo)
  /\ UNCHANGED <<backend, version, fetched, open, saved, failed>>

\* A statement that cannot succeed: the object is there already, or is not
\* there, or two tasks have the same name.
Refused ==
  /\ \/ Doing("create") /\ ~CanCreate(Head(todo).what)
     \/ Doing("drop") /\ Head(todo).what \notin objects
  /\ RollBack

\* Mutant of Selects: the condition on result_json is inverted.
SelectsPending ==
  /\ Doing("select") /\ "tasks" \in objects
  /\ fetched' = NoResults
  /\ todo' = Tail(todo)
  /\ UNCHANGED <<backend, version, objects, tasks, results, open, saved, failed>>

\* The back-fill reads the tasks that have a result ...
Selects ==
  /\ Doing("select") /\ "tasks" \in objects
  /\ fetched' = [t \in Tasks |-> tasks[t].result]
  /\ todo' = Tail(todo)
  /\ UNCHANGED <<backend, version, objects, tasks, results, open, saved, failed>>

\* Mutant of Copies: the source column is emptied.
CopiesAndClears ==
  /\ Doing("copy")
  /\ results' = fetched
  /\ tasks' = [t \in Tasks |-> IF tasks[t] = NoRow THEN NoRow
                               ELSE [name |-> tasks[t].name, result |-> Null]]
  /\ IF open \/ fetched = NoResults THEN UNCHANGED <<open, saved>>
     ELSE open' = TRUE /\ saved' = Current
  /\ todo' = Tail(todo) /\ fetched' = NoResults
  /\ UNCHANGED <<backend, version, objects, failed>>

\* ... and inserts them, unless there are none.
Copies ==
  /\ Doing("copy")
  /\ results' = fetched
  /\ IF open \/ fetched = NoResults THEN UNCHANGED <<open, saved>>
     ELSE open' = TRUE /\ saved' = Current
  /\ todo' = Tail(todo) /\ fetched' = NoResults
  /\ UNCHANGED <<backend, version, objects, tasks, failed>>

\* The back-fill raises and the handler drops the new table.  Outside a
\* transaction that takes effect at once.
CleansUp ==
  /\ ~open
  /\ objects' = Without("task_results") /\ results' = ResultsWithout("task_results")
  /\ todo' = <<>> /\ failed' = TRUE /\ fetched' = NoResults
  /\ UNCHANGED <<backend, version, tasks, open, saved>>

\* The SELECT raises.  No transaction is open on SQLite when the handler drops
\* the new table, unless the same trouble stops that statement too.
SelectFails == Doing("select") /\ (CleansUp \/ RollBack)

\* The INSERT raises: the transaction it has begun is open when the handler drops
\* the new table, and the rollback that follows undoes the drop; unless SQLite has
\* rolled back of itself before (the disk is full, cannot be written).
CopyFails == Doing("copy") /\ fetched # NoResults /\ (CleansUp \/ RollBack)

\* alembic_version is updated.  A revision commits on SQLite, a command does on
\* PostgreSQL.
Stamps ==
  /\ Doing("stamp")
  /\ version' = Head(todo).what
  /\ todo' = Tail(todo)
  /\ open' = (backend = "postgresql" /\ todo' # <<>>)
  /\ UNCHANGED <<backend, objects, tasks, results, fetched, saved, failed>>

\* The migration's process is killed, or a statement finds the database locked.
Interrupted == todo # <<>> /\ RollBack

-----------------------------------------------------------------------------

\* The statements of the service on the tasks table.
Row(n, x) == [name |-> n, result |-> x]

\* Mutant of Inserts: tasks.name may be NULL.
InsertsUnnamed(t) ==
  /\ tasks[t] = NoRow
  /\ \E n \in Names \cup {Null}, x \in Payloads \cup {Null} :
       /\ Index \in objects => \A u \in Tasks : tasks[u].name # n
       /\ tasks' = [tasks EXCEPT ![t] = Row(n, x)]
  /\ UNCHANGED results

Inserts(t) ==
  /\ tasks[t] = NoRow
  /\ \E n \in Names, x \in Payloads \cup {Null} :
       /\ Index \in objects => \A u \in Tasks : tasks[u].name # n
       /\ tasks' = [tasks EXCEPT ![t] = Row(n, x)]
  /\ UNCHANGED results

\* result_json is written; nothing writes it through to task_results.
Updates(t) ==
  /\ tasks[t] # NoRow
  /\ \E x \in Payloads \cup {Null} : tasks' = [tasks EXCEPT ![t] = Row(tasks[t].name, x)]
  /\ UNCHANGED results

\* The deletion cascades on PostgreSQL; SQLite enforces no foreign key.
Deletes(t) ==
  /\ tasks[t] # NoRow
  /\ tasks' = [tasks EXCEPT ![t] = NoRow]
  /\ results' = IF backend = "postgresql" THEN [results EXCEPT ![t] = Null] ELSE results

\* The service writes a task while no transaction of the migration is in its way:
\* SQLite's locks the file, PostgreSQL's locks tasks (a foreign key that references
\* it is created or dropped, or its index is).  What a command does on PostgreSQL
\* before its first lock on tasks reads and writes none of its rows: a write then is
\* as one before the command, or after it if it fails.
Write(t) ==
  /\ "tasks" \in objects /\ ~open
  /\ Inserts(t) \/ Updates(t) \/ Deletes(t)
  /\ UNCHANGED <<backend, version, objects, todo, fetched, open, saved, failed>>

Next ==
  \/ Begin \/ Creates \/ Drops \/ Refused
  \/ Selects \/ Copies \/ SelectFails \/ CopyFails
  \/ Stamps \/ Interrupted
  \/ \E t \in Tasks : Write(t)

Spec == Init /\ [][Next]_vars

-----------------------------------------------------------------------------

Objects == ObjectsOf(3)
Statements ==
  {Create(o) : o \in Objects} \cup {Drop(o) : o \in Objects}
    \cup {Select, Copy} \cup {Stamp(v) : v \in 0 .. 3}
Rows == [name : Names, result : Payloads \cup {Null}]
Contents == [Tasks -> Rows \cup {NoRow}]
Backfill == [Tasks -> Payloads \cup {Null}]

TypeOK ==
  /\ backend \in Backends
  /\ version \in 0 .. 3
  /\ objects \subseteq Objects
  /\ tasks \in Contents /\ results \in Backfill /\ fetched \in Backfill
  /\ todo \in Seq(Statements)
  /\ open \in BOOLEAN /\ failed \in BOOLEAN
  /\ saved \in [version : 0 .. 3, objects : SUBSET Objects, tasks : Contents, results : Backfill]

\* Between two commands the schema is what the recorded revision says, whatever
\* was run before: on PostgreSQL also after failures (AC-N3.5), on SQLite until a
\* first command fails (NoPartialSchema).  (SRS AC-7.1, AC-7.2)
SchemaMatchesRevision ==
  todo = <<>> /\ (backend = "sqlite" => ~failed) => objects = ObjectsOf(version)

\* A row of tasks is changed by the service alone, through every upgrade, downgrade
\* and failure, until downgrade to base drops the table: no command writes it, and
\* no rollback takes back what the service wrote.  (AC-7.4, AC-7.5)
TasksSurvive ==
  [][\A t \in Tasks :
       tasks[t] # NoRow /\ tasks'[t] # tasks[t] /\ ~Write(t)
         => /\ todo # <<>> /\ Head(todo) = Drop("tasks")
            /\ tasks' = NoRows]_vars

\* task_results comes to hold something else than its task does in two ways only:
\* the service writes the task later, or did on SQLite between the SELECT and the
\* INSERT of the back-fill.  No sequence of upgrades, downgrades and failures
\* leaves rows of an earlier back-fill behind; a rollback brings back a stale row
\* with the table that held it.
Stale(t) == results[t] \notin {Null, tasks[t].result}
OnlyWritesMakeStale ==
  [][\A t \in Tasks : ~Stale(t) /\ Stale(t)' =>
       \/ Write(t)
       \/ backend = "sqlite" /\ Copies /\ fetched[t] # tasks[t].result
       \/ open /\ RollBack]_vars

\* When revision 3 is recorded on PostgreSQL, task_results holds the results of all
\* tasks, as they are.
Records3 == todo # <<>> /\ Head(todo) = Stamp(3) /\ version' = 3
BackfillComplete ==
  [][Records3 /\ backend = "postgresql" => results' = [t \in Tasks |-> tasks'[t].result]]_vars

\* A schema that a failed command left between two revisions is never brought in
\* line by later commands: it takes a hand.
PartialSchema == todo = <<>> /\ objects # ObjectsOf(version)
Consistent == todo = <<>> /\ objects = ObjectsOf(version)
OnlyRepairedByHand == [](PartialSchema => []~Consistent)

\* AC-N3.5: "A failing migration leaves the database at the previous revision (no
\* partial schema)"; v3_split_results.upgrade: "A back-fill failure rolls the
\* task_results CREATE back before propagating, so the revision stays
\* all-or-nothing".  The first command of which a statement fails leaves the schema
\* of the revision that it leaves recorded.
NoPartialSchema ==
  [][~failed /\ (Refused \/ CopyFails) => objects' = ObjectsOf(version')]_vars

\* v3_split_results.upgrade: "every task that had result_json populated now has a
\* corresponding row in task_results", on either backend.
EveryResultHasItsRow ==
  [][Records3 => \A t \in Tasks : tasks[t].result # Null => results'[t] # Null]_vars

====
