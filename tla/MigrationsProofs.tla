---- MODULE MigrationsProofs ----
(*****************************************************************************)
(* Theorems about module Migrations, for any backends, tasks, names and      *)
(* results: what the schema is between two commands, that a schema left      *)
(* between two revisions stays so, and what the back-fill and the rows of    *)
(* tasks come to.                                                            *)
(*                                                                           *)
(* The next statement of a command tells how far it is, and with it the      *)
(* revision that is recorded and what the revision under way has created or  *)
(* dropped so far (Place).  A schema is Broken when an object is there or    *)
(* missing and no statement under way accounts for it.                       *)
(*****************************************************************************)
EXTENDS Migrations, SequenceTheorems, TLAPS

\* The statements a revision may begin with when v is recorded.
Starts(v) ==
  CASE v = 0 -> {Create("tasks")}
    [] v = 1 -> {Create("tags"), Drop("api_keys")}
    [] v = 2 -> {Create("task_results"), Drop(Index)}
    [] v = 3 -> {Drop("task_results")}
    [] OTHER -> {}

\* The statements of a revision, each with the one that comes after it.
Within ==
  {<<Create("tasks"), Create("api_keys")>>, <<Create("api_keys"), Stamp(1)>>,
   <<Create("tags"), Create("task_tags")>>, <<Create("task_tags"), Create(Index)>>,
   <<Create(Index), Stamp(2)>>,
   <<Create("task_results"), Select>>, <<Select, Copy>>, <<Copy, Stamp(3)>>,
   <<Drop("task_results"), Stamp(2)>>,
   <<Drop(Index), Drop("task_tags")>>, <<Drop("task_tags"), Drop("tags")>>,
   <<Drop("tags"), Stamp(1)>>,
   <<Drop("api_keys"), Drop("tasks")>>, <<Drop("tasks"), Stamp(0)>>}

After(s, n) == <<s, n>> \in Within \/ \E v \in 0 .. 3 : s = Stamp(v) /\ n \in Starts(v)

\* A list of whole revisions, or what is left of one.
Ordered(s) ==
  /\ \A i \in 1 .. Len(s) - 1 : After(s[i], s[i + 1])
  /\ s # <<>> => s[Len(s)].do = "stamp"

\* What holds before statement s is executed.
Place(s) ==
  \/ s = Create("tasks") /\ version = 0
  \/ s = Create("api_keys") /\ version = 0 /\ "tasks" \in objects
  \/ s = Stamp(1) /\ version = 0 /\ {"tasks", "api_keys"} \subseteq objects
  \/ s = Create("tags") /\ version = 1
  \/ s = Create("task_tags") /\ version = 1 /\ "tags" \in objects
  \/ s = Create(Index) /\ version = 1 /\ {"tags", "task_tags"} \subseteq objects
  \/ s = Stamp(2) /\ version = 1 /\ {"tags", "task_tags", Index} \subseteq objects
  \/ s = Create("task_results") /\ version = 2
  \/ s \in {Select, Copy, Stamp(3)} /\ version = 2 /\ "task_results" \in objects
  \/ s = Drop("task_results") /\ version = 3
  \/ s = Stamp(2) /\ version = 3 /\ "task_results" \notin objects /\ results = NoResults
  \/ s = Drop(Index) /\ version = 2
  \/ s = Drop("task_tags") /\ version = 2 /\ Index \notin objects
  \/ s = Drop("tags") /\ version = 2 /\ objects \cap {Index, "task_tags"} = {}
  \/ s = Stamp(1) /\ version = 2 /\ objects \cap {Index, "task_tags", "tags"} = {}
  \/ s = Drop("api_keys") /\ version = 1
  \/ s = Drop("tasks") /\ version = 1 /\ "api_keys" \notin objects
  \/ s = Stamp(0) /\ version = 1 /\ objects \cap {"api_keys", "tasks"} = {}

Placed == Ordered(todo) /\ (todo # <<>> => Place(Head(todo)))

\* The objects of a revision are created in this order and dropped in the other.
Nested ==
  /\ "api_keys" \in objects => "tasks" \in objects
  /\ Index \in objects => "tasks" \in objects /\ "task_tags" \in objects
  /\ "task_tags" \in objects => "tags" \in objects

Ahead(S) == todo # <<>> /\ Head(todo) \in S

Broken ==
  \/ version = 0 /\ "tasks" \in objects /\ ~Ahead({Create("api_keys"), Stamp(1)})
  \/ version >= 1 /\ "api_keys" \notin objects /\ ~Ahead({Drop("tasks"), Stamp(0)})
  \/ version <= 1 /\ "tags" \in objects /\ ~Ahead({Create("task_tags"), Create(Index), Stamp(2)})
  \/ version >= 2 /\ Index \notin objects /\ ~Ahead({Drop("task_tags"), Drop("tags"), Stamp(1)})
  \/ version <= 2 /\ "task_results" \in objects /\ ~Ahead({Select, Copy, Stamp(3)})
  \/ version = 3 /\ "task_results" \notin objects /\ ~Ahead({Stamp(2)})

Whole == (backend = "sqlite" => ~failed) => ~Broken

\* What a rollback undoes.
Transaction ==
  /\ backend = "postgresql" => (open <=> todo # <<>>)
  /\ backend = "sqlite" /\ open =>
       Ahead({Stamp(3)}) /\ saved.objects = objects /\ saved.version = version
  /\ backend = "postgresql" /\ open => saved.objects = ObjectsOf(saved.version)
  /\ open => tasks \in {saved.tasks, NoRows}
  /\ open /\ saved.version = 3 => \A i \in 1 .. Len(todo) : todo[i] # Stamp(3)
  /\ open /\ saved.version # 3 => saved.results = NoResults

\* task_results is empty until the back-fill, which on PostgreSQL copies the column
\* as it is.
Column == [t \in Tasks |-> tasks[t].result]
Filled ==
  /\ version # 3 /\ results # NoResults => open /\ Ahead({Stamp(3)})
  /\ backend = "postgresql" /\ Ahead({Copy}) => fetched = Column
  /\ backend = "postgresql" /\ Ahead({Stamp(3)}) => results = Column

Inv == TypeOK /\ Placed /\ Nested /\ Whole /\ Transaction /\ Filled

-----------------------------------------------------------------------------
(* Statements *)

LEMMA StatementTypes ==
  /\ \A o \in Objects : Create(o) \in Statements /\ Drop(o) \in Statements
  /\ Select \in Statements /\ Copy \in Statements
  /\ \A v \in 0 .. 3 : Stamp(v) \in Statements
BY DEF Statements

LEMMA ObjectNames ==
  Objects = {"tasks", "api_keys", "tags", "task_tags", Index, "task_results"}
BY DEF Objects, ObjectsOf

\* What comes after each statement of a revision, ...
LEMMA AfterWithin ==
  ASSUME NEW s \in Statements, NEW n \in Statements, After(s, n)
  PROVE  /\ s = Create("tasks") => n = Create("api_keys")
         /\ s = Create("api_keys") => n = Stamp(1)
         /\ s = Create("tags") => n = Create("task_tags")
         /\ s = Create("task_tags") => n = Create(Index)
         /\ s = Create(Index) => n = Stamp(2)
         /\ s = Create("task_results") => n = Select
         /\ s = Select => n = Copy
         /\ s = Copy => n = Stamp(3)
         /\ s = Drop("task_results") => n = Stamp(2)
         /\ s = Drop(Index) => n = Drop("task_tags")
         /\ s = Drop("task_tags") => n = Drop("tags")
         /\ s = Drop("tags") => n = Stamp(1)
         /\ s = Drop("api_keys") => n = Drop("tasks")
         /\ s = Drop("tasks") => n = Stamp(0)
BY DEF After, Within, Create, Drop, Select, Copy, Stamp, Index

\* ... and after each revision.
LEMMA AfterStamp ==
  ASSUME NEW v \in 0 .. 3, NEW n \in Statements, After(Stamp(v), n)
  PROVE  n \in Starts(v)
BY DEF After, Within, Create, Drop, Select, Copy, Stamp, Index

\* Once a statement is executed, the command is at the one after it.
LEMMA Advance ==
  ASSUME todo \in Seq(Statements), Ordered(todo), todo # <<>>, todo' = Tail(todo)
  PROVE  /\ Ordered(todo)' /\ todo' \in Seq(Statements) /\ Head(todo) \in Statements
         /\ todo' = <<>> => Head(todo).do = "stamp"
         /\ todo' # <<>> => Head(todo') \in Statements /\ After(Head(todo), Head(todo'))
         /\ \A i \in 1 .. Len(todo') : todo'[i] = todo[i + 1] /\ i + 1 \in 1 .. Len(todo)
<1>1. /\ todo' \in Seq(Statements) /\ Len(todo') = Len(todo) - 1 /\ Len(todo) \in Nat \ {0}
      /\ \A i \in 1 .. Len(todo') : todo'[i] = todo[i + 1]
  BY HeadTailProperties
<1>2. Head(todo) = todo[1] /\ todo[1] \in Statements
  BY <1>1
<1>3. ASSUME todo' # <<>>
      PROVE  Len(todo') >= 1 /\ Head(todo') = todo[2] /\ Head(todo') \in Statements
  BY <1>1, <1>3
<1>4. \A i \in 1 .. Len(todo') - 1 : After(todo'[i], todo'[i + 1])
  BY <1>1 DEF Ordered
<1>5. todo' # <<>> => todo'[Len(todo')].do = "stamp"
  BY <1>1, <1>3 DEF Ordered
<1>6. ASSUME todo' = <<>> PROVE Head(todo).do = "stamp"
  <2>1. Len(todo') = 0
    BY <1>6, EmptySeq
  <2>2. Len(todo) = 1
    BY <1>1, <2>1
  <2>3. QED
    BY <1>2, <2>2 DEF Ordered
<1>7. todo' # <<>> => After(Head(todo), Head(todo'))
  BY <1>1, <1>2, <1>3 DEF Ordered
<1>8. QED
  BY <1>1, <1>2, <1>3, <1>4, <1>5, <1>6, <1>7 DEF Ordered

-----------------------------------------------------------------------------
(* Commands *)

\* The statements that lead from revision a to revision b.
Chain(s, a, b) ==
  /\ s \in Seq(Statements) /\ Ordered(s)
  /\ IF s = <<>> THEN a = b ELSE s[1] \in Starts(a) /\ s[Len(s)] = Stamp(b)

LEMMA Chained ==
  ASSUME NEW a \in 0 .. 3, NEW b \in 0 .. 3, NEW c \in 0 .. 3,
         NEW s, NEW t, Chain(s, a, b), Chain(t, b, c)
  PROVE  Chain(s \o t, a, c)
<1>1. s \in Seq(Statements) /\ t \in Seq(Statements)
  BY DEF Chain
<1>2. CASE s = <<>>
  BY <1>1, <1>2, ConcatEmptySeq DEF Chain
<1>3. CASE t = <<>>
  BY <1>1, <1>3, ConcatEmptySeq DEF Chain
<1>4. CASE s # <<>> /\ t # <<>>
  <2>1. Len(s) \in Nat \ {0} /\ Len(t) \in Nat \ {0}
    BY <1>1, <1>4, EmptySeq
  <2>2. /\ s \o t \in Seq(Statements) /\ Len(s \o t) = Len(s) + Len(t)
        /\ \A i \in 1 .. Len(s) + Len(t) :
             (s \o t)[i] = IF i <= Len(s) THEN s[i] ELSE t[i - Len(s)]
    BY <1>1, ConcatProperties
  <2>3. s \o t # <<>>
    BY <2>1, <2>2, EmptySeq
  <2>4. (s \o t)[1] = s[1] /\ (s \o t)[Len(s \o t)] = t[Len(t)]
    BY <2>1, <2>2
  <2>5. ASSUME NEW i \in 1 .. Len(s \o t) - 1
        PROVE  After((s \o t)[i], (s \o t)[i + 1])
    <3>1. CASE i < Len(s)
      BY <1>4, <2>1, <2>2, <3>1 DEF Chain, Ordered
    <3>2. CASE i > Len(s)
      <4>1. i - Len(s) \in 1 .. Len(t) - 1 /\ (s \o t)[i] = t[i - Len(s)]
            /\ (s \o t)[i + 1] = t[(i - Len(s)) + 1]
        BY <2>1, <2>2, <3>2
      <4>2. QED
        BY <4>1 DEF Chain, Ordered
    <3>3. CASE i = Len(s)
      <4>1. (s \o t)[i] = Stamp(b) /\ (s \o t)[i + 1] = t[1]
        BY <1>4, <2>1, <2>2, <3>3 DEF Chain
      <4>2. t[1] \in Starts(b)
        BY <1>4 DEF Chain
      <4>3. QED
        BY <4>1, <4>2 DEF After
    <3>4. QED
      BY <2>1, <2>2, <3>1, <3>2, <3>3
  <2>6. (s \o t)[Len(s \o t)].do = "stamp"
    BY <1>4, <2>4 DEF Chain, Ordered
  <2>7. QED
    BY <1>4, <2>2, <2>3, <2>4, <2>5, <2>6 DEF Chain, Ordered
<1>5. QED
  BY <1>2, <1>3, <1>4

LEMMA NoStatements ==
  ASSUME NEW a \in 0 .. 3
  PROVE  Chain(<<>>, a, a)
BY EmptySeq DEF Chain, Ordered

LEMMA Revisions ==
  /\ Chain(UpgradeV1, 0, 1) /\ Chain(UpgradeV2, 1, 2) /\ Chain(UpgradeV3, 2, 3)
  /\ Chain(DowngradeV3, 3, 2) /\ Chain(DowngradeV2, 2, 1) /\ Chain(DowngradeV1, 1, 0)
<1>1. /\ UpgradeV1 \in Seq(Statements) /\ UpgradeV2 \in Seq(Statements)
      /\ UpgradeV3 \in Seq(Statements) /\ DowngradeV3 \in Seq(Statements)
      /\ DowngradeV2 \in Seq(Statements) /\ DowngradeV1 \in Seq(Statements)
  BY StatementTypes, ObjectNames
     DEF UpgradeV1, UpgradeV2, UpgradeV3, DowngradeV3, DowngradeV2, DowngradeV1
<1>2. \A v \in 0 .. 3 : Stamp(v).do = "stamp"
  BY DEF Stamp
<1>3. Chain(UpgradeV1, 0, 1)
  BY <1>1, <1>2 DEF Chain, Ordered, After, Within, Starts, UpgradeV1
<1>4. Chain(UpgradeV2, 1, 2)
  BY <1>1, <1>2 DEF Chain, Ordered, After, Within, Starts, UpgradeV2
<1>5. Chain(UpgradeV3, 2, 3)
  BY <1>1, <1>2 DEF Chain, Ordered, After, Within, Starts, UpgradeV3
<1>6. Chain(DowngradeV3, 3, 2)
  BY <1>1, <1>2 DEF Chain, Ordered, After, Within, Starts, DowngradeV3
<1>7. Chain(DowngradeV2, 2, 1)
  BY <1>1, <1>2 DEF Chain, Ordered, After, Within, Starts, DowngradeV2
<1>8. Chain(DowngradeV1, 1, 0)
  BY <1>1, <1>2 DEF Chain, Ordered, After, Within, Starts, DowngradeV1
<1>9. QED
  BY <1>3, <1>4, <1>5, <1>6, <1>7, <1>8

LEMMA Commands ==
  ASSUME version \in 0 .. 3, NEW v \in 0 .. 3
  PROVE  Chain(UpgradeTo(v) \o DowngradeTo(v), version, v)
<1> DEFINE u1 == IF version < 1 /\ v >= 1 THEN 1 ELSE version
           u2 == IF version < 2 /\ v >= 2 THEN 2 ELSE u1
           u3 == IF version < 3 /\ v >= 3 THEN 3 ELSE u2
           d3 == IF version >= 3 /\ v < 3 THEN 2 ELSE u3
           d2 == IF version >= 2 /\ v < 2 THEN 1 ELSE d3
           d1 == IF version >= 1 /\ v < 1 THEN 0 ELSE d2
<1>1. /\ u1 \in 0 .. 3 /\ u2 \in 0 .. 3 /\ u3 \in 0 .. 3
      /\ d3 \in 0 .. 3 /\ d2 \in 0 .. 3 /\ d1 = v
  OBVIOUS
<1>2. /\ Chain(IF version < 1 /\ v >= 1 THEN UpgradeV1 ELSE <<>>, version, u1)
      /\ Chain(IF version < 2 /\ v >= 2 THEN UpgradeV2 ELSE <<>>, u1, u2)
      /\ Chain(IF version < 3 /\ v >= 3 THEN UpgradeV3 ELSE <<>>, u2, u3)
  BY Revisions, NoStatements
<1>3. /\ Chain(IF version >= 3 /\ v < 3 THEN DowngradeV3 ELSE <<>>, u3, d3)
      /\ Chain(IF version >= 2 /\ v < 2 THEN DowngradeV2 ELSE <<>>, d3, d2)
      /\ Chain(IF version >= 1 /\ v < 1 THEN DowngradeV1 ELSE <<>>, d2, d1)
  BY Revisions, NoStatements
<1> HIDE DEF u1, u2, u3, d3, d2, d1
<1>4. Chain(UpgradeTo(v), version, u3)
  BY <1>1, <1>2, Chained DEF UpgradeTo
<1>5. Chain(DowngradeTo(v), u3, d1)
  BY <1>1, <1>3, Chained DEF DowngradeTo
<1>6. QED
  BY <1>1, <1>4, <1>5, Chained

-----------------------------------------------------------------------------
(* Steps *)

\* A step begins a command, ends one that fails, executes a statement, or writes.
BackfillFails == (Doing("select") \/ Doing("copy")) /\ CleansUp

LEMMA Kinds ==
  ASSUME Next
  PROVE  \/ Begin
         \/ todo # <<>> /\ RollBack
         \/ BackfillFails
         \/ Creates \/ Drops \/ Selects \/ Copies \/ Stamps
         \/ \E t \in Tasks : Write(t)
BY DEF Next, Refused, SelectFails, CopyFails, BackfillFails, Interrupted, Doing

\* A write leaves the other tasks as they are, and adds nothing to task_results.
LEMMA Writes ==
  ASSUME TypeOK, NEW t \in Tasks, Write(t)
  PROVE  /\ ~open /\ tasks' \in Contents /\ results' \in Backfill
         /\ UNCHANGED <<backend, version, objects, todo, fetched, open, saved, failed>>
         /\ \A u \in Tasks \ {t} : tasks'[u] = tasks[u] /\ results'[u] = results[u]
         /\ results = NoResults => results' = NoResults
<1>1. \A n \in Names, x \in Payloads \cup {Null} : Row(n, x) \in Rows
  BY DEF Row, Rows
<1>2. tasks[t] # NoRow => tasks[t].name \in Names
  BY DEF TypeOK, Contents, Rows
<1>3. CASE Inserts(t)
  BY <1>1, <1>3 DEF Write, Inserts, TypeOK, Contents
<1>4. CASE Updates(t)
  BY <1>1, <1>2, <1>4 DEF Write, Updates, TypeOK, Contents
<1>5. CASE Deletes(t)
  BY <1>5 DEF Write, Deletes, TypeOK, Contents, Backfill, NoResults
<1>6. QED
  BY <1>3, <1>4, <1>5 DEF Write

\* The statement that is executed tells how far the command is.
LEMMA AtCreate ==
  ASSUME Placed, Doing("create")
  PROVE  \/ Head(todo) = Create("tasks") /\ version = 0
         \/ Head(todo) = Create("api_keys") /\ version = 0 /\ "tasks" \in objects
         \/ Head(todo) = Create("tags") /\ version = 1
         \/ Head(todo) = Create("task_tags") /\ version = 1 /\ "tags" \in objects
         \/ Head(todo) = Create(Index) /\ version = 1 /\ {"tags", "task_tags"} \subseteq objects
         \/ Head(todo) = Create("task_results") /\ version = 2
BY DEF Placed, Place, Doing, Create, Drop, Select, Copy, Stamp

LEMMA AtDrop ==
  ASSUME Placed, Doing("drop")
  PROVE  \/ Head(todo) = Drop("task_results") /\ version = 3
         \/ Head(todo) = Drop(Index) /\ version = 2
         \/ Head(todo) = Drop("task_tags") /\ version = 2 /\ Index \notin objects
         \/ Head(todo) = Drop("tags") /\ version = 2 /\ objects \cap {Index, "task_tags"} = {}
         \/ Head(todo) = Drop("api_keys") /\ version = 1
         \/ Head(todo) = Drop("tasks") /\ version = 1 /\ "api_keys" \notin objects
BY DEF Placed, Place, Doing, Create, Drop, Select, Copy, Stamp

LEMMA AtStamp ==
  ASSUME Placed, Doing("stamp")
  PROVE  \/ Head(todo) = Stamp(1) /\ version = 0 /\ {"tasks", "api_keys"} \subseteq objects
         \/ Head(todo) = Stamp(2) /\ version = 1 /\ {"tags", "task_tags", Index} \subseteq objects
         \/ Head(todo) = Stamp(3) /\ version = 2 /\ "task_results" \in objects
         \/ Head(todo) = Stamp(2) /\ version = 3 /\ "task_results" \notin objects /\ results = NoResults
         \/ Head(todo) = Stamp(1) /\ version = 2 /\ objects \cap {Index, "task_tags", "tags"} = {}
         \/ Head(todo) = Stamp(0) /\ version = 1 /\ objects \cap {"api_keys", "tasks"} = {}
BY DEF Placed, Place, Doing, Create, Drop, Select, Copy, Stamp

LEMMA AtSelect ==
  ASSUME Placed, Doing("select") \/ Doing("copy")
  PROVE  /\ Doing("select") => Head(todo) = Select
         /\ Doing("copy") => Head(todo) = Copy
         /\ version = 2 /\ "task_results" \in objects
BY DEF Placed, Place, Doing, Create, Drop, Select, Copy, Stamp

\* The first statement of a command suits the revision that is recorded.
LEMMA Begun ==
  ASSUME TypeOK, Begin
  PROVE  /\ todo' \in Seq(Statements) /\ Ordered(todo)' /\ todo' # <<>>
         /\ Head(todo') \in Starts(version)
<1>1. PICK v \in 0 .. 3 : v # version /\ todo' = UpgradeTo(v) \o DowngradeTo(v)
  BY DEF Begin
<1>2. Chain(todo', version, v)
  BY <1>1, Commands DEF TypeOK
<1>3. todo' # <<>>
  BY <1>1, <1>2 DEF Chain
<1>4. Head(todo') = todo'[1]
  BY <1>2, <1>3, HeadTailProperties DEF Chain
<1>5. QED
  BY <1>2, <1>3, <1>4 DEF Chain, Ordered

LEMMA PlacedNext ==
  ASSUME TypeOK, Placed, Next
  PROVE  Placed'
<1> USE DEF TypeOK
<1>1. CASE Begin
  <2>1. /\ Ordered(todo)' /\ Head(todo') \in Starts(version)
        /\ version \in 0 .. 3 /\ version' = version
    BY <1>1, Begun DEF Begin, TypeOK
  <2>2. Place(Head(todo))'
    BY <2>1 DEF Starts, Place
  <2>3. QED
    BY <2>1, <2>2 DEF Placed
<1>2. CASE RollBack \/ BackfillFails
  BY <1>2 DEF RollBack, BackfillFails, CleansUp, Placed, Ordered
<1>3. CASE Creates
  <2>1. todo # <<>> /\ todo' = Tail(todo) /\ Head(todo).do = "create"
        /\ objects' = objects \cup {Head(todo).what} /\ version' = version
    BY <1>3 DEF Creates, Doing
  <2>2. /\ Ordered(todo)' /\ todo' # <<>> /\ After(Head(todo), Head(todo'))
        /\ Head(todo) \in Statements /\ Head(todo') \in Statements
    BY <2>1, Advance DEF Placed
  <2>3. \/ Head(todo) = Create("tasks") /\ version = 0
        \/ Head(todo) = Create("api_keys") /\ version = 0 /\ "tasks" \in objects
        \/ Head(todo) = Create("tags") /\ version = 1
        \/ Head(todo) = Create("task_tags") /\ version = 1 /\ "tags" \in objects
        \/ Head(todo) = Create(Index) /\ version = 1 /\ {"tags", "task_tags"} \subseteq objects
        \/ Head(todo) = Create("task_results") /\ version = 2
    BY <1>3, AtCreate DEF Creates
  <2>4. \A o : Create(o).what = o
    BY DEF Create
  <2>5. Place(Head(todo))'
    BY <2>1, <2>2, <2>3, <2>4, AfterWithin DEF Place
  <2>6. QED
    BY <2>2, <2>5 DEF Placed
<1>4. CASE Drops
  <2>1. todo # <<>> /\ todo' = Tail(todo) /\ Head(todo).do = "drop"
        /\ objects' = Without(Head(todo).what) /\ version' = version
        /\ results' = ResultsWithout(Head(todo).what)
    BY <1>4 DEF Drops, Doing
  <2>2. /\ Ordered(todo)' /\ todo' # <<>> /\ After(Head(todo), Head(todo'))
        /\ Head(todo) \in Statements /\ Head(todo') \in Statements
    BY <2>1, Advance DEF Placed
  <2>3. \/ Head(todo) = Drop("task_results") /\ version = 3
        \/ Head(todo) = Drop(Index) /\ version = 2
        \/ Head(todo) = Drop("task_tags") /\ version = 2 /\ Index \notin objects
        \/ Head(todo) = Drop("tags") /\ version = 2 /\ objects \cap {Index, "task_tags"} = {}
        \/ Head(todo) = Drop("api_keys") /\ version = 1
        \/ Head(todo) = Drop("tasks") /\ version = 1 /\ "api_keys" \notin objects
    BY <1>4, AtDrop DEF Drops
  <2>4. \A o : Drop(o).what = o
    BY DEF Drop
  <2>5. Place(Head(todo))'
    BY <2>1, <2>2, <2>3, <2>4, AfterWithin DEF Place, Without, ResultsWithout
  <2>6. QED
    BY <2>2, <2>5 DEF Placed
<1>5. CASE Selects \/ Copies
  <2>1. todo # <<>> /\ todo' = Tail(todo) /\ Head(todo).do # "stamp"
        /\ objects' = objects /\ version' = version
    BY <1>5 DEF Selects, Copies, Doing
  <2>2. /\ Ordered(todo)' /\ todo' # <<>> /\ After(Head(todo), Head(todo'))
        /\ Head(todo) \in Statements /\ Head(todo') \in Statements
    BY <2>1, Advance DEF Placed
  <2>3. Head(todo) \in {Select, Copy} /\ version = 2 /\ "task_results" \in objects
    BY <1>5, AtSelect DEF Selects, Copies
  <2>4. Place(Head(todo))'
    BY <2>1, <2>2, <2>3, AfterWithin DEF Place
  <2>5. QED
    BY <2>2, <2>4 DEF Placed
<1>6. CASE Stamps
  <2>1. todo # <<>> /\ todo' = Tail(todo) /\ version' = Head(todo).what
    BY <1>6 DEF Stamps, Doing
  <2>2. PICK v \in 0 .. 3 : Head(todo) = Stamp(v) /\ version' = v
    BY <1>6, <2>1, AtStamp DEF Stamps, Stamp
  <2>3. Ordered(todo)'
    BY <2>1, Advance DEF Placed
  <2>4. ASSUME todo' # <<>> PROVE Place(Head(todo))'
    <3>1. Head(todo') \in Starts(version')
      BY <2>1, <2>2, <2>4, Advance, AfterStamp DEF Placed
    <3>2. QED
      BY <2>2, <3>1 DEF Starts, Place
  <2>5. QED
    BY <2>3, <2>4 DEF Placed
<1>7. CASE \E t \in Tasks : Write(t)
  <2>1. UNCHANGED <<todo, version, objects>> /\ (results = NoResults => results' = NoResults)
    BY <1>7, Writes
  <2>2. QED
    BY <2>1 DEF Placed, Place, Ordered
<1>8. QED
  BY <1>1, <1>2, <1>3, <1>4, <1>5, <1>6, <1>7, Kinds

LEMMA RowTypes ==
  /\ NoRows \in Contents /\ NoResults \in Backfill
  /\ \A x \in Rows \cup {NoRow} : x.result \in Payloads \cup {Null}
BY DEF NoRow, Rows, NoRows, Contents, NoResults, Backfill

LEMMA TypesNext ==
  ASSUME TypeOK, Placed, Next
  PROVE  TypeOK'
<1>1. CASE Begin
  <2>1. todo' \in Seq(Statements)
    BY <1>1, Begun
  <2>2. Current \in [version : 0 .. 3, objects : SUBSET Objects, tasks : Contents,
                     results : Backfill]
    BY DEF TypeOK, Current
  <2>3. QED
    BY <1>1, <2>1, <2>2 DEF Begin, TypeOK
<1>2. CASE RollBack \/ BackfillFails
  <2>1. <<>> \in Seq(Statements)
    BY EmptySeq
  <2>2. QED
    BY <1>2, <2>1, RowTypes DEF RollBack, BackfillFails, CleansUp, TypeOK, data, Without, ResultsWithout
<1>3. CASE Creates
  <2>1. todo' \in Seq(Statements)
    BY <1>3, Advance DEF TypeOK, Placed, Creates, Doing
  <2>2. Head(todo).what \in Objects
    BY <1>3, AtCreate, ObjectNames DEF Creates, Create
  <2>3. QED
    BY <1>3, <2>1, <2>2 DEF Creates, TypeOK
<1>4. CASE Drops
  <2>1. todo' \in Seq(Statements)
    BY <1>4, Advance DEF TypeOK, Placed, Drops, Doing
  <2>2. QED
    BY <1>4, <2>1, RowTypes DEF Drops, TypeOK, Without, RowsWithout, ResultsWithout
<1>5. CASE Selects
  <2>1. todo' \in Seq(Statements)
    BY <1>5, Advance DEF TypeOK, Placed, Selects, Doing
  <2>2. fetched' \in Backfill
    BY <1>5, RowTypes DEF Selects, TypeOK, Contents, Backfill
  <2>3. QED
    BY <1>5, <2>1, <2>2 DEF Selects, TypeOK
<1>6. CASE Copies
  <2>1. todo' \in Seq(Statements)
    BY <1>6, Advance DEF TypeOK, Placed, Copies, Doing
  <2>2. Current \in [version : 0 .. 3, objects : SUBSET Objects, tasks : Contents,
                     results : Backfill]
    BY DEF TypeOK, Current
  <2>3. QED
    BY <1>6, <2>1, <2>2, RowTypes DEF Copies, TypeOK
<1>7. CASE Stamps
  <2>1. todo' \in Seq(Statements)
    BY <1>7, Advance DEF TypeOK, Placed, Stamps, Doing
  <2>2. Head(todo).what \in 0 .. 3
    BY <1>7, AtStamp DEF Stamps, Stamp
  <2>3. QED
    BY <1>7, <2>1, <2>2 DEF Stamps, TypeOK
<1>8. CASE \E t \in Tasks : Write(t)
  BY <1>8, Writes DEF TypeOK
<1>9. QED
  BY <1>1, <1>2, <1>3, <1>4, <1>5, <1>6, <1>7, <1>8, Kinds

\* What a rollback returns to, on either backend.
LEMMA RolledBack ==
  ASSUME TypeOK, Transaction, Nested, Placed, todo # <<>>, RollBack
  PROVE  /\ Nested'
         /\ backend = "postgresql" => objects' = ObjectsOf(version')
         /\ backend = "sqlite" => objects' = objects /\ version' = version
<1>1. backend \in {"postgresql", "sqlite"}
  BY BackendAssumption DEF TypeOK
<1>2. CASE backend = "postgresql"
  <2>1. objects' = ObjectsOf(version') /\ version' \in 0 .. 3
    BY <1>2 DEF RollBack, Transaction, TypeOK
  <2>2. Nested'
    BY <2>1 DEF Nested, ObjectsOf, Index
  <2>3. QED
    BY <1>2, <2>1, <2>2
<1>3. CASE backend = "sqlite"
  <2>1. objects' = objects /\ version' = version
    BY <1>3 DEF RollBack, Transaction, data
  <2>2. QED
    BY <1>3, <2>1 DEF Nested
<1>4. QED
  BY <1>1, <1>2, <1>3

LEMMA NestedNext ==
  ASSUME TypeOK, Placed, Nested, Transaction, Next
  PROVE  Nested'
<1>1. CASE Begin \/ Selects \/ Copies \/ Stamps \/ \E t \in Tasks : Write(t)
  BY <1>1, Writes DEF Begin, Selects, Copies, Stamps, Nested
<1>2. CASE todo # <<>> /\ RollBack
  BY <1>2, RolledBack
<1>3. CASE BackfillFails
  BY <1>3 DEF BackfillFails, CleansUp, Without, Nested, Index
<1>4. CASE Creates
  <2>1. objects' = objects \cup {Head(todo).what} /\ CanCreate(Head(todo).what)
    BY <1>4 DEF Creates
  <2>2. \A o : Create(o).what = o
    BY DEF Create
  <2>3. QED
    BY <1>4, <2>1, <2>2, AtCreate DEF Creates, CanCreate, Nested, Index
<1>5. CASE Drops
  <2>1. objects' = Without(Head(todo).what)
    BY <1>5 DEF Drops
  <2>2. \A o : Drop(o).what = o
    BY DEF Drop
  <2>3. QED
    BY <1>5, <2>1, <2>2, AtDrop DEF Drops, Without, Nested, Index
<1>6. QED
  BY <1>1, <1>2, <1>3, <1>4, <1>5, Kinds

-----------------------------------------------------------------------------
(* Broken schemas *)

\* Between two commands a schema is broken exactly when it is not that of its
\* revision.
LEMMA Idle ==
  TypeOK /\ Nested /\ todo = <<>> => (Broken <=> objects # ObjectsOf(version))
<1> SUFFICES ASSUME TypeOK, Nested, todo = <<>>
             PROVE  Broken <=> objects # ObjectsOf(version)
  OBVIOUS
<1>1. objects \subseteq Objects /\ version \in 0 .. 3
  BY DEF TypeOK
<1>2. Broken <=>
        \/ version = 0 /\ "tasks" \in objects
        \/ version >= 1 /\ "api_keys" \notin objects
        \/ version <= 1 /\ "tags" \in objects
        \/ version >= 2 /\ Index \notin objects
        \/ version <= 2 /\ "task_results" \in objects
        \/ version = 3 /\ "task_results" \notin objects
  BY DEF Broken, Ahead
<1>3. Broken => objects # ObjectsOf(version)
  BY <1>1, <1>2 DEF ObjectsOf, Index
<1>4. ASSUME ~Broken, NEW o \in Objects PROVE o \in objects <=> o \in ObjectsOf(version)
  BY <1>1, <1>2, <1>4, ObjectNames DEF Nested, ObjectsOf, Index
<1>5. ObjectsOf(version) \subseteq Objects
  BY <1>1 DEF Objects, ObjectsOf
<1>6. QED
  BY <1>1, <1>3, <1>4, <1>5

\* Statements are told apart by what they do and to what.
LEMMA Distinct ==
  /\ \A o, p : Create(o) = Create(p) => o = p
  /\ \A o, p : Drop(o) = Drop(p) => o = p
  /\ \A o, p : Create(o) # Drop(p)
  /\ \A o, v : Create(o) # Stamp(v) /\ Drop(o) # Stamp(v)
  /\ \A v \in 0 .. 3, w \in 0 .. 3 : Stamp(v) = Stamp(w) => v = w
  /\ \A o : Create(o) \notin {Select, Copy} /\ Drop(o) \notin {Select, Copy}
  /\ \A v : Stamp(v) \notin {Select, Copy}
  /\ Select # Copy
BY DEF Create, Drop, Stamp, Select, Copy

LEMMA Successor ==
  ASSUME TypeOK, Placed, todo # <<>>, todo' = Tail(todo), Head(todo).do # "stamp"
  PROVE  /\ todo' # <<>> /\ Head(todo) \in Statements /\ Head(todo') \in Statements
         /\ After(Head(todo), Head(todo'))
BY Advance DEF TypeOK, Placed

\* No statement that succeeds breaks a schema or mends one.
LEMMA BrokenCreates ==
  ASSUME TypeOK, Placed, Nested, Creates
  PROVE  Broken' <=> Broken
<1>1. todo # <<>> /\ todo' = Tail(todo) /\ Head(todo).do = "create"
      /\ objects' = objects \cup {Head(todo).what} /\ version' = version
      /\ Head(todo).what \notin objects
  BY DEF Creates, Doing, CanCreate
<1>2. /\ todo' # <<>> /\ After(Head(todo), Head(todo'))
      /\ Head(todo) \in Statements /\ Head(todo') \in Statements
  BY <1>1, Successor
<1>3. \A o : Create(o).what = o
  BY DEF Create
<1>4. CASE Head(todo) = Create("tasks") /\ version = 0
  <2>1. Head(todo') = Create("api_keys") /\ objects' = objects \cup {"tasks"}
    BY <1>1, <1>2, <1>3, <1>4, AfterWithin
  <2>2. QED
    BY <1>1, <1>2, <1>4, <2>1, Distinct DEF Broken, Ahead, Index
<1>5. CASE Head(todo) = Create("api_keys") /\ version = 0
  <2>1. Head(todo') = Stamp(1) /\ objects' = objects \cup {"api_keys"}
    BY <1>1, <1>2, <1>3, <1>5, AfterWithin
  <2>2. QED
    BY <1>1, <1>2, <1>5, <2>1, Distinct DEF Broken, Ahead, Index
<1>6. CASE Head(todo) = Create("tags") /\ version = 1
  <2>1. Head(todo') = Create("task_tags") /\ objects' = objects \cup {"tags"}
    BY <1>1, <1>2, <1>3, <1>6, AfterWithin
  <2>2. QED
    BY <1>1, <1>2, <1>6, <2>1, Distinct DEF Broken, Ahead, Index
<1>7. CASE Head(todo) = Create("task_tags") /\ version = 1
  <2>1. Head(todo') = Create(Index) /\ objects' = objects \cup {"task_tags"}
    BY <1>1, <1>2, <1>3, <1>7, AfterWithin
  <2>2. QED
    BY <1>1, <1>2, <1>7, <2>1, Distinct DEF Broken, Ahead, Index
<1>8. CASE Head(todo) = Create(Index) /\ version = 1
  <2>1. Head(todo') = Stamp(2) /\ objects' = objects \cup {Index}
    BY <1>1, <1>2, <1>3, <1>8, AfterWithin
  <2>2. QED
    BY <1>1, <1>2, <1>8, <2>1, Distinct DEF Broken, Ahead, Index
<1>9. CASE Head(todo) = Create("task_results") /\ version = 2
  <2>1. Head(todo') = Select /\ objects' = objects \cup {"task_results"}
    BY <1>1, <1>2, <1>3, <1>9, AfterWithin
  <2>2. QED
    BY <1>1, <1>2, <1>9, <2>1, Distinct DEF Broken, Ahead, Index
<1>10. QED
  BY <1>4, <1>5, <1>6, <1>7, <1>8, <1>9, AtCreate DEF Creates

LEMMA BrokenDrops ==
  ASSUME TypeOK, Placed, Nested, Drops
  PROVE  Broken' <=> Broken
<1>1. todo # <<>> /\ todo' = Tail(todo) /\ Head(todo).do = "drop"
      /\ objects' = Without(Head(todo).what) /\ version' = version
      /\ Head(todo).what \in objects
  BY DEF Drops, Doing
<1>2. /\ todo' # <<>> /\ After(Head(todo), Head(todo'))
      /\ Head(todo) \in Statements /\ Head(todo') \in Statements
  BY <1>1, Successor
<1>3. \A o : Drop(o).what = o
  BY DEF Drop
<1>4. CASE Head(todo) = Drop("task_results") /\ version = 3
  <2>1. Head(todo') = Stamp(2) /\ objects' = objects \ {"task_results"}
    BY <1>1, <1>2, <1>3, <1>4, AfterWithin DEF Without
  <2>2. QED
    BY <1>1, <1>2, <1>3, <1>4, <2>1, Distinct DEF Broken, Ahead, Index
<1>5. CASE Head(todo) = Drop(Index) /\ version = 2
  <2>1. Head(todo') = Drop("task_tags") /\ objects' = objects \ {Index}
    BY <1>1, <1>2, <1>3, <1>5, AfterWithin DEF Without
  <2>2. QED
    BY <1>1, <1>2, <1>3, <1>5, <2>1, Distinct DEF Broken, Ahead, Index
<1>6. CASE Head(todo) = Drop("task_tags") /\ version = 2
  <2>1. Head(todo') = Drop("tags") /\ objects' = objects \ {"task_tags"}
    BY <1>1, <1>2, <1>3, <1>6, AfterWithin DEF Without
  <2>2. QED
    BY <1>1, <1>2, <1>6, <2>1, Distinct DEF Broken, Ahead, Index
<1>7. CASE Head(todo) = Drop("tags") /\ version = 2
  <2>1. Head(todo') = Stamp(1) /\ objects' = objects \ {"tags"}
    BY <1>1, <1>2, <1>3, <1>7, AfterWithin DEF Without
  <2>2. QED
    BY <1>1, <1>2, <1>7, <2>1, Distinct DEF Broken, Ahead, Index
<1>8. CASE Head(todo) = Drop("api_keys") /\ version = 1
  <2>1. Head(todo') = Drop("tasks") /\ objects' = objects \ {"api_keys"}
    BY <1>1, <1>2, <1>3, <1>8, AfterWithin DEF Without
  <2>2. QED
    BY <1>1, <1>2, <1>3, <1>8, <2>1, Distinct DEF Broken, Ahead, Index
<1>9. CASE Head(todo) = Drop("tasks") /\ version = 1
  <2>1. Head(todo') = Stamp(0) /\ objects' = objects \ {"tasks", Index}
    BY <1>1, <1>2, <1>3, <1>9, AfterWithin DEF Without
  <2>2. QED
    BY <1>1, <1>2, <1>9, <2>1, Distinct DEF Broken, Ahead, Index
<1>10. QED
  BY <1>4, <1>5, <1>6, <1>7, <1>8, <1>9, AtDrop DEF Drops

LEMMA BrokenSelects ==
  ASSUME TypeOK, Placed, Nested, Selects \/ Copies
  PROVE  Broken' <=> Broken
<1>1. todo # <<>> /\ todo' = Tail(todo) /\ Head(todo).do # "stamp"
      /\ objects' = objects /\ version' = version
  BY DEF Selects, Copies, Doing
<1>2. /\ todo' # <<>> /\ After(Head(todo), Head(todo'))
      /\ Head(todo) \in Statements /\ Head(todo') \in Statements
  BY <1>1, Successor
<1>3. Head(todo) \in {Select, Copy} /\ Head(todo') \in {Copy, Stamp(3)} /\ version = 2
  BY <1>1, <1>2, AfterWithin, AtSelect DEF Selects, Copies
<1>4. QED
  BY <1>1, <1>2, <1>3, Distinct DEF Broken, Ahead, Index

\* What a command begins with accounts for nothing that is there or missing.
LEMMA Beginnings ==
  ASSUME NEW v \in 0 .. 3, NEW s \in Starts(v)
  PROVE  /\ s \notin {Create("api_keys"), Stamp(1)}
         /\ s \notin {Drop("tasks"), Stamp(0)}
         /\ s \notin {Create("task_tags"), Create(Index), Stamp(2)}
         /\ s \notin {Drop("task_tags"), Drop("tags"), Stamp(1)}
         /\ s \notin {Select, Copy, Stamp(3)}
         /\ s \notin {Stamp(2)}
BY Distinct DEF Starts, Index

LEMMA BrokenBegin ==
  ASSUME TypeOK, Placed, Nested, Begin
  PROVE  Broken' <=> Broken
<1>1. Head(todo') \in Starts(version) /\ todo = <<>> /\ version \in 0 .. 3
      /\ objects' = objects /\ version' = version
  BY Begun DEF Begin, TypeOK
<1>2. QED
  BY <1>1, Beginnings DEF Broken, Ahead

LEMMA BrokenStamps ==
  ASSUME TypeOK, Placed, Nested, Stamps
  PROVE  Broken' <=> Broken
<1>1. todo # <<>> /\ todo' = Tail(todo) /\ objects' = objects
  BY DEF Stamps, Doing
<1>2. PICK v \in 0 .. 3 : Head(todo) = Stamp(v) /\ version' = v
  BY AtStamp DEF Stamps, Stamp
<1>3. ASSUME todo' # <<>> PROVE Head(todo') \in Starts(v)
  BY <1>1, <1>2, <1>3, Advance, AfterStamp DEF Placed, TypeOK
<1>4. Broken' <=>
        \/ v = 0 /\ "tasks" \in objects
        \/ v >= 1 /\ "api_keys" \notin objects
        \/ v <= 1 /\ "tags" \in objects
        \/ v >= 2 /\ Index \notin objects
        \/ v <= 2 /\ "task_results" \in objects
        \/ v = 3 /\ "task_results" \notin objects
  BY <1>1, <1>2, <1>3, Beginnings DEF Broken, Ahead
<1>5. CASE Head(todo) = Stamp(1) /\ version = 0
             /\ {"tasks", "api_keys"} \subseteq objects
  BY <1>1, <1>2, <1>4, <1>5, Distinct DEF Broken, Ahead, Nested
<1>6. CASE Head(todo) = Stamp(2) /\ version = 1
             /\ {"tags", "task_tags", Index} \subseteq objects
  BY <1>1, <1>2, <1>4, <1>6, Distinct DEF Broken, Ahead, Nested
<1>7. CASE Head(todo) = Stamp(3) /\ version = 2
             /\ "task_results" \in objects
  BY <1>1, <1>2, <1>4, <1>7, Distinct DEF Broken, Ahead, Nested
<1>8. CASE Head(todo) = Stamp(2) /\ version = 3
             /\ "task_results" \notin objects
  BY <1>1, <1>2, <1>4, <1>8, Distinct DEF Broken, Ahead, Nested
<1>9. CASE Head(todo) = Stamp(1) /\ version = 2
             /\ objects \cap {Index, "task_tags", "tags"} = {}
  BY <1>1, <1>2, <1>4, <1>9, Distinct DEF Broken, Ahead, Nested
<1>10. CASE Head(todo) = Stamp(0) /\ version = 1
             /\ objects \cap {"api_keys", "tasks"} = {}
  BY <1>1, <1>2, <1>4, <1>10, Distinct DEF Broken, Ahead, Nested
<1>11. QED
  BY <1>5, <1>6, <1>7, <1>8, <1>9, <1>10, AtStamp DEF Stamps

LEMMA BrokenNext ==
  ASSUME TypeOK, Placed, Nested,
         Begin \/ Creates \/ Drops \/ Selects \/ Copies \/ Stamps \/ \E t \in Tasks : Write(t)
  PROVE  Broken' <=> Broken
<1>1. CASE \E t \in Tasks : Write(t)
  BY <1>1, Writes DEF Broken, Ahead
<1>2. QED
  BY <1>1, BrokenBegin, BrokenCreates, BrokenDrops, BrokenSelects, BrokenStamps

\* A schema breaks only when a command fails on SQLite ...
LEMMA WholeNext ==
  ASSUME TypeOK, Placed, Nested, Whole, Transaction, Next, TypeOK', Nested'
  PROVE  Whole'
<1>1. backend' = backend /\ backend \in {"postgresql", "sqlite"}
  BY BackendAssumption, Kinds, Writes DEF Begin, RollBack, BackfillFails, CleansUp, Creates,
     Drops, Selects, Copies, Stamps, TypeOK
<1>2. CASE BackfillFails \/ (todo # <<>> /\ RollBack)
  <2>1. CASE backend = "sqlite"
    BY <1>1, <1>2, <2>1 DEF BackfillFails, CleansUp, RollBack, Whole
  <2>2. CASE backend = "postgresql"
    <3>1. todo # <<>> /\ RollBack
      BY <1>2, <2>2 DEF BackfillFails, CleansUp, Doing, Transaction
    <3>2. todo' = <<>> /\ objects' = ObjectsOf(version')
      BY <2>2, <3>1, RolledBack DEF RollBack
    <3>3. (TypeOK /\ Nested /\ todo = <<>> => (Broken <=> objects # ObjectsOf(version)))'
      BY Idle, PTL
    <3>4. ~Broken'
      BY <3>2, <3>3
    <3>5. QED
      BY <3>4 DEF Whole
  <2>3. QED
    BY <1>1, <2>1, <2>2
<1>3. CASE Begin \/ Creates \/ Drops \/ Selects \/ Copies \/ Stamps \/ \E t \in Tasks : Write(t)
  <2>1. failed' = failed
    BY <1>3, Writes DEF Begin, Creates, Drops, Selects, Copies, Stamps
  <2>2. Broken' <=> Broken
    BY <1>3, BrokenNext
  <2>3. QED
    BY <1>1, <2>1, <2>2 DEF Whole
<1>4. QED
  BY <1>2, <1>3, Kinds

\* ... and stays broken.
LEMMA BrokenStays ==
  ASSUME TypeOK, Placed, Nested, Transaction, backend = "sqlite", Broken, Next
  PROVE  Broken'
<1>1. CASE todo # <<>> /\ RollBack
  <2>1. todo' = <<>> /\ objects' = objects /\ version' = version
    BY <1>1, RolledBack DEF RollBack
  <2>2. QED
    BY <2>1 DEF Broken, Ahead
<1>2. CASE BackfillFails
  <2>1. todo # <<>> /\ Head(todo) \in {Select, Copy} /\ version = 2
    BY <1>2, AtSelect DEF BackfillFails, Doing
  <2>2. todo' = <<>> /\ version' = version /\ objects' = objects \ {"task_results"}
    BY <1>2 DEF BackfillFails, CleansUp, Without
  <2>3. QED
    BY <2>1, <2>2 DEF Broken, Ahead, Index
<1>3. QED
  BY <1>1, <1>2, BrokenNext, Kinds

-----------------------------------------------------------------------------
(* Transactions and the back-fill *)

\* A command begun at the last revision does not lead back to it.
Avoids(s) == s \in Seq(Statements) /\ \A i \in 1 .. Len(s) : s[i] # Stamp(3)

LEMMA AvoidsBoth ==
  ASSUME NEW s, NEW t, Avoids(s), Avoids(t)
  PROVE  Avoids(s \o t)
BY ConcatProperties DEF Avoids

LEMMA NoWayBack ==
  ASSUME version = 3, NEW v \in 0 .. 3
  PROVE  Avoids(UpgradeTo(v) \o DowngradeTo(v))
<1>1. Avoids(<<>>)
  BY EmptySeq DEF Avoids
<1>2. /\ DowngradeV3 \in Seq(Statements) /\ DowngradeV2 \in Seq(Statements)
      /\ DowngradeV1 \in Seq(Statements)
  BY Revisions DEF Chain
<1>3. Avoids(DowngradeV3)
  BY <1>2, Distinct DEF Avoids, DowngradeV3
<1>4. Avoids(DowngradeV2)
  BY <1>2, Distinct DEF Avoids, DowngradeV2
<1>5. Avoids(DowngradeV1)
  BY <1>2, Distinct DEF Avoids, DowngradeV1
<1>6. Avoids(UpgradeTo(v))
  BY <1>1, AvoidsBoth DEF UpgradeTo
<1>7. Avoids(DowngradeTo(v))
  BY <1>1, <1>3, <1>4, <1>5, AvoidsBoth DEF DowngradeTo
<1>8. QED
  BY <1>6, <1>7, AvoidsBoth

\* Nothing is in task_results below revision 3, but just before it is recorded.
LEMMA Unfilled ==
  ASSUME Placed, Filled, todo # <<>>, Head(todo) # Stamp(3), version # 3
  PROVE  results = NoResults
BY DEF Filled, Ahead

\* A table that is dropped leaves task_results empty, whichever it is.
LEMMA Dropped ==
  ASSUME Placed, Filled, Drops
  PROVE  results' = NoResults
<1>1. todo # <<>> /\ Head(todo).do = "drop" /\ results' = ResultsWithout(Head(todo).what)
  BY DEF Drops, Doing
<1>2. CASE version = 3
  <2>1. Head(todo) = Drop("task_results")
    BY <1>2, AtDrop DEF Drops
  <2>2. QED
    BY <1>1, <2>1 DEF Drop, ResultsWithout
<1>3. CASE version # 3
  <2>1. Head(todo) # Stamp(3)
    BY <1>1 DEF Stamp
  <2>2. QED
    BY <1>1, <1>3, <2>1, Unfilled DEF ResultsWithout
<1>4. QED
  BY <1>2, <1>3

LEMMA TransactionNext ==
  ASSUME Inv, Next
  PROVE  Transaction'
<1>1. backend \in {"postgresql", "sqlite"} /\ version \in 0 .. 3
  BY BackendAssumption DEF Inv, TypeOK
<1>2. CASE BackfillFails \/ (todo # <<>> /\ RollBack)
  BY <1>2 DEF BackfillFails, CleansUp, Doing, RollBack, Inv, Transaction
<1>3. CASE Begin
  <2>1. CASE backend = "sqlite"
    BY <1>3, <2>1 DEF Begin, Transaction
  <2>2. CASE backend = "postgresql"
    <3>1. /\ todo = <<>> /\ open' = TRUE /\ backend' = backend /\ tasks' = tasks
          /\ saved'.version = version /\ saved'.objects = objects
          /\ saved'.tasks = tasks /\ saved'.results = results
      BY <1>3, <2>2 DEF Begin, Current
    <3>2. todo' # <<>>
      BY <1>3, Begun DEF Inv
    <3>3. objects = ObjectsOf(version)
      BY <2>2, <3>1, Idle DEF Inv, Whole
    <3>4. version # 3 => results = NoResults
      BY <3>1 DEF Inv, Filled, Ahead
    <3>5. version = 3 => \A i \in 1 .. Len(todo') : todo'[i] # Stamp(3)
      BY <1>3, NoWayBack DEF Begin, Avoids
    <3>6. QED
      BY <2>2, <3>1, <3>2, <3>3, <3>4, <3>5 DEF Transaction
  <2>3. QED
    BY <1>1, <2>1, <2>2
<1>4. CASE Creates \/ Drops \/ Selects \/ (Copies /\ UNCHANGED <<open, saved>>)
  <2>1. todo # <<>> /\ todo' = Tail(todo) /\ Head(todo).do # "stamp"
        /\ UNCHANGED <<backend, open, saved>> /\ tasks' \in {tasks, NoRows}
    BY <1>4 DEF Creates, Drops, Selects, Copies, Doing, RowsWithout
  <2>2. todo' # <<>> /\ \A i \in 1 .. Len(todo') : todo'[i] = todo[i + 1] /\ i + 1 \in 1 .. Len(todo)
    BY <2>1, Successor, Advance DEF Inv, TypeOK, Placed
  <2>3. backend = "sqlite" => ~open
    BY <2>1 DEF Inv, Transaction, Ahead, Stamp
  <2>4. QED
    BY <1>1, <2>1, <2>2, <2>3 DEF Inv, Transaction
<1>5. CASE Copies /\ ~UNCHANGED <<open, saved>>
  <2>1. /\ todo # <<>> /\ todo' = Tail(todo) /\ Head(todo).do = "copy"
        /\ ~open /\ open' = TRUE /\ saved' = Current
        /\ UNCHANGED <<backend, version, objects, tasks>>
    BY <1>5 DEF Copies, Doing
  <2>2. Head(todo) = Copy /\ version = 2
    BY <1>5, AtSelect DEF Copies, Inv
  <2>3. todo' # <<>> /\ Head(todo') = Stamp(3)
    BY <2>1, <2>2, Successor, AfterWithin DEF Inv
  <2>4. backend = "sqlite"
    BY <1>1, <2>1 DEF Inv, Transaction
  <2>5. results = NoResults
    BY <2>1, <2>2, Unfilled, Distinct DEF Inv
  <2>6. /\ saved'.version = version /\ saved'.objects = objects
        /\ saved'.tasks = tasks /\ saved'.results = results
    BY <2>1 DEF Current
  <2>7. QED
    BY <2>1, <2>2, <2>3, <2>4, <2>5, <2>6 DEF Transaction, Ahead, NoResults
<1>6. CASE Stamps
  <2>1. todo # <<>> /\ todo' = Tail(todo) /\ UNCHANGED <<backend, saved, tasks>>
        /\ open' = (backend = "postgresql" /\ todo' # <<>>)
    BY <1>6 DEF Stamps, Doing
  <2>2. \A i \in 1 .. Len(todo') : todo'[i] = todo[i + 1] /\ i + 1 \in 1 .. Len(todo)
    BY <2>1, Advance DEF Inv, TypeOK, Placed
  <2>3. open' => open
    BY <2>1 DEF Inv, Transaction
  <2>4. QED
    BY <1>1, <2>1, <2>2, <2>3 DEF Inv, Transaction
<1>7. CASE \E t \in Tasks : Write(t)
  <2>1. ~open /\ UNCHANGED <<backend, todo, open>>
    BY <1>7, Writes DEF Inv
  <2>2. QED
    BY <2>1 DEF Inv, Transaction
<1>8. QED
  BY <1>2, <1>3, <1>4, <1>5, <1>6, <1>7, Kinds

LEMMA FilledNext ==
  ASSUME Inv, Next
  PROVE  Filled'
<1>1. backend \in {"postgresql", "sqlite"} /\ version \in 0 .. 3
  BY BackendAssumption DEF Inv, TypeOK
<1>2. CASE todo # <<>> /\ RollBack
  <2>1. CASE open
    <3>1. todo' = <<>> /\ version' = saved.version /\ results' = saved.results
      BY <1>2, <2>1 DEF RollBack
    <3>2. QED
      BY <2>1, <3>1 DEF Inv, Transaction, Filled, Ahead
  <2>2. CASE ~open
    <3>1. todo' = <<>> /\ UNCHANGED <<version, results>>
      BY <1>2, <2>2 DEF RollBack, data
    <3>2. QED
      BY <2>2, <3>1 DEF Inv, Filled, Ahead
  <2>3. QED
    BY <2>1, <2>2
<1>3. CASE BackfillFails
  <2>1. todo' = <<>> /\ results' = NoResults
    BY <1>3 DEF BackfillFails, CleansUp, ResultsWithout
  <2>2. QED
    BY <2>1 DEF Filled, Ahead
<1>4. CASE Begin
  <2>1. todo = <<>> /\ Head(todo') \in Starts(version) /\ UNCHANGED <<version, results>>
    BY <1>4, Begun DEF Begin, Inv
  <2>2. Head(todo') \notin {Copy, Stamp(3)}
    BY <1>1, <2>1, Beginnings
  <2>3. QED
    BY <2>1, <2>2 DEF Inv, Filled, Ahead
<1>5. CASE Creates
  <2>1. /\ todo # <<>> /\ todo' = Tail(todo) /\ Head(todo).do = "create"
        /\ UNCHANGED <<version, results>>
    BY <1>5 DEF Creates, Doing
  <2>2. /\ todo' # <<>> /\ After(Head(todo), Head(todo'))
        /\ Head(todo) \in Statements /\ Head(todo') \in Statements
    BY <2>1, Successor DEF Inv
  <2>3. Head(todo') \notin {Copy, Stamp(3)} /\ version # 3
    BY <1>5, <2>2, AtCreate, AfterWithin, Distinct DEF Creates, Inv
  <2>4. Head(todo) # Stamp(3)
    BY <2>1 DEF Stamp
  <2>5. results = NoResults
    BY <2>1, <2>3, <2>4, Unfilled DEF Inv
  <2>6. QED
    BY <2>1, <2>3, <2>5 DEF Filled, Ahead, NoResults
<1>6. CASE Drops
  <2>1. /\ todo # <<>> /\ todo' = Tail(todo) /\ Head(todo).do = "drop"
        /\ results' = ResultsWithout(Head(todo).what)
    BY <1>6 DEF Drops, Doing
  <2>2. /\ todo' # <<>> /\ After(Head(todo), Head(todo'))
        /\ Head(todo) \in Statements /\ Head(todo') \in Statements
    BY <2>1, Successor DEF Inv
  <2>3. Head(todo') \notin {Copy, Stamp(3)}
    BY <1>6, <2>2, AtDrop, AfterWithin, Distinct DEF Drops, Inv
  <2>4. results' = NoResults
    BY <1>6, Dropped DEF Inv
  <2>5. QED
    BY <2>3, <2>4 DEF Filled, Ahead, NoResults
<1>7. CASE Selects \/ Copies
  <2>1. /\ todo # <<>> /\ todo' = Tail(todo) /\ Head(todo).do # "stamp"
        /\ UNCHANGED <<backend, version, tasks>>
    BY <1>7 DEF Selects, Copies, Doing
  <2>2. /\ todo' # <<>> /\ After(Head(todo), Head(todo'))
        /\ Head(todo) \in Statements /\ Head(todo') \in Statements
    BY <2>1, Successor DEF Inv
  <2>3. version = 2 /\ Column' = Column
    BY <1>7, <2>1, AtSelect DEF Selects, Copies, Inv, Column
  <2>4. CASE Selects
    <3>1. Head(todo) = Select /\ Head(todo') = Copy
      BY <2>2, <2>4, AtSelect, AfterWithin DEF Selects, Inv
    <3>2. results' = NoResults
      BY <2>1, <2>3, <2>4, <3>1, Unfilled, Distinct DEF Inv, Selects
    <3>3. fetched' = Column
      BY <2>4 DEF Selects, Column
    <3>4. QED
      BY <2>1, <2>3, <3>1, <3>2, <3>3, Distinct DEF Filled, Ahead, NoResults
  <2>5. CASE Copies
    <3>1. Head(todo) = Copy /\ Head(todo') = Stamp(3)
      BY <2>2, <2>5, AtSelect, AfterWithin DEF Copies, Inv
    <3>2. backend = "postgresql" => fetched = Column
      BY <2>1, <3>1 DEF Inv, Filled, Ahead
    <3>3. results' = fetched /\ (open' \/ fetched = NoResults)
      BY <2>5 DEF Copies
    <3>4. QED
      BY <2>1, <2>2, <2>3, <3>1, <3>2, <3>3, Distinct DEF Filled, Ahead, NoResults
  <2>6. QED
    BY <1>7, <2>4, <2>5
<1>8. CASE Stamps
  <2>1. /\ todo # <<>> /\ todo' = Tail(todo) /\ version' = Head(todo).what
        /\ UNCHANGED results
    BY <1>8 DEF Stamps, Doing
  <2>2. PICK v \in 0 .. 3 : Head(todo) = Stamp(v) /\ version' = v
                            /\ (version = 3 => results = NoResults)
    BY <1>8, <2>1, AtStamp DEF Stamps, Stamp, Inv
  <2>3. todo' # <<>> => Head(todo') \notin {Copy, Stamp(3)}
    BY <2>1, <2>2, Advance, AfterStamp, Beginnings DEF Inv, Placed, TypeOK
  <2>4. v # 3 => results = NoResults
    BY <2>1, <2>2, Unfilled, Distinct DEF Inv
  <2>5. QED
    BY <2>1, <2>2, <2>3, <2>4 DEF Inv, Filled, Ahead, NoResults
<1>9. CASE \E t \in Tasks : Write(t)
  <2>1. /\ ~open /\ UNCHANGED <<backend, version, todo>>
        /\ results = NoResults => results' = NoResults
    BY <1>9, Writes DEF Inv
  <2>2. backend = "postgresql" => todo = <<>>
    BY <2>1 DEF Inv, Transaction
  <2>3. version # 3 => results = NoResults
    BY <2>1 DEF Inv, Filled
  <2>4. NoResults' = NoResults
    BY DEF NoResults
  <2>5. QED
    BY <2>1, <2>2, <2>3, <2>4 DEF Filled, Ahead
<1>10. QED
  BY <1>2, <1>3, <1>4, <1>5, <1>6, <1>7, <1>8, <1>9, Kinds

-----------------------------------------------------------------------------
(* Theorems *)

LEMMA InitInv == Init => Inv
<1> SUFFICES ASSUME Init PROVE Inv
  OBVIOUS
<1>1. todo = <<>> /\ todo \in Seq(Statements) /\ Len(todo) = 0 /\ ~open
  BY EmptySeq DEF Init
<1>2. TypeOK
  <2>1. saved \in [version : 0 .. 3, objects : SUBSET Objects, tasks : Contents,
                   results : Backfill]
    BY RowTypes DEF Init, Current
  <2>2. open \in BOOLEAN /\ failed \in BOOLEAN
    BY DEF Init
  <2>3. tasks \in Contents /\ results \in Backfill /\ fetched \in Backfill
    BY RowTypes DEF Init
  <2>4. backend \in Backends /\ version \in 0 .. 3 /\ objects \subseteq Objects
    BY DEF Init
  <2>5. QED
    BY <1>1, <2>1, <2>2, <2>3, <2>4 DEF TypeOK
<1>3. Placed /\ Nested /\ Transaction
  BY <1>1 DEF Init, Placed, Ordered, Nested, Transaction
<1>4. Whole
  BY <1>1 DEF Init, Whole, Broken
<1>5. Filled
  BY <1>1 DEF Init, Filled, Ahead, NoResults
<1>6. QED
  BY <1>2, <1>3, <1>4, <1>5 DEF Inv

LEMMA NextInv == Inv /\ [Next]_vars => Inv'
<1>1. ASSUME Inv, Next PROVE Inv'
  <2>1. TypeOK' /\ Placed' /\ Nested'
    BY <1>1, TypesNext, PlacedNext, NestedNext DEF Inv
  <2>2. QED
    BY <1>1, <2>1, WholeNext, TransactionNext, FilledNext DEF Inv
<1>2. ASSUME Inv, UNCHANGED vars PROVE Inv'
  BY <1>2 DEF vars, Inv, TypeOK, Placed, Ordered, Place, Nested, Whole, Broken, Ahead,
     Transaction, Filled, Column, NoResults
<1>3. QED
  BY <1>1, <1>2

LEMMA SpecInv == Spec => []Inv
BY InitInv, NextInv, PTL DEF Spec

\* Every part of the state keeps its type.
THEOREM TypeInvariant == Spec => []TypeOK
<1>1. Inv => TypeOK
  BY DEF Inv
<1>2. QED
  BY <1>1, SpecInv, PTL

\* Between two commands the schema is that of the recorded revision, on PostgreSQL
\* after any failures and on SQLite before the first.
THEOREM SchemaIsThatOfRevision == Spec => []SchemaMatchesRevision
<1>1. Inv => SchemaMatchesRevision
  BY Idle DEF Inv, Whole, SchemaMatchesRevision
<1>2. QED
  BY <1>1, SpecInv, PTL

\* No command mends a schema that an earlier one has left between two revisions.
THEOREM BrokenForGood == Spec => OnlyRepairedByHand
<1> DEFINE Stuck == backend = "sqlite" /\ Broken
<1>1. Inv /\ PartialSchema => Stuck
  BY Idle, BackendAssumption DEF Inv, TypeOK, Whole, PartialSchema
<1>2. Inv /\ Stuck /\ [Next]_vars => Stuck'
  <2>1. ASSUME Inv, Stuck, Next PROVE Stuck'
    <3>1. backend' = backend
      BY <2>1, Kinds, Writes DEF Inv, Begin, RollBack, BackfillFails, CleansUp, Creates,
         Drops, Selects, Copies, Stamps
    <3>2. QED
      BY <2>1, <3>1, BrokenStays DEF Inv
  <2>2. ASSUME Stuck, UNCHANGED vars PROVE Stuck'
    BY <2>2 DEF vars, Broken, Ahead
  <2>3. QED
    BY <2>1, <2>2
<1>3. Inv /\ Stuck => ~Consistent
  BY Idle DEF Inv, Consistent
<1> HIDE DEF Stuck
<1>4. QED
  BY <1>1, <1>2, <1>3, SpecInv, PTL DEF Spec, OnlyRepairedByHand

\* A row of task_results comes to disagree with its task only by a write of the
\* service, after the back-fill or on SQLite in the middle of it, or comes back so
\* with a rollback.
THEOREM OnlyWritesDo == Spec => OnlyWritesMakeStale
<1> DEFINE Excused(t) == \/ Write(t)
                         \/ backend = "sqlite" /\ Copies /\ fetched[t] # tasks[t].result
                         \/ open /\ RollBack
<1>1. ASSUME Inv, Next, NEW t \in Tasks, ~Stale(t), Stale(t)'
      PROVE  Excused(t)
  <2>1. /\ results[t] \in {Null, tasks[t].result}
        /\ results'[t] # Null /\ results'[t] # tasks'[t].result
    BY <1>1 DEF Stale
  <2>2. CASE RollBack
    <3>1. ~(tasks' = tasks /\ results' = results)
      BY <2>1
    <3>2. QED
      BY <2>2, <3>1 DEF RollBack, data
  <2>3. CASE BackfillFails \/ Drops
    <3>1. results' = NoResults
      BY <1>1, <2>3, Dropped DEF BackfillFails, CleansUp, ResultsWithout, Inv
    <3>2. QED
      BY <2>1, <3>1 DEF NoResults
  <2>4. CASE Begin \/ Creates \/ Selects \/ Stamps
    BY <2>1, <2>4 DEF Begin, Creates, Selects, Stamps
  <2>5. CASE Copies
    <3>1. Head(todo) = Copy /\ todo # <<>> /\ results' = fetched /\ tasks' = tasks
      BY <1>1, <2>5, AtSelect DEF Copies, Doing, Inv
    <3>2. backend = "postgresql" => fetched[t] = tasks[t].result
      BY <1>1, <3>1 DEF Inv, Filled, Ahead, Column
    <3>3. backend \in {"postgresql", "sqlite"}
      BY <1>1, BackendAssumption DEF Inv, TypeOK
    <3>4. QED
      BY <2>1, <2>5, <3>1, <3>2, <3>3
  <2>6. CASE \E u \in Tasks : Write(u)
    BY <1>1, <2>1, <2>6, Writes DEF Inv
  <2>7. QED
    BY <1>1, <2>2, <2>3, <2>4, <2>5, <2>6, Kinds
<1>2. Inv /\ [Next]_vars => [\A t \in Tasks : ~Stale(t) /\ Stale(t)' => Excused(t)]_vars
  BY <1>1
<1>3. QED
  BY <1>2, SpecInv, PTL DEF Spec, OnlyWritesMakeStale

\* Revision 3 is recorded on PostgreSQL with the results of all tasks, whatever was
\* written, upgraded, downgraded or rolled back before.
THEOREM BackfillIsComplete == Spec => BackfillComplete
<1>1. ASSUME Inv, Next, Records3, backend = "postgresql"
      PROVE  results' = [t \in Tasks |-> tasks'[t].result]
  <2>1. todo # <<>> /\ Head(todo) = Stamp(3) /\ version' = 3
    BY <1>1 DEF Records3
  <2>2. version = 2 /\ results = Column
    <3>1. version = 2
      BY <1>1, <2>1, Distinct DEF Inv, Placed, Place
    <3>2. QED
      BY <1>1, <2>1, <3>1 DEF Inv, Filled, Ahead
  <2>3. ~RollBack
    <3>1. open => saved.version # 3
      <4>1. 1 \in 1 .. Len(todo) /\ Head(todo) = todo[1]
        BY <1>1, <2>1, EmptySeq DEF Inv, TypeOK
      <4>2. QED
        BY <2>1, <4>1, <1>1 DEF Inv, Transaction
    <3>2. QED
      BY <2>1, <2>2, <3>1 DEF RollBack, data
  <2>4. results' = results /\ tasks' = tasks
    <3>1. Head(todo).do = "stamp"
      BY <2>1 DEF Stamp
    <3>2. ~\E u \in Tasks : Write(u)
      BY <1>1, <2>1, <2>2, Writes DEF Inv
    <3>3. QED
      BY <2>1, <2>3, <3>1, <3>2, Kinds, <1>1 DEF Begin, BackfillFails, Creates, Drops,
         Selects, Copies, Doing, Stamps
  <2>5. QED
    BY <2>2, <2>4 DEF Column
<1>2. Inv /\ [Next]_vars
        => [Records3 /\ backend = "postgresql"
              => results' = [t \in Tasks |-> tasks'[t].result]]_vars
  BY <1>1
<1>3. QED
  BY <1>2, SpecInv, PTL DEF Spec, BackfillComplete

\* A row of tasks changes only when the service writes it or its table is dropped.
THEOREM RowsSurvive == Spec => TasksSurvive
<1>1. ASSUME Inv, Next, NEW t \in Tasks, tasks[t] # NoRow, tasks'[t] # tasks[t], ~Write(t)
      PROVE  todo # <<>> /\ Head(todo) = Drop("tasks") /\ tasks' = NoRows
  <2>1. tasks # NoRows
    BY <1>1 DEF NoRows
  <2>2. ~RollBack
    BY <1>1, <2>1 DEF RollBack, data, Inv, Transaction
  <2>3. ~\E u \in Tasks : Write(u)
    BY <1>1, Writes DEF Inv
  <2>4. Drops
    BY <1>1, <2>2, <2>3, Kinds DEF Begin, BackfillFails, CleansUp, Creates, Selects, Copies, Stamps
  <2>5. todo # <<>> /\ Head(todo).what = "tasks" /\ tasks' = NoRows
    BY <1>1, <2>4 DEF Drops, Doing, RowsWithout
  <2>6. Head(todo) = Drop("tasks")
    <3>1. \A o : Drop(o).what = o
      BY DEF Drop
    <3>2. Head(todo) \in {Drop("task_results"), Drop(Index), Drop("task_tags"), Drop("tags"),
                          Drop("api_keys"), Drop("tasks")}
      BY <1>1, <2>4, AtDrop DEF Drops, Inv
    <3>3. QED
      BY <2>5, <3>1, <3>2 DEF Index
  <2>7. QED
    BY <2>5, <2>6
<1>2. Inv /\ [Next]_vars
        => [\A t \in Tasks :
              tasks[t] # NoRow /\ tasks'[t] # tasks[t] /\ ~Write(t)
                => /\ todo # <<>> /\ Head(todo) = Drop("tasks")
                   /\ tasks' = NoRows]_vars
  BY <1>1
<1>3. QED
  BY <1>2, SpecInv, PTL DEF Spec, TasksSurvive
====
