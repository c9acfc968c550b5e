---- MODULE TaskApi ----
(*****************************************************************************)
(* The /v1/tasks endpoints (api/tasks.py, service/tasks.py) behind the scope *)
(* dependency (api/deps.py, service/auth.py, repository/key_repo.py).        *)
(*                                                                           *)
(* FastAPI runs the dependency, a plain def, in a worker thread: its steps   *)
(* interleave with those of other requests, also inside the lazy seeding of  *)
(* the key registry.  The endpoints are coroutines: each runs on the event   *)
(* loop in one piece up to its first await, which only the run endpoint has. *)
(*                                                                           *)
(* What a request asks for (which task, which name) is used by its endpoint  *)
(* only and is chosen there; before, only the scope it needs matters.  Names *)
(* are not told apart: a POST has either the name of a stored task or a new  *)
(* one.  What a request gets back is an answer of module Problems.           *)
(*****************************************************************************)
EXTENDS Naturals, Sequences, FiniteSets, SequencesExt, Problems

CONSTANTS
  Clients,   \* each has at most one request under way
  Listers,   \* those of them whose listings are followed page by page
  Registry,  \* _KEYS_PLAINTEXT
  Strangers, \* keys that are not in it
  ScopesOf,  \* the scopes of each key of the registry
  Tasks,     \* the ids uuid4 will give out
  Limit,     \* the page size the clients ask for
  None

ASSUME RegistryAssumption ==
  /\ Registry \cap Strangers = {}
  /\ ScopesOf \in [Registry -> SUBSET {"read", "write", "admin"}]
ASSUME ClientsAssumption == Listers \subseteq Clients
ASSUME TasksAssumption == IsFiniteSet(Tasks) /\ None \notin Tasks
ASSUME LimitAssumption == Limit \in Nat \ {0}

VARIABLES
  seeded,   \* _SEEDED
  index,    \* the keys in _HASH_TO_RECORD
  pc,       \* where the request of each client is
  key,      \* X-API-Key
  needs,    \* the scope its endpoint requires
  toSeed,   \* the keys its thread has still to put into the index
  running,  \* the task whose run its endpoint awaits
  answer,   \* what the last step answered, and to whom
  store,    \* the ids of the tasks, by created_at
  used,     \* the ids given out so far
  cursor,   \* next_cursor of the client's listing, None before the first page
            \* and after the last
  due,      \* tasks there were when the listing began, not shown yet
  shown     \* tasks shown since it last began at the first task

gateVars == <<seeded, index, key, needs, toSeed, running>>
taskVars == <<store, used>>
listVars == <<cursor, due, shown>>
vars == <<seeded, index, pc, key, needs, toSeed, running, answer, store, used,
          cursor, due, shown>>

Keys == Registry \cup Strangers
Scopes == {"read", "write", "admin"}
Stored == {store[i] : i \in 1 .. Len(store)}

\* about: the tasks whose existence, or absence, the answer lets its client know.
AnswerTo(c, response, about) == [to |-> c, response |-> response, about |-> about]
NoAnswer == AnswerTo(None, Success(0), {})

-----------------------------------------------------------------------------

Init ==
  /\ seeded = FALSE /\ index = {}
  /\ pc = [c \in Clients |-> "idle"]
  /\ key = [c \in Clients |-> None]
  /\ needs = [c \in Clients |-> None]
  /\ toSeed = [c \in Clients |-> {}]
  /\ running = [c \in Clients |-> None]
  /\ answer = NoAnswer
  /\ store = <<>> /\ used = {}
  /\ cursor = [c \in Listers |-> None]
  /\ due = [c \in Listers |-> {}] /\ shown = [c \in Listers |-> {}]

\* A request reaches the worker thread of its dependency, which reads the flag of
\* _ensure_seeded, ...
Arrive(c) ==
  /\ pc[c] = "idle"
  /\ pc' = [pc EXCEPT ![c] = IF seeded THEN "looking" ELSE "unseeded"]
  /\ \E k \in Keys : key' = [key EXCEPT ![c] = k]
  /\ \E s \in Scopes : needs' = [needs EXCEPT ![c] = s]
  /\ answer' = NoAnswer
  /\ UNCHANGED <<seeded, index, toSeed, running, taskVars, listVars>>

\* ... set, before anything is there, ...
BeginSeeding(c) ==
  /\ pc[c] = "unseeded"
  /\ seeded' = TRUE
  /\ toSeed' = [toSeed EXCEPT ![c] = Registry]
  /\ pc' = [pc EXCEPT ![c] = "seeding"]
  /\ answer' = NoAnswer
  /\ UNCHANGED <<index, key, needs, running, taskVars, listVars>>

\* Mutant of Seed: what goes into the index is the key that was presented.
SeedPresented(c) ==
  /\ pc[c] = "seeding"
  /\ \E k \in toSeed[c] :
       /\ index' = index \cup {key[c]}
       /\ toSeed' = [toSeed EXCEPT ![c] = @ \ {k}]
  /\ answer' = NoAnswer
  /\ UNCHANGED <<seeded, pc, key, needs, running, taskVars, listVars>>

\* ... and the keys are put into the index one by one.
Seed(c) ==
  /\ pc[c] = "seeding"
  /\ \E k \in toSeed[c] :
       /\ index' = index \cup {k}
       /\ toSeed' = [toSeed EXCEPT ![c] = @ \ {k}]
  /\ answer' = NoAnswer
  /\ UNCHANGED <<seeded, pc, key, needs, running, taskVars, listVars>>

\* Mutant of EndSeeding: the loop is left before its last key.
EndSeedingEarly(c) ==
  /\ pc[c] = "seeding" /\ Cardinality(toSeed[c]) <= 1
  /\ toSeed' = [toSeed EXCEPT ![c] = {}]
  /\ pc' = [pc EXCEPT ![c] = "looking"]
  /\ answer' = NoAnswer
  /\ UNCHANGED <<seeded, index, key, needs, running, taskVars, listVars>>

EndSeeding(c) ==
  /\ pc[c] = "seeding" /\ toSeed[c] = {}
  /\ pc' = [pc EXCEPT ![c] = "looking"]
  /\ answer' = NoAnswer
  /\ UNCHANGED <<gateVars, taskVars, listVars>>

\* The requests that never get there: the router finds no route or method, ...
Misrouted == {HTTPException(404), HTTPException(405)}
\* ... FastAPI reads a body that is not JSON before it runs the dependency, ...
Unreadable == {RequestValidationError}
\* ... or there is no key, which is refused before the registry is looked at.
WithoutKey == {problem(401)}

AnswerAtOnce(c) ==
  /\ pc[c] = "idle"
  /\ \E exc \in Misrouted \cup Unreadable \cup WithoutKey :
       answer' = AnswerTo(c, ProblemResponse(exc, "path", ""), {})
  /\ UNCHANGED <<gateVars, pc, taskVars, listVars>>

\* The request of c is over; its headers are gone.
Reply(c, response, about) ==
  /\ pc' = [pc EXCEPT ![c] = "idle"]
  /\ key' = [key EXCEPT ![c] = None]
  /\ needs' = [needs EXCEPT ![c] = None]
  /\ running' = [running EXCEPT ![c] = None]
  /\ answer' = AnswerTo(c, response, about)
  /\ UNCHANGED <<seeded, index, toSeed>>

\* Clients send no X-Correlation-Id, and the paths of requests are not told apart.
Raise(c, exc, about) == Reply(c, ProblemResponse(exc, "path", ""), about)

\* verify_key does not find the key.
Unauthorized(c) ==
  /\ pc[c] = "looking" /\ key[c] \notin index
  /\ Raise(c, problem(401), {})
  /\ UNCHANGED <<taskVars, listVars>>

\* Mutant of Sufficient: some scope is enough.
AnyScope(c) == ScopesOf[key[c]] # {}

Sufficient(c) == needs[c] \in ScopesOf[key[c]]

Forbidden(c) ==
  /\ pc[c] = "looking" /\ key[c] \in index /\ ~Sufficient(c)
  /\ Raise(c, problem(403), {})
  /\ UNCHANGED <<taskVars, listVars>>

\* verify_key has found the key and its scope ...
Verified(c) == pc[c] = "looking" /\ key[c] \in index /\ Sufficient(c)

\* ... and check_rate_limit (module RateLimiter) lets the request through, ...
Admitted(c) ==
  /\ Verified(c)
  /\ pc' = [pc EXCEPT ![c] = "admitted"]
  /\ answer' = NoAnswer
  /\ UNCHANGED <<gateVars, taskVars, listVars>>

\* ... refuses it, or fails.
NotAdmitted(c) ==
  /\ Verified(c)
  /\ \E exc \in {TaskQError(429, {"Retry-After"}), Unhandled} : Raise(c, exc, {})
  /\ UNCHANGED <<taskVars, listVars>>

-----------------------------------------------------------------------------
(* The endpoints. *)

Serves(c, scope) == pc[c] = "admitted" /\ needs[c] = scope

\* POST: a fresh id, later than all others.
Create(c) ==
  /\ Serves(c, "write")
  /\ \E t \in Tasks \ used :
       /\ store' = Append(store, t)
       /\ used' = used \cup {t}
       /\ Reply(c, Success(201), {t})
  /\ UNCHANGED listVars

\* The name is that of a stored task.
Conflict(c) ==
  /\ Serves(c, "write")
  /\ \E t \in Stored : Raise(c, problem(409), {t})
  /\ UNCHANGED <<taskVars, listVars>>

Get(c) ==
  /\ Serves(c, "read")
  /\ \E t \in Stored : Reply(c, Success(200), {t})
  /\ UNCHANGED <<taskVars, listVars>>

\* The rows of the runs are listed once the task was found.
ListRuns(c) ==
  /\ Serves(c, "read")
  /\ \E t \in Stored : Reply(c, Success(200), {t})
  /\ UNCHANGED <<taskVars, listVars>>

\* Mutant of NotFound: the task is looked for before the scope is.
NotFoundFirst(c) ==
  /\ pc[c] \in {"looking", "admitted"}
  /\ \E t \in Tasks \ Stored : Raise(c, problem(404), {t})
  /\ UNCHANGED <<taskVars, listVars>>

\* An endpoint that names a task finds that there is none, or no longer.
NotFound(c) ==
  /\ pc[c] = "admitted"
  /\ \E t \in Tasks \ Stored : Raise(c, problem(404), {t})
  /\ UNCHANGED <<taskVars, listVars>>

\* A body that is not valid, and a limit that is out of range, are refused after
\* the dependency and before the store.
InvalidBody(c) ==
  /\ Serves(c, "write")
  /\ Raise(c, RequestValidationError, {})
  /\ UNCHANGED <<taskVars, listVars>>

InvalidLimit(c) ==
  /\ Serves(c, "read")
  /\ Raise(c, problem(422), {})
  /\ UNCHANGED <<taskVars, listVars>>

Delete(c) ==
  /\ Serves(c, "admin")
  /\ \E i \in 1 .. Len(store) :
       /\ store' = RemoveAt(store, i)
       /\ Reply(c, Success(204), {store[i]})
  /\ UNCHANGED <<used, listVars>>

\* The run endpoint reads the task, writes the run's row without an await in
\* between, and awaits the command (module RunHistory), ...
Run(c) ==
  /\ Serves(c, "write")
  /\ \E t \in Stored : running' = [running EXCEPT ![c] = t]
  /\ pc' = [pc EXCEPT ![c] = "running"]
  /\ answer' = NoAnswer
  /\ UNCHANGED <<seeded, index, key, needs, toSeed, taskVars, listVars>>

\* ... while the task may be deleted: its run is answered with all the same.
RunEnds(c) ==
  /\ pc[c] = "running"
  /\ Reply(c, Success(202), {running[c]})
  /\ UNCHANGED <<taskVars, listVars>>

\* An upsert fails, or the command cannot be executed.
RunFails(c) ==
  /\ pc[c] = "running" \/ (Serves(c, "write") /\ Stored # {})
  /\ Raise(c, Unhandled, {})
  /\ UNCHANGED <<taskVars, listVars>>

\* /v1/metrics counts the stored tasks.
Metrics(c) ==
  /\ Serves(c, "admin")
  /\ Reply(c, Success(200), Stored)
  /\ UNCHANGED <<taskVars, listVars>>

-----------------------------------------------------------------------------
(* The listing. *)

\* Mutant of StartOf: the page begins with the cursor's task.
StartAtCursor(at) ==
  IF \E i \in 1 .. Len(store) : store[i] = at
  THEN (CHOOSE i \in 1 .. Len(store) : store[i] = at) - 1 ELSE 0

\* How many tasks the page skips: a cursor whose task is gone is no cursor.
StartOf(at) ==
  IF \E i \in 1 .. Len(store) : store[i] = at
  THEN CHOOSE i \in 1 .. Len(store) : store[i] = at ELSE 0

\* Mutant of NextCursor: the page after a full page is taken to be the last.
NextCursorEarly(start) ==
  IF start + 2 * Limit < Len(store) THEN store[start + Limit] ELSE None

NextCursor(start) ==
  IF start + Limit < Len(store) THEN store[start + Limit] ELSE None

PageOf(start) == {store[i] : i \in {j \in 1 .. Len(store) : start < j /\ j <= start + Limit}}

\* GET with the cursor of the page before, or without.
List(c) ==
  LET start == StartOf(cursor[c]) IN
  /\ c \in Listers /\ Serves(c, "read")
  /\ cursor' = [cursor EXCEPT ![c] = NextCursor(start)]
  /\ due' = [due EXCEPT ![c] = (IF cursor[c] = None THEN Stored ELSE @) \ PageOf(start)]
  /\ shown' = [shown EXCEPT ![c] = (IF start = 0 THEN {} ELSE @) \cup PageOf(start)]
  /\ Reply(c, Success(200), PageOf(start))
  /\ UNCHANGED taskVars

-----------------------------------------------------------------------------

Gate(c) ==
  \/ Arrive(c) \/ AnswerAtOnce(c)
  \/ BeginSeeding(c) \/ Seed(c) \/ EndSeeding(c)
  \/ Unauthorized(c) \/ Forbidden(c) \/ Admitted(c) \/ NotAdmitted(c)

Endpoint(c) ==
  \/ Create(c) \/ Conflict(c) \/ Get(c) \/ ListRuns(c) \/ NotFound(c)
  \/ InvalidBody(c) \/ InvalidLimit(c) \/ Delete(c) \/ Run(c) \/ RunEnds(c) \/ RunFails(c) \/ List(c) \/ Metrics(c)

Next == \E c \in Clients : Gate(c) \/ Endpoint(c)

Spec == Init /\ [][Next]_vars

-----------------------------------------------------------------------------
(* Properties *)

Pc == {"idle", "unseeded", "seeding", "looking", "admitted",
       "running"}
Exceptions ==
  Misrouted \cup Unreadable \cup {Unhandled, TaskQError(429, {"Retry-After"})}
    \cup {problem(n) : n \in {401, 403, 404, 409, 422}}
Responses ==
  {Success(n) : n \in {0, 200, 201, 202, 204}}
    \cup {ProblemResponse(e, "path", "") : e \in Exceptions}

TypeOK ==
  /\ seeded \in BOOLEAN /\ index \subseteq Registry
  /\ pc \in [Clients -> Pc]
  /\ key \in [Clients -> Keys \cup {None}]
  /\ needs \in [Clients -> Scopes \cup {None}]
  /\ toSeed \in [Clients -> SUBSET Registry]
  /\ running \in [Clients -> Tasks \cup {None}]
  /\ \A c \in Clients : pc[c] = "running" => running[c] # None
  /\ answer \in [to : Clients \cup {None}, response : Responses, about : SUBSET Tasks]
  /\ store \in Seq(used)
  /\ \A i, j \in 1 .. Len(store) : store[i] = store[j] => i = j
  /\ used \subseteq Tasks
  /\ cursor \in [Listers -> used \cup {None}]
  /\ due \in [Listers -> SUBSET used] /\ shown \in [Listers -> SUBSET used]

\* A key of the registry that has the scope is answered 401 only while some thread
\* is still seeding; it never is once a seeding is over (FR-03).
RefusedOnlyWhileSeeding ==
  [][\A c \in Clients :
       pc[c] = "looking" /\ answer'.response.status = 401 /\ answer'.to = c
         /\ key[c] \in Registry /\ Sufficient(c)
         => \E d \in Clients : toSeed[d] # {}]_vars

\* Only a key that has the scope makes a task, runs it or removes it, also when
\* requests with other keys are under way (AC-4.1 to AC-4.3).
May(c, scope) == key[c] \in Registry /\ scope \in ScopesOf[key[c]]

WritesAreAuthorised ==
  [][\A c \in Clients :
       /\ Len(store') > Len(store) /\ pc'[c] # pc[c] => May(c, "write")
       /\ Len(store') < Len(store) /\ pc'[c] # pc[c] => May(c, "admin")
       /\ pc[c] # "running" /\ pc'[c] = "running" => May(c, "write")]_vars

\* Whether a task exists is told only to a client whose key has the scope that its
\* request needs, by a 404 or a 409 as little as by a page or a count, also when
\* tasks come and go under the request (AC-1.6, AC-4.2, AC-9.5).
OnlyAuthorisedLearnExistence ==
  [][answer'.about # {} => May(answer'.to, needs[answer'.to])]_vars

\* A client that follows next_cursor to the end was shown every task that was
\* there when it began and was not deleted since, whatever other clients created
\* or deleted in between, its cursor's task included (AC-1.9).
ListingComplete ==
  \A c \in Listers : cursor[c] = None => due[c] \cap Stored = {}

\* A page that continues a listing shows no task again that was shown since the
\* listing last began at the first task: only a deleted cursor repeats any.
ListedOnce ==
  [][\A c \in Listers :
       List(c) /\ cursor[c] \in Stored
         => PageOf(StartOf(cursor[c])) \cap shown[c] = {}]_vars

====
