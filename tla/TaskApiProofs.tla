---- MODULE TaskApiProofs ----
(*****************************************************************************)
(* Theorems about module TaskApi, for any clients, keys, scopes and tasks    *)
(* and any page size: who may write, who learns which tasks exist, when a    *)
(* valid key is refused, and what a listing shows.                           *)
(*                                                                           *)
(* The invariant has two parts.  Gatekept is about the dependency: a key of  *)
(* the registry that is not in the index yet is still in the hands of a      *)
(* thread, and a request that was let in has a key with its scope.           *)
(* Positions is about the listings: what is still due comes after the        *)
(* cursor's task in the store, and what was shown does not.                  *)
(*****************************************************************************)
EXTENDS TaskApi, SequenceTheorems, TLAPS

\* The two halves of TypeOK.
GateType ==
  /\ seeded \in BOOLEAN /\ index \subseteq Registry
  /\ pc \in [Clients -> Pc]
  /\ key \in [Clients -> Keys \cup {None}]
  /\ needs \in [Clients -> Scopes \cup {None}]
  /\ toSeed \in [Clients -> SUBSET Registry]
  /\ running \in [Clients -> Tasks \cup {None}]
  /\ \A c \in Clients : pc[c] = "running" => running[c] # None
  /\ answer \in [to : Clients \cup {None}, response : Responses, about : SUBSET Tasks]
DataType ==
  /\ store \in Seq(used)
  /\ \A i, j \in 1 .. Len(store) : store[i] = store[j] => i = j
  /\ used \subseteq Tasks
  /\ cursor \in [Listers -> used \cup {None}]
  /\ due \in [Listers -> SUBSET used] /\ shown \in [Listers -> SUBSET used]

LEMMA Types == TypeOK <=> GateType /\ DataType
BY DEF TypeOK, GateType, DataType

Gatekept ==
  /\ \A c \in Clients : pc[c] \notin {"idle", "unseeded"} => seeded
  /\ seeded => \A k \in Registry : k \in index \/ \E c \in Clients : k \in toSeed[c]
  /\ \A c \in Clients : pc[c] \in {"admitted", "running"} =>
       key[c] \in Registry /\ Sufficient(c)

Positions ==
  \A c \in Listers : \A i, j \in 1 .. Len(store) : cursor[c] = store[i] =>
    /\ store[j] \in due[c] => i < j
    /\ store[j] \in shown[c] => j <= i

Inv == GateType /\ DataType /\ Gatekept /\ Positions /\ ListingComplete

-----------------------------------------------------------------------------
(* Answers *)

\* What the endpoints and the dependency raise is answered by a problem of these.
LEMMA RaisedTypes ==
  /\ \A exc \in Exceptions : ProblemResponse(exc, "path", "") \in Responses
  /\ Success(0) \in Responses /\ Success(200) \in Responses
  /\ Success(201) \in Responses /\ Success(202) \in Responses
  /\ Success(204) \in Responses
  /\ problem(401) \in Exceptions /\ problem(403) \in Exceptions
  /\ problem(404) \in Exceptions /\ problem(409) \in Exceptions
  /\ problem(422) \in Exceptions
  /\ RequestValidationError \in Exceptions /\ Unhandled \in Exceptions
  /\ TaskQError(429, {"Retry-After"}) \in Exceptions
  /\ Misrouted \cup Unreadable \cup WithoutKey \subseteq Exceptions
<1>1. \A exc \in Exceptions : ProblemResponse(exc, "path", "") \in Responses
  BY DEF Responses
<1>2. ASSUME NEW n \in {0, 200, 201, 202, 204} PROVE Success(n) \in Responses
  <2>1. Success(n) \in {Success(m) : m \in {0, 200, 201, 202, 204}}
    OBVIOUS
  <2>2. {Success(m) : m \in {0, 200, 201, 202, 204}} \subseteq Responses
    BY Zenon DEF Responses
  <2>3. QED
    BY <2>1, <2>2
<1>3. ASSUME NEW n \in {401, 403, 404, 409, 422} PROVE problem(n) \in Exceptions
  BY DEF Exceptions
<1>4. RequestValidationError \in Exceptions /\ Unhandled \in Exceptions
  BY DEF Exceptions, Unreadable
<1>5. TaskQError(429, {"Retry-After"}) \in Exceptions
  BY DEF Exceptions
<1>6. Misrouted \cup Unreadable \subseteq Exceptions
  BY Zenon DEF Exceptions
<1>7. /\ problem(401) \in Exceptions /\ problem(403) \in Exceptions
      /\ problem(404) \in Exceptions /\ problem(409) \in Exceptions
      /\ problem(422) \in Exceptions
  BY <1>3
<1>8. WithoutKey \subseteq Exceptions
  BY <1>7 DEF WithoutKey
<1>9. /\ Success(0) \in Responses /\ Success(200) \in Responses
      /\ Success(201) \in Responses /\ Success(202) \in Responses
      /\ Success(204) \in Responses
  BY <1>2
<1>10. QED
  BY <1>1, <1>4, <1>5, <1>6, <1>7, <1>8, <1>9

\* The end of a request: its answer is typed and nothing else of the gate moves.
LEMMA ReplyType ==
  ASSUME GateType, NEW c \in Clients, NEW response \in Responses,
         NEW about \in SUBSET Tasks, Reply(c, response, about)
  PROVE  GateType'
BY DEF GateType, Reply, AnswerTo, Pc

LEMMA RaiseType ==
  ASSUME GateType, NEW c \in Clients, NEW exc \in Exceptions,
         NEW about \in SUBSET Tasks, Raise(c, exc, about)
  PROVE  GateType'
<1>1. ProblemResponse(exc, "path", "") \in Responses
  BY RaisedTypes
<1>2. QED
  BY <1>1, ReplyType DEF Raise

\* A reply opens no gate.
LEMMA ReplyKept ==
  ASSUME GateType, Gatekept, NEW c \in Clients, NEW response, NEW about,
         Reply(c, response, about)
  PROVE  Gatekept'
BY DEF GateType, Gatekept, Reply, Sufficient

LEMMA NoAnswerType ==
  NoAnswer \in [to : Clients \cup {None}, response : Responses, about : SUBSET Tasks]
BY RaisedTypes DEF NoAnswer, AnswerTo

-----------------------------------------------------------------------------
(* The dependency. *)

\* Its steps leave the tasks and the listings alone.
LEMMA GateFrame ==
  ASSUME NEW c \in Clients, Gate(c)
  PROVE  UNCHANGED <<taskVars, listVars>>
BY DEF Gate, Arrive, AnswerAtOnce, BeginSeeding, Seed, EndSeeding, Unauthorized,
       Forbidden, Admitted, NotAdmitted

LEMMA GateTypes ==
  ASSUME GateType, NEW c \in Clients, Gate(c)
  PROVE  GateType'
<1>1. CASE Arrive(c)
  BY <1>1, NoAnswerType DEF Arrive, GateType, Pc
<1>2. CASE AnswerAtOnce(c)
  <2>1. PICK exc \in Exceptions : answer' = AnswerTo(c, ProblemResponse(exc, "path", ""), {})
    BY <1>2, RaisedTypes DEF AnswerAtOnce
  <2>2. ProblemResponse(exc, "path", "") \in Responses
    BY RaisedTypes
  <2>3. answer' \in [to : Clients \cup {None}, response : Responses, about : SUBSET Tasks]
    BY <2>1, <2>2 DEF AnswerTo
  <2>4. QED
    BY <1>2, <2>3 DEF AnswerAtOnce, gateVars, GateType
<1>3. CASE BeginSeeding(c)
  BY <1>3, NoAnswerType DEF BeginSeeding, GateType, Pc
<1>4. CASE Seed(c)
  BY <1>4, NoAnswerType DEF Seed, GateType
<1>5. CASE EndSeeding(c)
  BY <1>5, NoAnswerType DEF EndSeeding, gateVars, GateType, Pc
<1>6. CASE Unauthorized(c)
  <2>1. problem(401) \in Exceptions /\ {} \in SUBSET Tasks
    BY RaisedTypes
  <2>2. QED
    BY <1>6, <2>1, RaiseType DEF Unauthorized
<1>7. CASE Forbidden(c)
  <2>1. problem(403) \in Exceptions /\ {} \in SUBSET Tasks
    BY RaisedTypes
  <2>2. QED
    BY <1>7, <2>1, RaiseType DEF Forbidden
<1>8. CASE Admitted(c)
  BY <1>8, NoAnswerType DEF Admitted, gateVars, GateType, Pc
<1>9. CASE NotAdmitted(c)
  <2>1. /\ TaskQError(429, {"Retry-After"}) \in Exceptions /\ Unhandled \in Exceptions
        /\ {} \in SUBSET Tasks
    BY RaisedTypes
  <2>2. PICK exc \in {TaskQError(429, {"Retry-After"}), Unhandled} : Raise(c, exc, {})
    BY <1>9 DEF NotAdmitted
  <2>3. QED
    BY <2>1, <2>2, RaiseType
<1>10. QED
  BY <1>1, <1>2, <1>3, <1>4, <1>5, <1>6, <1>7, <1>8, <1>9 DEF Gate

\* A key on its way into the index is in toSeed until it is there.
LEMMA GateKept ==
  ASSUME GateType, Gatekept, NEW c \in Clients, Gate(c)
  PROVE  Gatekept'
<1>1. CASE Arrive(c)
  BY <1>1 DEF Arrive, GateType, Gatekept, Sufficient
<1>2. CASE AnswerAtOnce(c)
  BY <1>2 DEF AnswerAtOnce, gateVars, GateType, Gatekept, Sufficient
<1>3. CASE BeginSeeding(c)
  BY <1>3 DEF BeginSeeding, GateType, Gatekept, Sufficient
<1>4. CASE Seed(c)
  <2>1. ASSUME seeded', NEW k \in Registry
        PROVE  k \in index' \/ \E d \in Clients : k \in toSeed'[d]
    <3>1. PICK l \in toSeed[c] : /\ index' = index \cup {l}
                                /\ toSeed' = [toSeed EXCEPT ![c] = @ \ {l}]
      BY <1>4 DEF Seed
    <3>2. k \in index \/ \E d \in Clients : k \in toSeed[d]
      BY <1>4, <2>1 DEF Seed, Gatekept
    <3>3. QED
      BY <3>1, <3>2 DEF GateType
  <2>2. QED
    BY <1>4, <2>1 DEF Seed, Gatekept, Sufficient
<1>5. CASE EndSeeding(c)
  BY <1>5 DEF EndSeeding, gateVars, GateType, Gatekept, Sufficient
<1>6. CASE Unauthorized(c) \/ Forbidden(c) \/ NotAdmitted(c)
  BY <1>6, ReplyKept DEF Unauthorized, Forbidden, NotAdmitted, Raise
<1>7. CASE Admitted(c)
  BY <1>7 DEF Admitted, Verified, gateVars, GateType, Gatekept, Sufficient
<1>8. QED
  BY <1>1, <1>2, <1>3, <1>4, <1>5, <1>6, <1>7 DEF Gate
-----------------------------------------------------------------------------
(* The endpoints. *)

\* Those that only look leave the tasks and the listings alone.
Looks(c) ==
  \/ Conflict(c) \/ Get(c) \/ ListRuns(c) \/ NotFound(c)
  \/ InvalidBody(c) \/ InvalidLimit(c) \/ RunEnds(c) \/ Metrics(c)

LEMMA LooksFrame ==
  ASSUME NEW c \in Clients, Looks(c)
  PROVE  UNCHANGED <<taskVars, listVars>>
BY DEF Looks, Conflict, Get, ListRuns, NotFound, InvalidBody, InvalidLimit, RunEnds, Metrics

\* A run neither begins nor ends with a change of the store.
LEMMA RunFrame ==
  ASSUME NEW c \in Clients, Run(c) \/ RunFails(c)
  PROVE  UNCHANGED <<taskVars, listVars>>
BY DEF Run, RunFails

\* The stored tasks have ids that were given out.
LEMMA StoredTypes ==
  ASSUME DataType
  PROVE  /\ Len(store) \in Nat
         /\ \A i \in 1 .. Len(store) : store[i] \in used /\ store[i] \in Tasks
         /\ Stored \subseteq used /\ Stored \subseteq Tasks
         /\ \A start : PageOf(start) \subseteq Stored
BY LenProperties, ElementOfSeq DEF DataType, Stored, PageOf

LEMMA LooksType ==
  ASSUME GateType, DataType, NEW c \in Clients, Looks(c)
  PROVE  GateType'
<1>1. /\ problem(409) \in Exceptions /\ problem(404) \in Exceptions
      /\ problem(422) \in Exceptions /\ RequestValidationError \in Exceptions
      /\ Success(200) \in Responses /\ Success(202) \in Responses
  BY RaisedTypes
<1>2. /\ Stored \in SUBSET Tasks /\ {} \in SUBSET Tasks
      /\ \A t \in Tasks : {t} \in SUBSET Tasks
  BY StoredTypes
<1>3. CASE Conflict(c)
  <2>1. PICK t \in Stored : Raise(c, problem(409), {t})
    BY <1>3 DEF Conflict
  <2>2. {t} \in SUBSET Tasks
    BY <1>2
  <2>3. QED
    BY <1>1, <2>1, <2>2, RaiseType
<1>4. CASE Get(c) \/ ListRuns(c)
  <2>1. PICK t \in Stored : Reply(c, Success(200), {t})
    BY <1>4 DEF Get, ListRuns
  <2>2. {t} \in SUBSET Tasks
    BY <1>2
  <2>3. QED
    BY <1>1, <2>1, <2>2, ReplyType
<1>5. CASE NotFound(c)
  <2>1. PICK t \in Tasks : Raise(c, problem(404), {t})
    BY <1>5 DEF NotFound
  <2>2. {t} \in SUBSET Tasks
    BY <1>2
  <2>3. QED
    BY <1>1, <2>1, <2>2, RaiseType
<1>6. CASE InvalidBody(c)
  BY <1>1, <1>2, <1>6, RaiseType DEF InvalidBody
<1>7. CASE InvalidLimit(c)
  BY <1>1, <1>2, <1>7, RaiseType DEF InvalidLimit
<1>8. CASE RunEnds(c)
  <2>1. Reply(c, Success(202), {running[c]})
    BY <1>8 DEF RunEnds
  <2>2. {running[c]} \in SUBSET Tasks
    BY <1>8 DEF RunEnds, GateType
  <2>3. QED
    BY <1>1, <2>1, <2>2, ReplyType
<1>9. CASE Metrics(c)
  BY <1>1, <1>2, <1>9, ReplyType DEF Metrics
<1>10. QED
  BY <1>3, <1>4, <1>5, <1>6, <1>7, <1>8, <1>9 DEF Looks

LEMMA EndpointTypes ==
  ASSUME GateType, DataType, NEW c \in Clients, Endpoint(c)
  PROVE  GateType'
<1>1. /\ Success(200) \in Responses /\ Success(201) \in Responses
      /\ Success(204) \in Responses /\ Unhandled \in Exceptions
  BY RaisedTypes
<1>2. CASE Looks(c)
  BY <1>2, LooksType
<1>3. CASE Create(c)
  <2>1. PICK t \in Tasks : Reply(c, Success(201), {t})
    BY <1>3 DEF Create
  <2>2. {t} \in SUBSET Tasks
    OBVIOUS
  <2>3. QED
    BY <1>1, <2>1, <2>2, ReplyType
<1>4. CASE Delete(c)
  <2>1. PICK i \in 1 .. Len(store) : Reply(c, Success(204), {store[i]})
    BY <1>4 DEF Delete
  <2>2. {store[i]} \in SUBSET Tasks
    BY StoredTypes
  <2>3. QED
    BY <1>1, <2>1, <2>2, ReplyType
<1>5. CASE Run(c)
  <2>1. PICK t \in Stored : running' = [running EXCEPT ![c] = t]
    BY <1>5 DEF Run
  <2>2. t \in Tasks /\ t # None
    BY StoredTypes, TasksAssumption
  <2>3. QED
    BY <1>5, <2>1, <2>2, NoAnswerType DEF Run, GateType, Pc
<1>6. CASE RunFails(c)
  <2>1. Raise(c, Unhandled, {}) /\ {} \in SUBSET Tasks
    BY <1>6 DEF RunFails
  <2>2. QED
    BY <1>1, <2>1, RaiseType
<1>7. CASE List(c)
  <2>1. PageOf(StartOf(cursor[c])) \in SUBSET Tasks
    BY StoredTypes
  <2>2. QED
    BY <1>1, <1>7, <2>1, ReplyType DEF List
<1>8. QED
  BY <1>2, <1>3, <1>4, <1>5, <1>6, <1>7 DEF Endpoint, Looks

\* An endpoint serves only requests that were let in.
LEMMA EndpointKept ==
  ASSUME GateType, Gatekept, NEW c \in Clients, Endpoint(c)
  PROVE  Gatekept'
<1>1. CASE Run(c)
  BY <1>1 DEF Run, Serves, GateType, Gatekept, Sufficient
<1>2. CASE ~Run(c)
  <2>1. \E response, about : Reply(c, response, about)
    BY <1>2 DEF Endpoint, Create, Conflict, Get, ListRuns, NotFound, InvalidBody,
                InvalidLimit, Delete, RunEnds, RunFails, List, Metrics, Raise
  <2>2. QED
    BY <2>1, ReplyKept
<1>3. QED
  BY <1>1, <1>2
-----------------------------------------------------------------------------
(* The tasks and the listings. *)

\* What is left of a sequence without its k-th element.
LEMMA RemoveAtFacts ==
  ASSUME NEW S, NEW q \in Seq(S), NEW k \in 1 .. Len(q)
  PROVE  /\ RemoveAt(q, k) \in Seq(S)
         /\ Len(RemoveAt(q, k)) = Len(q) - 1
         /\ \A i \in 1 .. Len(q) - 1 :
              RemoveAt(q, k)[i] = IF i < k THEN q[i] ELSE q[i + 1]
<1> DEFINE a == SubSeq(q, 1, k - 1)
           b == SubSeq(q, k + 1, Len(q))
<1>1. Len(q) \in Nat /\ \A i \in 1 .. Len(q) : q[i] \in S
  BY LenProperties, ElementOfSeq
<1>2. /\ a \in Seq(S) /\ Len(a) = k - 1
      /\ \A i \in 1 .. k - 1 : a[i] = q[i]
  <2>1. \A i \in 1 .. k - 1 : q[i] \in S
    BY <1>1
  <2>2. 1 \in Int /\ k - 1 \in Int
    BY <1>1
  <2>3. /\ a \in Seq(S) /\ Len(a) = (IF 1 <= k - 1 THEN k - 1 - 1 + 1 ELSE 0)
        /\ \A i \in 1 .. k - 1 - 1 + 1 : a[i] = q[1 + i - 1]
    BY <2>1, <2>2, SubSeqProperties
  <2> HIDE DEF a
  <2>4. QED
    BY <1>1, <2>3
<1>3. /\ b \in Seq(S) /\ Len(b) = Len(q) - k
      /\ \A i \in 1 .. Len(q) - k : b[i] = q[k + i]
  <2>1. \A i \in k + 1 .. Len(q) : q[i] \in S
    BY <1>1
  <2>2. k + 1 \in Int /\ Len(q) \in Int
    BY <1>1
  <2>3. /\ b \in Seq(S)
        /\ Len(b) = (IF k + 1 <= Len(q) THEN Len(q) - (k + 1) + 1 ELSE 0)
        /\ \A i \in 1 .. Len(q) - (k + 1) + 1 : b[i] = q[k + 1 + i - 1]
    BY <2>1, <2>2, SubSeqProperties
  <2> HIDE DEF b
  <2>4. QED
    BY <1>1, <2>3
<1> HIDE DEF a, b
<1>4. /\ a \o b \in Seq(S)
      /\ Len(a \o b) = Len(a) + Len(b)
      /\ \A i \in 1 .. Len(a) + Len(b) :
           (a \o b)[i] = IF i <= Len(a) THEN a[i] ELSE b[i - Len(a)]
  BY <1>2, <1>3, ConcatProperties
<1>5. RemoveAt(q, k) = a \o b
  BY DEF RemoveAt, a, b
<1>6. ASSUME NEW i \in 1 .. Len(q) - 1
      PROVE  (a \o b)[i] = IF i < k THEN q[i] ELSE q[i + 1]
  <2>1. (a \o b)[i] = IF i <= k - 1 THEN a[i] ELSE b[i - (k - 1)]
    BY <1>1, <1>2, <1>3, <1>4
  <2>2. CASE i < k
    BY <1>1, <1>2, <2>1, <2>2
  <2>3. CASE ~(i < k)
    <3>1. i - (k - 1) \in 1 .. Len(q) - k /\ k + (i - (k - 1)) = i + 1
      BY <1>1, <2>3
    <3>2. b[i - (k - 1)] = q[i + 1]
      BY <1>3, <3>1
    <3>3. QED
      BY <1>1, <2>1, <2>3, <3>2
  <2>4. QED
    BY <2>2, <2>3
<1>7. Len(a) + Len(b) = Len(q) - 1
  BY <1>1, <1>2, <1>3
<1>8. QED
  BY <1>4, <1>5, <1>6, <1>7

\* A new task is none that a listing knows of.
LEMMA CreateData ==
  ASSUME DataType, Positions, ListingComplete, NEW c \in Clients, Create(c)
  PROVE  DataType' /\ Positions' /\ ListingComplete'
<1>1. PICK t \in Tasks \ used : store' = Append(store, t) /\ used' = used \cup {t}
  BY DEF Create
<1>2. UNCHANGED <<cursor, due, shown>>
  BY DEF Create, listVars
<1>3. t # None /\ t \in used'
  BY <1>1, TasksAssumption
<1>4. store \in Seq(used') /\ Len(store) \in Nat
  BY <1>1, SeqMonotonic, LenProperties DEF DataType
<1>5. /\ store' \in Seq(used') /\ Len(store') = Len(store) + 1
      /\ \A i \in 1 .. Len(store) : store'[i] = store[i]
      /\ store'[Len(store) + 1] = t
  BY <1>1, <1>3, <1>4, AppendProperties
<1>6. \A i \in 1 .. Len(store) : store[i] \in used
  BY StoredTypes
<1>7. \A i \in 1 .. Len(store') : i \in 1 .. Len(store) \/ i = Len(store) + 1
  BY <1>4, <1>5
<1>8. DataType'
  <2>1. \A i, j \in 1 .. Len(store') : store'[i] = store'[j] => i = j
    BY <1>1, <1>5, <1>6, <1>7 DEF DataType
  <2>2. QED
    BY <1>1, <1>2, <1>5, <2>1 DEF DataType
<1>9. Positions'
  <2> SUFFICES ASSUME NEW l \in Listers, NEW i \in 1 .. Len(store'), NEW j \in 1 .. Len(store'),
                      cursor[l] = store'[i]
               PROVE  /\ store'[j] \in due[l] => i < j
                      /\ store'[j] \in shown[l] => j <= i
    BY <1>2 DEF Positions
  <2>1. cursor[l] \in used \cup {None} /\ due[l] \subseteq used /\ shown[l] \subseteq used
    BY DEF DataType
  <2>2. i \in 1 .. Len(store)
    BY <1>1, <1>3, <1>5, <1>7, <2>1
  <2>3. QED
    BY <1>1, <1>5, <1>7, <2>1, <2>2 DEF Positions
<1>10. ListingComplete'
  <2>1. Stored' \subseteq Stored \cup {t}
    BY <1>5, <1>7 DEF Stored
  <2>2. \A l \in Listers : due[l] \subseteq used
    BY DEF DataType
  <2>3. QED
    BY <1>1, <1>2, <2>1, <2>2 DEF ListingComplete
<1>11. QED
  BY <1>8, <1>9, <1>10

\* The tasks that stay keep their order.
LEMMA DeleteData ==
  ASSUME DataType, Positions, ListingComplete, NEW c \in Clients, Delete(c)
  PROVE  DataType' /\ Positions' /\ ListingComplete'
<1>1. PICK k \in 1 .. Len(store) : store' = RemoveAt(store, k)
  BY DEF Delete
<1>2. UNCHANGED <<used, cursor, due, shown>>
  BY DEF Delete, listVars
<1>3. /\ store' \in Seq(used) /\ Len(store') = Len(store) - 1 /\ Len(store) \in Nat
      /\ \A i \in 1 .. Len(store) - 1 :
           store'[i] = IF i < k THEN store[i] ELSE store[i + 1]
  BY <1>1, RemoveAtFacts, StoredTypes DEF DataType
<1> DEFINE old(i) == IF i < k THEN i ELSE i + 1
<1>4. \A i \in 1 .. Len(store') : old(i) \in 1 .. Len(store) /\ store'[i] = store[old(i)]
  BY <1>3
<1>5. \A i, j \in 1 .. Len(store') :
        /\ old(i) < old(j) => i < j
        /\ old(i) <= old(j) => i <= j
        /\ old(i) = old(j) => i = j
  BY <1>3
<1> HIDE DEF old
<1>6. DataType'
  BY <1>2, <1>3, <1>4, <1>5 DEF DataType
<1>7. Positions'
  <2> SUFFICES ASSUME NEW l \in Listers, NEW i \in 1 .. Len(store'), NEW j \in 1 .. Len(store'),
                      cursor[l] = store'[i]
               PROVE  /\ store'[j] \in due[l] => i < j
                      /\ store'[j] \in shown[l] => j <= i
    BY <1>2 DEF Positions
  <2>1. cursor[l] = store[old(i)] /\ old(i) \in 1 .. Len(store) /\ old(j) \in 1 .. Len(store)
    BY <1>4
  <2>2. /\ store[old(j)] \in due[l] => old(i) < old(j)
        /\ store[old(j)] \in shown[l] => old(j) <= old(i)
    BY <2>1 DEF Positions
  <2>3. store'[j] = store[old(j)]
    BY <1>4
  <2>4. (old(i) < old(j) => i < j) /\ (old(j) <= old(i) => j <= i)
    BY <1>3 DEF old
  <2>5. QED
    BY <2>2, <2>3, <2>4
<1>8. ListingComplete'
  <2>1. Stored' \subseteq Stored
    BY <1>4 DEF Stored
  <2>2. QED
    BY <1>2, <2>1 DEF ListingComplete
<1>9. QED
  BY <1>6, <1>7, <1>8
\* A page that continues a listing begins behind the cursor's task, ...
LEMMA StartFacts ==
  ASSUME DataType, NEW at \in Tasks \cup {None}
  PROVE  \/ at \notin Stored /\ StartOf(at) = 0
         \/ /\ at \in Stored /\ StartOf(at) \in 1 .. Len(store)
            /\ store[StartOf(at)] = at
BY DEF StartOf, Stored

\* ... and ends with the next one.
LEMMA PageFacts ==
  ASSUME DataType, NEW start \in 0 .. Len(store)
  PROVE  /\ \A j \in 1 .. Len(store) :
              store[j] \in PageOf(start) <=> start < j /\ j <= start + Limit
         /\ \/ NextCursor(start) = None /\ Len(store) <= start + Limit
            \/ /\ start + Limit \in 1 .. Len(store)
               /\ NextCursor(start) = store[start + Limit]
<1>1. Len(store) \in Nat
  BY StoredTypes
<1>2. ASSUME NEW j \in 1 .. Len(store)
      PROVE  store[j] \in PageOf(start) <=> start < j /\ j <= start + Limit
  <2>1. \A i \in 1 .. Len(store) : store[i] = store[j] => i = j
    BY DEF DataType
  <2>2. QED
    BY <2>1 DEF PageOf
<1>3. QED
  BY <1>1, <1>2, LimitAssumption DEF NextCursor

LEMMA ListData ==
  ASSUME DataType, Positions, ListingComplete, NEW c \in Clients, List(c)
  PROVE  DataType' /\ Positions' /\ ListingComplete'
<1> DEFINE start == StartOf(cursor[c])
           page == PageOf(start)
<1>1. /\ c \in Listers
      /\ cursor' = [cursor EXCEPT ![c] = NextCursor(start)]
      /\ due' = [due EXCEPT ![c] = (IF cursor[c] = None THEN Stored ELSE @) \ page]
      /\ shown' = [shown EXCEPT ![c] = (IF start = 0 THEN {} ELSE @) \cup page]
      /\ UNCHANGED <<store, used>>
  BY DEF List, taskVars
<1>2. /\ cursor[c] \in used \cup {None} /\ cursor[c] \in Tasks \cup {None}
      /\ due[c] \subseteq used /\ shown[c] \subseteq used
  BY <1>1 DEF DataType
<1>3. /\ Len(store) \in Nat /\ Stored \subseteq used /\ page \subseteq Stored
      /\ \A i \in 1 .. Len(store) : store[i] \in used
      /\ None \notin Stored
  BY StoredTypes, TasksAssumption
<1>4. \/ cursor[c] \notin Stored /\ start = 0
      \/ /\ start \in 1 .. Len(store) /\ cursor[c] = store[start]
         /\ cursor[c] \in Stored /\ cursor[c] # None
  BY <1>2, <1>3, StartFacts
<1>5. start \in 0 .. Len(store)
  BY <1>3, <1>4
<1> HIDE DEF start
<1>6. /\ \A j \in 1 .. Len(store) :
           store[j] \in page <=> start < j /\ j <= start + Limit
      /\ \/ NextCursor(start) = None /\ Len(store) <= start + Limit
         \/ /\ start + Limit \in 1 .. Len(store)
            /\ NextCursor(start) = store[start + Limit]
  BY <1>5, PageFacts
<1> HIDE DEF page
<1>7. DataType'
  <2>1. NextCursor(start) \in used \cup {None}
    BY <1>3, <1>6
  <2>2. cursor' \in [Listers -> used \cup {None}]
    BY <1>1, <2>1 DEF DataType
  <2>3. due' \in [Listers -> SUBSET used] /\ shown' \in [Listers -> SUBSET used]
    BY <1>1, <1>2, <1>3 DEF DataType
  <2>4. QED
    BY <1>1, <2>2, <2>3 DEF DataType
\* What is due behind the page, and shown up to it.
<1>8. ASSUME NEW j \in 1 .. Len(store)
      PROVE  /\ store[j] \in due'[c] => start + Limit < j
             /\ store[j] \in shown'[c] => j <= start + Limit
  <2>1. store[j] \in due'[c] => start < j
    BY <1>1, <1>2, <1>3, <1>4 DEF DataType, Positions
  <2>2. store[j] \in due'[c] => store[j] \notin page
    BY <1>1 DEF DataType
  <2>3. store[j] \in shown'[c] => j <= start \/ store[j] \in page
    BY <1>1, <1>2, <1>3, <1>4 DEF DataType, Positions
  <2>4. QED
    BY <1>3, <1>5, <1>6, <2>1, <2>2, <2>3, LimitAssumption
<1>9. Positions'
  <2> SUFFICES ASSUME NEW l \in Listers, NEW i \in 1 .. Len(store), NEW j \in 1 .. Len(store),
                      cursor'[l] = store[i]
               PROVE  /\ store[j] \in due'[l] => i < j
                      /\ store[j] \in shown'[l] => j <= i
    BY <1>1 DEF Positions
  <2>1. CASE l = c
    <3>1. i = start + Limit
      <4>1. cursor'[c] = NextCursor(start) /\ store[i] # None
        BY <1>1, <1>3 DEF DataType, Stored
      <4>2. QED
        BY <1>6, <2>1, <4>1 DEF DataType
    <3>2. QED
      BY <1>8, <2>1, <3>1
  <2>2. CASE l # c
    BY <1>1, <2>2 DEF DataType, Positions
  <2>3. QED
    BY <2>1, <2>2
<1>10. ListingComplete'
  <2> SUFFICES ASSUME NEW l \in Listers, cursor'[l] = None, NEW j \in 1 .. Len(store)
               PROVE  store[j] \notin due'[l]
    <3>1. Stored' = Stored
      BY <1>1 DEF Stored
    <3>2. QED
      BY <3>1 DEF ListingComplete, Stored
  <2>1. CASE l = c
    <3>1. Len(store) <= start + Limit
      <4>1. cursor'[c] = NextCursor(start) /\ \A i \in 1 .. Len(store) : store[i] # None
        BY <1>1, <1>3 DEF DataType, Stored
      <4>2. QED
        BY <1>6, <2>1, <4>1
    <3>2. QED
      BY <1>3, <1>5, <1>8, <2>1, <3>1, LimitAssumption
  <2>2. CASE l # c
    BY <1>1, <2>2 DEF DataType, ListingComplete, Stored
  <2>3. QED
    BY <2>1, <2>2
<1>11. QED
  BY <1>7, <1>9, <1>10

-----------------------------------------------------------------------------
(* The invariant. *)

LEMMA InitInv == Init => Inv
<1> SUFFICES ASSUME Init PROVE Inv
  OBVIOUS
<1>1. Len(store) = 0 /\ store \in Seq(used) /\ Stored = {}
  BY EmptySeq DEF Init, Stored
<1>2. GateType
  BY NoAnswerType DEF Init, GateType, Pc
<1>3. DataType
  BY <1>1 DEF Init, DataType
<1>4. QED
  BY <1>1, <1>2, <1>3 DEF Init, Inv, Gatekept, Positions, ListingComplete

LEMMA NextInv == Inv /\ [Next]_vars => Inv'
<1> SUFFICES ASSUME Inv, [Next]_vars PROVE Inv'
  OBVIOUS
<1> USE DEF Inv
<1>1. ASSUME UNCHANGED <<taskVars, listVars>>
      PROVE  DataType' /\ Positions' /\ ListingComplete'
  BY <1>1 DEF taskVars, listVars, DataType, Positions, ListingComplete, Stored
<1>2. ASSUME NEW c \in Clients, Gate(c) PROVE Inv'
  BY <1>1, <1>2, GateFrame, GateTypes, GateKept
<1>3. ASSUME NEW c \in Clients, Endpoint(c) PROVE Inv'
  <2>1. GateType' /\ Gatekept'
    BY <1>3, EndpointTypes, EndpointKept
  <2>2. DataType' /\ Positions' /\ ListingComplete'
    <3>1. CASE Looks(c)
      BY <1>1, <3>1, LooksFrame
    <3>2. CASE Create(c)
      BY <3>2, CreateData
    <3>3. CASE Delete(c)
      BY <3>3, DeleteData
    <3>4. CASE List(c)
      BY <3>4, ListData
    <3>5. CASE Run(c) \/ RunFails(c)
      BY <1>1, <3>5, RunFrame
    <3>6. QED
      BY <1>3, <3>1, <3>2, <3>3, <3>4, <3>5 DEF Endpoint, Looks
  <2>3. QED
    BY <2>1, <2>2
<1>4. CASE UNCHANGED vars
  <2>1. GateType' /\ Gatekept'
    BY <1>4 DEF vars, GateType, Gatekept, Sufficient
  <2>2. QED
    BY <1>1, <1>4, <2>1 DEF vars, taskVars, listVars
<1>5. QED
  BY <1>2, <1>3, <1>4 DEF Next

\* The state is typed; in particular no id is stored twice, and what a listing
\* knows of was given out.
THEOREM TypeInvariant == Spec => []TypeOK
<1>1. Inv => TypeOK
  BY Types DEF Inv
<1>2. QED
  BY <1>1, InitInv, NextInv, PTL DEF Spec

\* A listing that has come to its end has shown every task that was there when it
\* began and still is, for any page size and whatever is created or deleted.
THEOREM ListingsAreComplete == Spec => []ListingComplete
<1>1. Inv => ListingComplete
  BY DEF Inv
<1>2. QED
  BY <1>1, InitInv, NextInv, PTL DEF Spec

\* A page that continues a listing repeats nothing, for any page size.
THEOREM PagesDoNotRepeat == Spec => ListedOnce
<1>1. ASSUME Inv, NEW c \in Clients, c \in Listers, cursor[c] \in Stored
      PROVE  PageOf(StartOf(cursor[c])) \cap shown[c] = {}
  <2>1. /\ StartOf(cursor[c]) \in 1 .. Len(store)
        /\ store[StartOf(cursor[c])] = cursor[c]
    BY <1>1, StoredTypes, StartFacts DEF Inv
  <2>2. ASSUME NEW j \in 1 .. Len(store), StartOf(cursor[c]) < j
        PROVE  store[j] \notin shown[c]
    BY <1>1, <2>1, <2>2, StoredTypes DEF Inv, Positions
  <2>3. QED
    BY <2>2 DEF PageOf
<1>2. Inv => [\A c \in Listers :
                List(c) /\ cursor[c] \in Stored
                  => PageOf(StartOf(cursor[c])) \cap shown[c] = {}]_vars
  BY <1>1, ClientsAssumption DEF List
<1>3. QED
  BY <1>2, InitInv, NextInv, PTL DEF Spec, ListedOnce

-----------------------------------------------------------------------------
(* What an answer says, and to whom. *)

LEMMA NoAnswerSays == NoAnswer.about = {} /\ NoAnswer.response.status = 0
BY DEF NoAnswer, AnswerTo, Success

\* Only the endpoint of a request that was let in says something of a task.
LEMMA Told ==
  ASSUME Inv, NEW c \in Clients, Gate(c) \/ Endpoint(c)
  PROVE  \/ answer'.about = {}
         \/ answer'.to = c /\ pc[c] \in {"admitted", "running"}
<1>1. CASE Gate(c)
  <2>1. CASE Arrive(c) \/ BeginSeeding(c) \/ Seed(c) \/ EndSeeding(c) \/ Admitted(c)
    <3>1. answer' = NoAnswer
      BY <2>1 DEF Arrive, BeginSeeding, Seed, EndSeeding, Admitted
    <3>2. QED
      BY <3>1, NoAnswerSays
  <2>2. CASE AnswerAtOnce(c)
    <3>1. PICK exc : answer' = AnswerTo(c, ProblemResponse(exc, "path", ""), {})
      BY <2>2 DEF AnswerAtOnce
    <3>2. QED
      BY <3>1 DEF AnswerTo
  <2>3. CASE Unauthorized(c) \/ Forbidden(c) \/ NotAdmitted(c)
    <3>1. PICK exc : Raise(c, exc, {})
      BY <2>3 DEF Unauthorized, Forbidden, NotAdmitted
    <3>2. QED
      BY <3>1 DEF Raise, Reply, AnswerTo
  <2>4. QED
    BY <1>1, <2>1, <2>2, <2>3 DEF Gate
<1>2. CASE InvalidBody(c) \/ InvalidLimit(c) \/ RunFails(c)
  <2>1. PICK exc : Raise(c, exc, {})
    BY <1>2 DEF InvalidBody, InvalidLimit, RunFails
  <2>2. QED
    BY <2>1 DEF Raise, Reply, AnswerTo
<1>3. CASE Create(c)
  <2>1. PICK t \in Tasks \ used : Reply(c, Success(201), {t})
    BY <1>3 DEF Create
  <2>2. pc[c] = "admitted"
    BY <1>3 DEF Create, Serves
  <2>3. QED
    BY <2>1, <2>2 DEF Raise, Reply, AnswerTo
<1>4. CASE NotFound(c)
  <2>1. PICK t : Raise(c, problem(404), {t})
    BY <1>4 DEF NotFound
  <2>2. pc[c] = "admitted"
    BY <1>4 DEF NotFound
  <2>3. QED
    BY <2>1, <2>2 DEF Raise, Reply, AnswerTo
<1>5. CASE Conflict(c) \/ Get(c) \/ ListRuns(c) \/ Metrics(c) \/ Delete(c) \/ List(c)
  <2>1. pc[c] = "admitted"
    BY <1>5 DEF Conflict, Get, ListRuns, Metrics, Delete, List, Serves
  <2>2. CASE Conflict(c)
    <3>1. PICK t \in Stored : Raise(c, problem(409), {t})
      BY <2>2 DEF Conflict
    <3>2. QED
      BY <2>1, <3>1 DEF Raise, Reply, AnswerTo
  <2>3. CASE Get(c) \/ ListRuns(c)
    <3>1. PICK t \in Stored : Reply(c, Success(200), {t})
      BY <2>3 DEF Get, ListRuns
    <3>2. QED
      BY <2>1, <3>1 DEF Raise, Reply, AnswerTo
  <2>4. CASE Metrics(c)
    BY <2>1, <2>4 DEF Metrics, Reply, AnswerTo
  <2>5. CASE Delete(c)
    <3>1. PICK i \in 1 .. Len(store) : Reply(c, Success(204), {store[i]})
      BY <2>5 DEF Delete
    <3>2. QED
      BY <2>1, <3>1 DEF Raise, Reply, AnswerTo
  <2>6. CASE List(c)
    BY <2>1, <2>6 DEF List, Reply, AnswerTo
  <2>7. QED
    BY <1>5, <2>2, <2>3, <2>4, <2>5, <2>6
<1>6. CASE Run(c)
  BY <1>6, NoAnswerSays DEF Run
<1>7. CASE RunEnds(c)
  BY <1>7 DEF RunEnds, Reply, AnswerTo
<1>8. QED
  BY <1>1, <1>2, <1>3, <1>4, <1>5, <1>6, <1>7 DEF Endpoint

\* Whether a task exists is told to authorised clients only, for any scopes of the
\* keys and however requests interleave.
THEOREM OnlyAuthorisedLearn == Spec => OnlyAuthorisedLearnExistence
<1>1. ASSUME Inv, NEW c \in Clients, Gate(c) \/ Endpoint(c), answer'.about # {}
      PROVE  May(answer'.to, needs[answer'.to])
  BY <1>1, Told DEF Inv, Gatekept, Sufficient, May
<1>2. Inv /\ [Next]_vars
        => [answer'.about # {} => May(answer'.to, needs[answer'.to])]_vars
  BY <1>1 DEF Next
<1>3. QED
  BY <1>2, InitInv, NextInv, PTL DEF Spec, OnlyAuthorisedLearnExistence

\* A step that answers a request answers that of the client whose step it is.
LEMMA AnswersItself ==
  ASSUME NEW d \in Clients, Gate(d) \/ Endpoint(d)
  PROVE  answer' = NoAnswer \/ answer'.to = d
<1>1. CASE AnswerAtOnce(d)
  <2>1. PICK exc \in Misrouted \cup Unreadable \cup WithoutKey :
          answer' = AnswerTo(d, ProblemResponse(exc, "path", ""), {})
    BY <1>1 DEF AnswerAtOnce
  <2>2. QED
    BY <2>1 DEF AnswerTo
<1>2. CASE NotAdmitted(d)
  <2>1. PICK exc : Raise(d, exc, {})
    BY <1>2 DEF NotAdmitted
  <2>2. QED
    BY <2>1 DEF Raise, Reply, AnswerTo
<1>3. CASE Create(d) \/ Get(d) \/ ListRuns(d)
  <2>1. PICK n, t : Reply(d, Success(n), {t})
    BY <1>3 DEF Create, Get, ListRuns
  <2>2. QED
    BY <2>1 DEF Reply, AnswerTo
<1>4. CASE Conflict(d) \/ NotFound(d)
  <2>1. PICK n, t : Raise(d, problem(n), {t})
    BY <1>4 DEF Conflict, NotFound
  <2>2. QED
    BY <2>1 DEF Raise, Reply, AnswerTo
<1>5. CASE Delete(d)
  <2>1. PICK i : Reply(d, Success(204), {store[i]})
    BY <1>5 DEF Delete
  <2>2. QED
    BY <2>1 DEF Reply, AnswerTo
<1>6. CASE Unauthorized(d) \/ Forbidden(d) \/ InvalidBody(d) \/ InvalidLimit(d)
             \/ RunFails(d)
  <2>1. PICK exc : Raise(d, exc, {})
    BY <1>6 DEF Unauthorized, Forbidden, InvalidBody, InvalidLimit, RunFails
  <2>2. QED
    BY <2>1 DEF Raise, Reply, AnswerTo
<1>7. CASE List(d) \/ RunEnds(d) \/ Metrics(d)
  BY <1>7 DEF List, RunEnds, Metrics, Reply, AnswerTo
<1>8. CASE Arrive(d) \/ BeginSeeding(d) \/ Seed(d) \/ EndSeeding(d) \/ Admitted(d)
             \/ Run(d)
  BY <1>8 DEF Arrive, BeginSeeding, Seed, EndSeeding, Admitted, Run
<1>9. QED
  BY <1>1, <1>2, <1>3, <1>4, <1>5, <1>6, <1>7, <1>8 DEF Gate, Endpoint

\* A request whose key is known is refused by other answers than a 401.
LEMMA RefusedStatus ==
  ASSUME NEW c \in Clients, Forbidden(c) \/ NotAdmitted(c)
  PROVE  answer'.response.status # 401
<1>1. PICK exc \in {problem(403), TaskQError(429, {"Retry-After"}), Unhandled} :
        Raise(c, exc, {})
  BY DEF Forbidden, NotAdmitted
<1>2. answer' = AnswerTo(c, ProblemResponse(exc, "path", ""), {})
  BY <1>1 DEF Raise, Reply
<1>3. ProblemResponse(exc, "path", "").status \in {403, 429, 500}
  BY DEF problem, TaskQError, Unhandled, ProblemResponse, Envelope, ResolvedStatus
<1>4. answer'.response = ProblemResponse(exc, "path", "")
  BY <1>2 DEF AnswerTo
<1>5. answer'.response.status \in {403, 429, 500}
  BY <1>3, <1>4
<1>6. QED
  BY <1>5

\* A 401 to a request that was looking for its key says the key was not in the
\* index.
LEMMA RefusedUnindexed ==
  ASSUME Inv, NEW d \in Clients, Gate(d) \/ Endpoint(d), NEW c \in Clients,
         pc[c] = "looking", answer'.response.status = 401, answer'.to = c
  PROVE  key[c] \notin index
<1>1. answer' # NoAnswer
  BY NoAnswerSays
<1>2. d = c
  BY <1>1, AnswersItself
<1>3. Unauthorized(c) \/ Forbidden(c) \/ NotAdmitted(c)
  <2>1. ~Endpoint(c)
    BY DEF Endpoint, Serves, Create, Conflict, Get, ListRuns, NotFound, InvalidBody,
           InvalidLimit, Delete, Run, RunEnds, RunFails, List, Metrics
  <2>2. ~Admitted(c)
    BY <1>1 DEF Admitted
  <2>3. QED
    BY <1>2, <2>1, <2>2 DEF Gate, Arrive, AnswerAtOnce, BeginSeeding, Seed, EndSeeding
<1>4. ~Forbidden(c) /\ ~NotAdmitted(c)
  BY RefusedStatus
<1>5. QED
  BY <1>3, <1>4 DEF Unauthorized

\* A valid key with the scope is answered 401 only while a thread is seeding, for
\* any registry and any number of threads.
THEOREM RefusalsEndWithSeeding == Spec => RefusedOnlyWhileSeeding
<1>1. ASSUME Inv, NEW d \in Clients, Gate(d) \/ Endpoint(d), NEW c \in Clients,
             pc[c] = "looking", answer'.response.status = 401, answer'.to = c,
             key[c] \in Registry
      PROVE  \E e \in Clients : toSeed[e] # {}
  <2>1. key[c] \notin index /\ seeded
    BY <1>1, RefusedUnindexed DEF Inv, Gatekept
  <2>2. QED
    BY <1>1, <2>1 DEF Inv, Gatekept
<1>2. Inv /\ [Next]_vars
        => [\A c \in Clients :
              pc[c] = "looking" /\ answer'.response.status = 401 /\ answer'.to = c
                /\ key[c] \in Registry /\ Sufficient(c)
                => \E d \in Clients : toSeed[d] # {}]_vars
  BY <1>1 DEF Next
<1>3. QED
  BY <1>2, InitInv, NextInv, PTL DEF Spec, RefusedOnlyWhileSeeding

\* Which steps make the store longer or shorter.
LEMMA StoreSteps ==
  ASSUME Inv, NEW d \in Clients, Gate(d) \/ Endpoint(d)
  PROVE  /\ Len(store') > Len(store) => Create(d)
         /\ Len(store') < Len(store) => Delete(d)
         /\ \A c \in Clients : pc'[c] # pc[c] => c = d
<1>1. Len(store) \in Nat
  BY StoredTypes DEF Inv
<1>2. ASSUME ~Create(d), ~Delete(d) PROVE store' = store
  BY <1>2, GateFrame, LooksFrame, RunFrame DEF Endpoint, Looks, List, taskVars
<1>3. Create(d) => Len(store') = Len(store) + 1
  <2>1. ASSUME NEW t \in Tasks, store' = Append(store, t)
        PROVE  Len(store') = Len(store) + 1
    <3>1. store \in Seq(Tasks)
      BY SeqMonotonic DEF Inv, DataType
    <3>2. QED
      BY <2>1, <3>1, AppendProperties
  <2>2. QED
    BY <2>1 DEF Create
<1>4. Delete(d) => Len(store') = Len(store) - 1
  BY RemoveAtFacts DEF Inv, Delete, DataType
<1>5. ASSUME NEW c \in Clients, c # d PROVE pc'[c] = pc[c]
  BY <1>5 DEF Inv, GateType, Gate, Endpoint, Arrive, AnswerAtOnce, BeginSeeding, Seed,
       EndSeeding, Unauthorized, Forbidden, Admitted, NotAdmitted, Create, Conflict, Get,
       ListRuns, NotFound, InvalidBody, InvalidLimit, Delete, Run, RunEnds, RunFails,
       List, Metrics, Raise, Reply
<1>6. Len(store') > Len(store) => Create(d)
  BY <1>1, <1>2, <1>4
<1>7. Len(store') < Len(store) => Delete(d)
  BY <1>1, <1>2, <1>3
<1>8. QED
  BY <1>5, <1>6, <1>7

\* Tasks are made, run and removed by keys with the scope only, for any scopes.
THEOREM WritesByAuthorised == Spec => WritesAreAuthorised
<1>1. ASSUME Inv, NEW d \in Clients, Gate(d) \/ Endpoint(d), NEW c \in Clients
      PROVE  /\ Len(store') > Len(store) /\ pc'[c] # pc[c] => May(c, "write")
             /\ Len(store') < Len(store) /\ pc'[c] # pc[c] => May(c, "admin")
             /\ pc[c] # "running" /\ pc'[c] = "running" => May(c, "write")
  <2>1. ASSUME NEW scope, Serves(c, scope) PROVE May(c, scope)
    BY <1>1, <2>1 DEF Inv, Gatekept, Serves, Sufficient, May
  <2>2. Len(store') > Len(store) /\ pc'[c] # pc[c] => May(c, "write")
    BY <1>1, <2>1, StoreSteps DEF Create
  <2>3. Len(store') < Len(store) /\ pc'[c] # pc[c] => May(c, "admin")
    BY <1>1, <2>1, StoreSteps DEF Delete
  <2>4. ASSUME pc[c] # "running", pc'[c] = "running" PROVE Run(c)
    <3>1. c = d
      BY <1>1, <2>4, StoreSteps
    <3>2. pc'[c] # "idle"
      BY <2>4
    <3>3. QED
      BY <1>1, <2>4, <3>1, <3>2
         DEF Inv, GateType, Gate, Endpoint, Arrive, AnswerAtOnce, BeginSeeding, Seed,
             EndSeeding, Unauthorized, Forbidden, Admitted, NotAdmitted, Create, Conflict,
             Get, ListRuns, NotFound, InvalidBody, InvalidLimit, Delete, RunEnds,
             RunFails, List, Metrics, Raise, Reply
  <2>5. QED
    BY <2>1, <2>2, <2>3, <2>4 DEF Run
<1>2. Inv /\ [Next]_vars
        => [\A c \in Clients :
              /\ Len(store') > Len(store) /\ pc'[c] # pc[c] => May(c, "write")
              /\ Len(store') < Len(store) /\ pc'[c] # pc[c] => May(c, "admin")
              /\ pc[c] # "running" /\ pc'[c] = "running" => May(c, "write")]_vars
  BY <1>1 DEF Next
<1>3. QED
  BY <1>2, InitInv, NextInv, PTL DEF Spec, WritesAreAuthorised
====
