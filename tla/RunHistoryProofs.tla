---- MODULE RunHistoryProofs ----
(*****************************************************************************)
(* Theorems about module RunHistory, for every number of runs and processes. *)
(*                                                                           *)
(* The inductive invariant says what each stage of a request has made sure   *)
(* of: which row it has committed, and which row of it a transaction may     *)
(* still hold.  A transaction holds a row of a request in an upsert, or of   *)
(* one that was answered with an error, and that row is always ahead of the  *)
(* committed one: publishing it late cannot move the history back.           *)
(*****************************************************************************)
EXTENDS RunHistory, TLAPS

\* The event loop of a process is held by exactly the request in an upsert.
LoopHeld ==
  /\ \A r \in Runs : stage[r] \in Writing => Busy(r)
  /\ \A p \in Procs : \A r \in Runs :
       loop[p] = Handling(r) => Host[r] = p /\ stage[r] \in Writing
  /\ \A p \in Procs : inserted[p] =>
       \E r \in Runs : loop[p] = Handling(r) /\ tx[p][r] = WrittenStatus(r)

\* What the file holds of a run at each stage of its request.
StoredByStage(r) ==
  /\ stage[r] \in {"absent", "creating"} => stored[r] = "absent" /\ ~launched[r]
  /\ stage[r] = "starting" => stored[r] = "pending" /\ ~launched[r]
  /\ stage[r] = "executing" => stored[r] = "running"
  /\ stage[r] = "settling" => stored[r] = "running" /\ outcome[r] \in Final
  /\ stage[r] = "answered" => stored[r] = outcome[r] /\ stored[r] \in Final
  /\ launched[r] => stored[r] \in {"running"} \cup Final

\* A row that is written and not committed.
Uncommitted(p, r) ==
  tx[p][r] # "absent" =>
    /\ Host[r] = p
    /\ \/ stage[r] \in Writing /\ inserted[p] /\ tx[p][r] = WrittenStatus(r)
       \/ stage[r] = "error" /\ Rank(stored[r]) < Rank(tx[p][r])

LockHeld == \A p \in Procs : inserted[p] => lock[p] \in {"reserved", "pending"}

Inv ==
  /\ TypeOK
  /\ LoopHeld
  /\ \A r \in Runs : StoredByStage(r)
  /\ \A p \in Procs : \A r \in Runs : Uncommitted(p, r)
  /\ LockHeld
-----------------------------------------------------------------------------

\* What may occupy an event loop can be told apart.
LEMMA LoopFacts ==
  /\ Free # Listing
  /\ \A r : Handling(r) # Free /\ Handling(r) # Listing
  /\ \A r, s : Handling(r) = Handling(s) => r = s
BY DEF Free, Listing, Handling

\* The rows that a request writes are each ahead of the one before.
LEMMA RankFacts ==
  /\ Rank("absent") = 0 /\ Rank("pending") = 1 /\ Rank("running") = 2
  /\ \A s \in Final : Rank(s) = 3
BY DEF Rank, Final

\* The initial state satisfies the invariant.
LEMMA InitInv == Init => Inv
BY LoopFacts DEF Init, Inv, TypeOK, LoopHeld, StoredByStage, Uncommitted, LockHeld, NoTx,
       Stages, Status, Final, Writing, Over

LEMMA RequestInv ==
  ASSUME Inv, NEW r \in Runs, Request(r)
  PROVE  Inv'
<1>. USE HostAssumption, LoopFacts, RankFacts DEF Inv
<1>1. TypeOK'
  BY DEF Request, TypeOK, Stages, Status, Final, Writing, Over
<1>2. LoopHeld'
  <2>1. ASSUME NEW s \in Runs, stage'[s] \in Writing PROVE Busy(s)'
    <3>1. CASE s = r
      BY <3>1 DEF Request, TypeOK, Busy
    <3>2. CASE s # r
      <4>1. stage[s] \in Writing
        BY <2>1, <3>2 DEF Request, TypeOK
      <4>2. loop[Host[s]] = Handling(s) /\ Host[s] # Host[r]
        BY <4>1 DEF Request, LoopHeld, Busy
      <4>. QED BY <4>2 DEF Request, TypeOK, Busy
    <3>. QED BY <3>1, <3>2
  <2>2. ASSUME NEW p \in Procs, NEW s \in Runs, loop'[p] = Handling(s)
        PROVE  Host[s] = p /\ stage'[s] \in Writing
    BY <2>2 DEF Request, TypeOK, LoopHeld, Busy, Writing
  <2>3. ASSUME NEW p \in Procs, inserted'[p]
        PROVE  \E s \in Runs : loop'[p] = Handling(s) /\ tx'[p][s] = WrittenStatus(s)'
    <3>1. p # Host[r] /\ inserted[p]
      BY <2>3 DEF Request, TypeOK, LoopHeld, Busy
    <3>2. PICK s \in Runs : loop[p] = Handling(s) /\ tx[p][s] = WrittenStatus(s)
      BY <3>1 DEF LoopHeld
    <3>3. s # r
      BY <3>1, <3>2 DEF LoopHeld
    <3>. QED BY <3>1, <3>2, <3>3 DEF Request, TypeOK, WrittenStatus
  <2>. QED BY <2>1, <2>2, <2>3 DEF LoopHeld
<1>3. ASSUME NEW s \in Runs PROVE StoredByStage(s)'
  BY DEF Request, TypeOK, LoopHeld, StoredByStage, Uncommitted, Busy, WrittenStatus, Writing, Final
<1>4. ASSUME NEW q \in Procs, NEW s \in Runs PROVE Uncommitted(q, s)'
  BY DEF Request, TypeOK, LoopHeld, StoredByStage, Uncommitted, Busy, WrittenStatus, Writing, Final
<1>5. LockHeld'
  BY DEF Request, TypeOK, LoopHeld, LockHeld, Busy
<1>. QED BY <1>1, <1>2, <1>3, <1>4, <1>5

LEMMA InsertInv ==
  ASSUME Inv, NEW r \in Runs, Insert(r)
  PROVE  Inv'
<1>. USE HostAssumption, LoopFacts, RankFacts DEF Inv
<1>1. TypeOK'
  BY DEF Insert, TypeOK, Stages, Status, Final, Writing, Over, WrittenStatus, Busy
<1>2. LoopHeld'
  BY DEF Insert, TypeOK, LoopHeld, Uncommitted, Busy, WrittenStatus, Writing, Final
<1>3. ASSUME NEW s \in Runs PROVE StoredByStage(s)'
  BY DEF Insert, TypeOK, LoopHeld, StoredByStage, Uncommitted, Busy, WrittenStatus, Writing, Final
<1>4. ASSUME NEW q \in Procs, NEW s \in Runs PROVE Uncommitted(q, s)'
  BY DEF Insert, TypeOK, LoopHeld, StoredByStage, Uncommitted, Busy, WrittenStatus, Writing, Final
<1>5. LockHeld'
  BY DEF Insert, TypeOK, LoopHeld, LockHeld, Busy
<1>. QED BY <1>1, <1>2, <1>3, <1>4, <1>5

LEMMA InsertFailsInv ==
  ASSUME Inv, NEW r \in Runs, InsertFails(r)
  PROVE  Inv'
<1>. USE HostAssumption, LoopFacts, RankFacts DEF Inv
<1>1. TypeOK'
  BY DEF InsertFails, TypeOK, Raise, Stages, Status, Final, Writing, Over, Busy
<1>2. LoopHeld'
  <2>1. ASSUME NEW s \in Runs, stage'[s] \in Writing PROVE Busy(s)'
    BY <2>1 DEF InsertFails, TypeOK, LoopHeld, Raise, Busy, Writing, Final
  <2>2. ASSUME NEW p \in Procs, NEW s \in Runs, loop'[p] = Handling(s)
        PROVE  Host[s] = p /\ stage'[s] \in Writing
    BY <2>2 DEF InsertFails, TypeOK, LoopHeld, Raise, Busy, Writing
  <2>3. ASSUME NEW p \in Procs, inserted'[p]
        PROVE  \E s \in Runs : loop'[p] = Handling(s) /\ tx'[p][s] = WrittenStatus(s)'
    <3>1. p # Host[r] /\ inserted[p]
      BY <2>3 DEF InsertFails, TypeOK, LoopHeld, Raise, Busy
    <3>2. PICK s \in Runs : loop[p] = Handling(s) /\ tx[p][s] = WrittenStatus(s)
      BY <3>1 DEF LoopHeld
    <3>3. s # r
      BY <3>1, <3>2 DEF LoopHeld
    <3>. QED BY <3>1, <3>2, <3>3 DEF InsertFails, TypeOK, Raise, WrittenStatus
  <2>. QED BY <2>1, <2>2, <2>3 DEF LoopHeld
<1>3. ASSUME NEW s \in Runs PROVE StoredByStage(s)'
  BY DEF InsertFails, TypeOK, LoopHeld, StoredByStage, Uncommitted, Raise, Busy,
         WrittenStatus, Writing, Final
<1>4. ASSUME NEW q \in Procs, NEW s \in Runs PROVE Uncommitted(q, s)'
  BY DEF InsertFails, TypeOK, LoopHeld, StoredByStage, Uncommitted, Raise, Busy,
         WrittenStatus, Writing, Final
<1>5. LockHeld'
  BY DEF InsertFails, TypeOK, LoopHeld, LockHeld, Raise, Busy
<1>. QED BY <1>1, <1>2, <1>3, <1>4, <1>5

LEMMA CommitWaitsInv ==
  ASSUME Inv, NEW r \in Runs, CommitWaits(r)
  PROVE  Inv'
<1>. USE HostAssumption, LoopFacts, RankFacts DEF Inv
<1>1. TypeOK'
  BY DEF CommitWaits, TypeOK, Stages, Status, Final, Writing, Over, Busy
<1>2. LoopHeld'
  BY DEF CommitWaits, TypeOK, LoopHeld, Uncommitted, Busy, WrittenStatus, Writing, Final
<1>3. ASSUME NEW s \in Runs PROVE StoredByStage(s)'
  BY DEF CommitWaits, TypeOK, LoopHeld, StoredByStage, Uncommitted, Busy, WrittenStatus,
         Writing, Final
<1>4. ASSUME NEW q \in Procs, NEW s \in Runs PROVE Uncommitted(q, s)'
  BY DEF CommitWaits, TypeOK, LoopHeld, StoredByStage, Uncommitted, Busy, WrittenStatus,
         Writing, Final
<1>5. LockHeld'
  BY DEF CommitWaits, TypeOK, LoopHeld, LockHeld, Busy
<1>. QED BY <1>1, <1>2, <1>3, <1>4, <1>5

LEMMA CommitFailsInv ==
  ASSUME Inv, NEW r \in Runs, CommitFails(r)
  PROVE  Inv'
<1>. USE HostAssumption, LoopFacts, RankFacts DEF Inv
<1>1. TypeOK'
  BY DEF CommitFails, TypeOK, Raise, Stages, Status, Final, Writing, Over, Busy
<1>2. LoopHeld'
  BY DEF CommitFails, TypeOK, LoopHeld, Uncommitted, Raise, Busy, WrittenStatus, Writing, Final
<1>3. ASSUME NEW s \in Runs PROVE StoredByStage(s)'
  BY DEF CommitFails, TypeOK, LoopHeld, StoredByStage, Uncommitted, Raise, Busy,
         WrittenStatus, Writing, Final
<1>4. ASSUME NEW q \in Procs, NEW s \in Runs PROVE Uncommitted(q, s)'
  <2>1. CASE s = r
    <3>1. \/ tx[q][r] = "absent"
          \/ q = Host[r] /\ tx[q][r] = WrittenStatus(r) /\ stage[r] \in Writing
      BY DEF Uncommitted, CommitFails, LoopHeld, Busy
    <3>2. stage[r] \in Writing => Rank(stored[r]) < Rank(WrittenStatus(r))
      BY DEF StoredByStage, WrittenStatus, Writing, Final
    <3>. QED BY <2>1, <3>1, <3>2 DEF CommitFails, Raise, Uncommitted, TypeOK
  <2>2. CASE s # r
    <3>1. stage'[s] = stage[s] /\ tx' = tx /\ stored' = stored /\ outcome' = outcome
      BY <2>2 DEF CommitFails, Raise, TypeOK
    <3>2. stage[s] \in Writing => Host[s] # Host[r]
      BY <2>2 DEF CommitFails, LoopHeld, Busy
    <3>3. Uncommitted(q, s)
      OBVIOUS
    <3>. QED BY <3>1, <3>2, <3>3 DEF Uncommitted, WrittenStatus, CommitFails, Raise, TypeOK
  <2>. QED BY <2>1, <2>2
<1>5. LockHeld'
  BY DEF CommitFails, TypeOK, LoopHeld, LockHeld, Raise, Busy
<1>. QED BY <1>1, <1>2, <1>3, <1>4, <1>5

LEMMA CommitInv ==
  ASSUME Inv, NEW r \in Runs, Commit(r)
  PROVE  Inv'
<1>. USE HostAssumption, LoopFacts, RankFacts DEF Inv
<1>a. stage[r] \in Writing /\ tx[Host[r]][r] = WrittenStatus(r)
  BY DEF Commit, LoopHeld, Busy
<1>b. \A s \in Runs : s # r /\ tx[Host[r]][s] # "absent" =>
                        stage[s] = "error" /\ Rank(stored[s]) < Rank(tx[Host[r]][s])
  BY DEF Commit, LoopHeld, Busy, Uncommitted
<1>c. stored' = [s \in Runs |-> IF tx[Host[r]][s] = "absent" THEN stored[s] ELSE tx[Host[r]][s]]
  BY DEF Commit, Published
<1>1. TypeOK'
  <2>1. stored' \in [Runs -> Status]
    BY <1>c DEF TypeOK
  <2>2. stage' \in [Runs -> Stages]
    BY DEF Commit, TypeOK, Following, Stages, Writing, Over
  <2>3. loop' \in [Procs -> {Free, Listing} \cup {Handling(s) : s \in Runs}]
    BY DEF Commit, TypeOK, Busy
  <2>. QED BY <2>1, <2>2, <2>3 DEF Commit, TypeOK, NoTx, Status
<1>2. LoopHeld'
  <2>a. stage'[r] = Following(stage[r]) /\ (\A s \in Runs : s # r => stage'[s] = stage[s])
    BY DEF Commit, TypeOK
  <2>b. stage'[r] \in Writing <=> stage[r] = "creating"
    BY <1>a, <2>a DEF Following, Writing
  <2>c. loop[Host[r]] = Handling(r)
    BY DEF Commit, Busy
  <2>1. ASSUME NEW s \in Runs, stage'[s] \in Writing PROVE Busy(s)'
    <3>1. CASE s = r
      BY <2>1, <2>b, <2>c, <3>1 DEF Commit, TypeOK, Busy
    <3>2. CASE s # r
      <4>1. loop[Host[s]] = Handling(s) /\ Host[s] # Host[r]
        BY <2>1, <2>a, <2>c, <3>2 DEF LoopHeld, Busy
      <4>. QED BY <4>1 DEF Commit, TypeOK, Busy
    <3>. QED BY <3>1, <3>2
  <2>2. ASSUME NEW q \in Procs, NEW s \in Runs, loop'[q] = Handling(s)
        PROVE  Host[s] = q /\ stage'[s] \in Writing
    <3>1. CASE q = Host[r]
      BY <2>2, <2>b, <2>c, <3>1 DEF Commit, TypeOK
    <3>2. CASE q # Host[r]
      BY <2>2, <2>a, <3>2 DEF Commit, TypeOK, LoopHeld
    <3>. QED BY <3>1, <3>2
  <2>3. ASSUME NEW q \in Procs, inserted'[q]
        PROVE  \E s \in Runs : loop'[q] = Handling(s) /\ tx'[q][s] = WrittenStatus(s)'
    <3>1. q # Host[r] /\ inserted[q]
      BY <2>3 DEF Commit, TypeOK
    <3>2. PICK s \in Runs : loop[q] = Handling(s) /\ tx[q][s] = WrittenStatus(s)
      BY <3>1 DEF LoopHeld
    <3>3. s # r
      BY <3>1, <3>2 DEF LoopHeld
    <3>4. loop'[q] = loop[q] /\ tx'[q] = tx[q] /\ outcome' = outcome
      BY <3>1 DEF Commit, TypeOK
    <3>. QED BY <2>a, <3>2, <3>3, <3>4 DEF WrittenStatus
  <2>. QED BY <2>1, <2>2, <2>3 DEF LoopHeld
<1>3. ASSUME NEW s \in Runs PROVE StoredByStage(s)'
  <2>1. CASE s = r
    <3>1. stored'[r] = WrittenStatus(r)
      BY <1>a, <1>c DEF WrittenStatus, StoredByStage, Writing, Final
    <3>2. stage'[r] = Following(stage[r]) /\ outcome' = outcome
          /\ launched'[r] = (launched[r] \/ stage[r] = "starting")
      BY DEF Commit, TypeOK
    <3>. QED BY <1>a, <3>1, <3>2, <2>1 DEF WrittenStatus, Following, StoredByStage, Writing, Final
  <2>2. CASE s # r
    <3>1. stage'[s] = stage[s] /\ launched'[s] = launched[s] /\ outcome' = outcome
      BY <2>2 DEF Commit, TypeOK
    <3>2. \/ stored'[s] = stored[s]
          \/ stage[s] = "error" /\ Rank(stored[s]) < Rank(stored'[s]) /\ stored'[s] \in Status
      BY <1>b, <1>c, <2>2 DEF TypeOK
    <3>3. stage[s] = "error" /\ stored[s] \in {"running"} \cup Final
            /\ stored'[s] \in Status /\ Rank(stored[s]) < Rank(stored'[s])
          => stored'[s] \in Final
      BY DEF Status, Final
    <3>. QED BY <3>1, <3>2, <3>3 DEF StoredByStage
  <2>. QED BY <2>1, <2>2
<1>4. ASSUME NEW q \in Procs, NEW s \in Runs PROVE Uncommitted(q, s)'
  <2>1. CASE q = Host[r]
    BY <2>1 DEF Commit, TypeOK, Uncommitted, NoTx
  <2>2. CASE q # Host[r] /\ Host[s] # q
    BY <2>2 DEF Commit, TypeOK, Uncommitted
  <2>3. CASE q # Host[r] /\ Host[s] = q
    <3>1. /\ stage'[s] = stage[s] /\ tx'[q][s] = tx[q][s] /\ inserted'[q] = inserted[q]
          /\ outcome' = outcome
      BY <2>3 DEF Commit, TypeOK
    <3>2. stored'[s] = stored[s]
      BY <1>c, <2>3 DEF Uncommitted
    <3>3. Uncommitted(q, s)
      OBVIOUS
    <3>. QED BY <3>1, <3>2, <3>3 DEF Uncommitted, WrittenStatus
  <2>. QED BY <2>1, <2>2, <2>3
<1>5. LockHeld'
  BY DEF Commit, TypeOK, LoopHeld, LockHeld, Busy
<1>. QED BY <1>1, <1>2, <1>3, <1>4, <1>5

LEMMA EndedInv ==
  ASSUME Inv, NEW r \in Runs, Ended(r)
  PROVE  Inv'
<1>. USE HostAssumption, LoopFacts, RankFacts DEF Inv
<1>1. TypeOK'
  BY DEF Ended, TypeOK, Stages, Status, Final, Writing, Over
<1>2. LoopHeld'
  <2>1. ASSUME NEW s \in Runs, stage'[s] \in Writing PROVE Busy(s)'
    <3>1. CASE s = r
      BY <3>1 DEF Ended, TypeOK, Busy
    <3>2. CASE s # r
      <4>1. stage[s] \in Writing
        BY <2>1, <3>2 DEF Ended, TypeOK
      <4>2. loop[Host[s]] = Handling(s) /\ Host[s] # Host[r]
        BY <4>1 DEF Ended, LoopHeld, Busy
      <4>. QED BY <4>2 DEF Ended, TypeOK, Busy
    <3>. QED BY <3>1, <3>2
  <2>2. ASSUME NEW p \in Procs, NEW s \in Runs, loop'[p] = Handling(s)
        PROVE  Host[s] = p /\ stage'[s] \in Writing
    BY <2>2 DEF Ended, TypeOK, LoopHeld, Busy, Writing
  <2>3. ASSUME NEW p \in Procs, inserted'[p]
        PROVE  \E s \in Runs : loop'[p] = Handling(s) /\ tx'[p][s] = WrittenStatus(s)'
    <3>1. p # Host[r] /\ inserted[p]
      BY <2>3 DEF Ended, TypeOK, LoopHeld, Busy
    <3>2. PICK s \in Runs : loop[p] = Handling(s) /\ tx[p][s] = WrittenStatus(s)
      BY <3>1 DEF LoopHeld
    <3>3. s # r
      BY <3>1, <3>2 DEF LoopHeld
    <3>. QED BY <3>1, <3>2, <3>3 DEF Ended, TypeOK, WrittenStatus
  <2>. QED BY <2>1, <2>2, <2>3 DEF LoopHeld
<1>3. ASSUME NEW s \in Runs PROVE StoredByStage(s)'
  BY DEF Ended, TypeOK, LoopHeld, StoredByStage, Uncommitted, Busy, WrittenStatus, Writing, Final
<1>4. ASSUME NEW q \in Procs, NEW s \in Runs PROVE Uncommitted(q, s)'
  BY DEF Ended, TypeOK, LoopHeld, StoredByStage, Uncommitted, Busy, WrittenStatus, Writing, Final
<1>5. LockHeld'
  BY DEF Ended, TypeOK, LoopHeld, LockHeld, Busy
<1>. QED BY <1>1, <1>2, <1>3, <1>4, <1>5

LEMMA CancelledInv ==
  ASSUME Inv, NEW r \in Runs, Cancelled(r)
  PROVE  Inv'
<1>. USE HostAssumption, LoopFacts, RankFacts DEF Inv
<1>1. TypeOK'
  BY DEF Cancelled, TypeOK, Stages, Status, Final, Writing, Over
<1>2. LoopHeld'
  <2>1. stage[r] = "executing" /\ stage' = [stage EXCEPT ![r] = "lost"]
        /\ UNCHANGED <<loop, inserted, tx, outcome>>
    BY DEF Cancelled
  <2>2. \A s \in Runs : stage'[s] \in Writing => s # r /\ stage'[s] = stage[s]
    BY <2>1 DEF TypeOK, Writing
  <2>3. ASSUME NEW s \in Runs, stage[s] \in Writing
        PROVE  s # r /\ stage'[s] = stage[s] /\ WrittenStatus(s)' = WrittenStatus(s)
    BY <2>1, <2>3 DEF TypeOK, Writing, WrittenStatus
  <2>4. ASSUME NEW q \in Procs, inserted[q]
        PROVE  \E s \in Runs : loop[q] = Handling(s) /\ tx[q][s] = WrittenStatus(s)'
    <3>1. PICK s \in Runs : loop[q] = Handling(s) /\ tx[q][s] = WrittenStatus(s)
      BY <2>4 DEF LoopHeld
    <3>. QED BY <2>3, <3>1 DEF LoopHeld
  <2>. QED BY <2>1, <2>2, <2>3, <2>4 DEF LoopHeld, Busy
<1>3. ASSUME NEW s \in Runs PROVE StoredByStage(s)'
  BY DEF Cancelled, TypeOK, LoopHeld, StoredByStage, Uncommitted, Busy, WrittenStatus,
         Writing, Final
<1>4. ASSUME NEW q \in Procs, NEW s \in Runs PROVE Uncommitted(q, s)'
  BY DEF Cancelled, TypeOK, LoopHeld, StoredByStage, Uncommitted, Busy, WrittenStatus,
         Writing, Final
<1>5. LockHeld'
  BY DEF Cancelled, TypeOK, LoopHeld, LockHeld, Busy
<1>. QED BY <1>1, <1>2, <1>3, <1>4, <1>5

LEMMA ListBeginsInv ==
  ASSUME Inv, NEW p \in Procs, ListBegins(p)
  PROVE  Inv'
<1>. USE HostAssumption, LoopFacts, RankFacts DEF Inv
<1>1. TypeOK'
  BY DEF ListBegins, TypeOK, Stages, Status, Final, Writing, Over
<1>2. LoopHeld'
  BY DEF ListBegins, TypeOK, LoopHeld, Uncommitted, Busy, WrittenStatus, Writing, Final
<1>3. ASSUME NEW s \in Runs PROVE StoredByStage(s)'
  BY DEF ListBegins, TypeOK, LoopHeld, StoredByStage, Uncommitted, Busy, WrittenStatus,
         Writing, Final
<1>4. ASSUME NEW q \in Procs, NEW s \in Runs PROVE Uncommitted(q, s)'
  BY DEF ListBegins, TypeOK, LoopHeld, StoredByStage, Uncommitted, Busy, WrittenStatus,
         Writing, Final
<1>5. LockHeld'
  BY DEF ListBegins, TypeOK, LoopHeld, LockHeld, Busy
<1>. QED BY <1>1, <1>2, <1>3, <1>4, <1>5

LEMMA ListEndsInv ==
  ASSUME Inv, NEW p \in Procs, ListEnds(p)
  PROVE  Inv'
<1>. USE HostAssumption, LoopFacts, RankFacts DEF Inv
<1>1. TypeOK'
  BY DEF ListEnds, TypeOK, Stages, Status, Final, Writing, Over
<1>2. LoopHeld'
  BY DEF ListEnds, TypeOK, LoopHeld, Uncommitted, Busy, WrittenStatus, Writing, Final
<1>3. ASSUME NEW s \in Runs PROVE StoredByStage(s)'
  BY DEF ListEnds, TypeOK, LoopHeld, StoredByStage, Uncommitted, Busy, WrittenStatus, Writing, Final
<1>4. ASSUME NEW q \in Procs, NEW s \in Runs PROVE Uncommitted(q, s)'
  BY DEF ListEnds, TypeOK, LoopHeld, StoredByStage, Uncommitted, Busy, WrittenStatus, Writing, Final
<1>5. LockHeld'
  BY DEF ListEnds, TypeOK, LoopHeld, LockHeld, Busy
<1>. QED BY <1>1, <1>2, <1>3, <1>4, <1>5

LEMMA CrashInv ==
  ASSUME Inv, NEW p \in Procs, Crash(p)
  PROVE  Inv'
<1>. USE HostAssumption, LoopFacts, RankFacts DEF Inv
<1>1. TypeOK'
  BY DEF Crash, TypeOK, Stages, Status, Final, Writing, Over, NoTx
<1>2. LoopHeld'
  <2>1. ASSUME NEW s \in Runs, stage'[s] \in Writing PROVE Busy(s)'
    BY <2>1 DEF Crash, TypeOK, LoopHeld, Busy, Writing, Over
  <2>2. ASSUME NEW q \in Procs, NEW s \in Runs, loop'[q] = Handling(s)
        PROVE  Host[s] = q /\ stage'[s] \in Writing
    BY <2>2 DEF Crash, TypeOK, LoopHeld
  <2>3. ASSUME NEW q \in Procs, inserted'[q]
        PROVE  \E s \in Runs : loop'[q] = Handling(s) /\ tx'[q][s] = WrittenStatus(s)'
    <3>1. q # p /\ inserted[q]
      BY <2>3 DEF Crash, TypeOK
    <3>2. PICK s \in Runs : loop[q] = Handling(s) /\ tx[q][s] = WrittenStatus(s)
      BY <3>1 DEF LoopHeld
    <3>3. Host[s] = q
      BY <3>2 DEF LoopHeld
    <3>. QED BY <3>1, <3>2, <3>3 DEF Crash, TypeOK, WrittenStatus
  <2>. QED BY <2>1, <2>2, <2>3 DEF LoopHeld
<1>3. ASSUME NEW s \in Runs PROVE StoredByStage(s)'
  BY DEF Crash, TypeOK, LoopHeld, StoredByStage, Uncommitted, Busy, WrittenStatus, Writing,
         Over, Final
<1>4. ASSUME NEW q \in Procs, NEW s \in Runs PROVE Uncommitted(q, s)'
  BY DEF Crash, TypeOK, LoopHeld, StoredByStage, Uncommitted, Busy, WrittenStatus, Writing,
         Over, Final, NoTx
<1>5. LockHeld'
  BY DEF Crash, TypeOK, LoopHeld, LockHeld, Busy
<1>. QED BY <1>1, <1>2, <1>3, <1>4, <1>5

-----------------------------------------------------------------------------

\* The invariant of this module holds in every reachable state.
THEOREM InvInvariant == Spec => []Inv
<1>1. Init => Inv
  BY InitInv
<1>2. Inv /\ [Next]_vars => Inv'
  <2>. SUFFICES ASSUME Inv, [Next]_vars PROVE Inv'
    OBVIOUS
  <2>1. CASE UNCHANGED vars
    BY <2>1 DEF vars, Inv, TypeOK, LoopHeld, StoredByStage, Uncommitted, LockHeld, Busy,
           WrittenStatus
  <2>2. ASSUME NEW r \in Runs, Request(r) \/ UpsertStep(r) \/ Ended(r) \/ Cancelled(r)
        PROVE  Inv'
    BY <2>2, RequestInv, InsertInv, InsertFailsInv, CommitWaitsInv, CommitFailsInv,
      CommitInv, EndedInv, CancelledInv DEF UpsertStep
  <2>3. ASSUME NEW p \in Procs, ListBegins(p) \/ ListEnds(p) \/ Crash(p)
        PROVE  Inv'
    BY <2>3, ListBeginsInv, ListEndsInv, CrashInv
  <2>. QED BY <2>1, <2>2, <2>3 DEF Next
<1>. QED BY <1>1, <1>2, PTL DEF Spec

\* The variables are typed (the state of runner.py's shared connections and of
\* the file they write).
THEOREM TypeInvariant == Spec => []TypeOK
<1>1. Inv => TypeOK
  BY DEF Inv
<1>. QED BY <1>1, InvInvariant, PTL

\* A run answered 202 is settled in the file for good (api/tasks.py:168).
THEOREM AnsweredMeansStored == Spec => []AnsweredRunIsStored
<1>1. Inv => AnsweredRunIsStored
  BY DEF Inv, StoredByStage, AnsweredRunIsStored
<1>. QED BY <1>1, InvInvariant, PTL

\* No command is executed before its row is committed (_run_async).
THEOREM ExecutionIsRecorded == Spec => []NoUnrecordedExecution
<1>1. Inv => NoUnrecordedExecution
  BY DEF Inv, StoredByStage, NoUnrecordedExecution
<1>. QED BY <1>1, InvInvariant, PTL

\* A commit publishes only rows that are ahead of the committed ones, whoever
\* wrote them and however long ago (_upsert).
THEOREM HistoryIsMonotonic == Spec => HistoryMovesForward
<1>1. Inv /\ [Next]_vars =>
        [\A r \in Runs : stored'[r] # stored[r] => Rank(stored[r]) < Rank(stored'[r])]_vars
  <2>. SUFFICES ASSUME Inv, Next, NEW r \in Runs, stored'[r] # stored[r]
                PROVE  Rank(stored[r]) < Rank(stored'[r])
    OBVIOUS
  <2>1. PICK s \in Runs : Commit(s)
    BY DEF Next, Request, UpsertStep, Insert, InsertFails, CommitWaits, CommitFails, Ended,
           Cancelled, ListBegins, ListEnds, Crash
  <2>2. stored'[r] = tx[Host[s]][r] /\ tx[Host[s]][r] # "absent"
    BY <2>1 DEF Commit, Published
  <2>3. Uncommitted(Host[s], r) /\ StoredByStage(r)
    BY HostAssumption DEF Inv
  <2>4. CASE stage[r] \in Writing /\ tx[Host[s]][r] = WrittenStatus(r)
    BY <2>2, <2>3, <2>4, RankFacts DEF StoredByStage, WrittenStatus, Writing
  <2>. QED BY <2>2, <2>3, <2>4 DEF Uncommitted
<1>. QED BY <1>1, InvInvariant, PTL DEF Spec, HistoryMovesForward

\* A lock is held by an upsert after its INSERT, or was left by a commit that gave
\* up, together with the row it was to commit.
LeftBehind(p) == \E r \in Runs : Host[r] = p /\ stage[r] = "error" /\ tx[p][r] # "absent"
LockExplained == \A p \in Procs : lock[p] # "none" => inserted[p] \/ LeftBehind(p)

LEMMA LockExplainedNext ==
  ASSUME Inv, LockExplained, [Next]_vars
  PROVE  LockExplained'
<1>. SUFFICES ASSUME NEW p \in Procs, lock'[p] # "none"
              PROVE  inserted'[p] \/ LeftBehind(p)'
  BY DEF LockExplained
<1>. USE HostAssumption DEF Inv, TypeOK
\* A row of a request that was answered with an error is not touched by others.
<1>1. ASSUME NEW r \in Runs, stage[r] = "error", tx[p][r] # "absent", Host[r] = p,
             stage'[r] = "error", tx'[p][r] = tx[p][r]
      PROVE  LeftBehind(p)'
  BY <1>1 DEF LeftBehind
<1>2. CASE UNCHANGED vars
  BY <1>2 DEF vars, LockExplained, LeftBehind
<1>3. ASSUME NEW q \in Runs, Request(q) \/ Ended(q) \/ Cancelled(q)
      PROVE  inserted'[p] \/ LeftBehind(p)'
  BY <1>1, <1>3 DEF Request, Ended, Cancelled, LockExplained, LeftBehind
<1>4. ASSUME NEW q \in Runs, Insert(q)
      PROVE  inserted'[p] \/ LeftBehind(p)'
  <2>1. CASE p = Host[q]
    BY <1>4, <2>1 DEF Insert
  <2>2. CASE p # Host[q]
    BY <1>1, <1>4, <2>2 DEF Insert, LockExplained, LeftBehind
  <2>. QED BY <2>1, <2>2
<1>5. ASSUME NEW q \in Runs, InsertFails(q)
      PROVE  inserted'[p] \/ LeftBehind(p)'
  <2>1. lock[p] # "none" /\ (inserted[p] => p # Host[q])
    BY <1>5 DEF InsertFails
  <2>2. CASE inserted[p]
    BY <1>5, <2>1, <2>2 DEF InsertFails, Raise
  <2>3. CASE LeftBehind(p)
    BY <1>1, <1>5, <2>3 DEF InsertFails, Raise, LeftBehind
  <2>. QED BY <2>1, <2>2, <2>3 DEF LockExplained
<1>6. ASSUME NEW q \in Runs, CommitWaits(q)
      PROVE  inserted'[p] \/ LeftBehind(p)'
  BY <1>1, <1>6 DEF CommitWaits, LockExplained, LeftBehind
<1>7. ASSUME NEW q \in Runs, CommitFails(q)
      PROVE  inserted'[p] \/ LeftBehind(p)'
  <2>1. CASE p = Host[q]
    <3>1. loop[p] = Handling(q) /\ inserted[p] /\ stage[q] \in Writing
      BY <1>7, <2>1 DEF CommitFails, Busy, LoopHeld
    <3>2. PICK r \in Runs : loop[p] = Handling(r) /\ tx[p][r] = WrittenStatus(r)
      BY <3>1 DEF LoopHeld
    <3>3. r = q
      BY <3>1, <3>2, LoopFacts
    <3>4. WrittenStatus(q) # "absent"
      <4>1. StoredByStage(q)
        OBVIOUS
      <4>. QED BY <3>1, <4>1 DEF WrittenStatus, StoredByStage, Writing, Final
    <3>. QED BY <1>7, <2>1, <3>2, <3>3, <3>4 DEF CommitFails, Raise, LeftBehind
  <2>2. CASE p # Host[q] /\ inserted[p]
    BY <1>7, <2>2 DEF CommitFails, Raise
  <2>3. CASE p # Host[q] /\ LeftBehind(p)
    BY <1>1, <1>7, <2>3 DEF CommitFails, Raise, LeftBehind
  <2>. QED BY <1>7, <2>1, <2>2, <2>3 DEF LockExplained, CommitFails
<1>8. ASSUME NEW q \in Runs, Commit(q)
      PROVE  inserted'[p] \/ LeftBehind(p)'
  <2>1. p # Host[q] /\ lock[p] # "none"
    BY <1>8 DEF Commit
  <2>2. CASE inserted[p]
    BY <1>8, <2>1, <2>2 DEF Commit
  <2>3. CASE LeftBehind(p)
    <3>1. PICK r \in Runs : Host[r] = p /\ stage[r] = "error" /\ tx[p][r] # "absent"
      BY <2>3 DEF LeftBehind
    <3>. QED BY <1>1, <1>8, <2>1, <3>1 DEF Commit
  <2>. QED BY <2>1, <2>2, <2>3 DEF LockExplained
<1>9. ASSUME NEW q \in Procs, ListBegins(q) \/ ListEnds(q)
      PROVE  inserted'[p] \/ LeftBehind(p)'
  BY <1>1, <1>9 DEF ListBegins, ListEnds, LockExplained, LeftBehind
<1>10. ASSUME NEW q \in Procs, Crash(q)
       PROVE  inserted'[p] \/ LeftBehind(p)'
  <2>1. p # q /\ lock[p] # "none"
    BY <1>10 DEF Crash
  <2>2. CASE inserted[p]
    BY <1>10, <2>1, <2>2 DEF Crash
  <2>3. CASE LeftBehind(p)
    BY <1>1, <1>10, <2>1, <2>3 DEF Crash, LeftBehind
  <2>. QED BY <2>1, <2>2, <2>3 DEF LockExplained
<1>. QED BY <1>2, <1>3, <1>4, <1>5, <1>6, <1>7, <1>8, <1>9, <1>10 DEF Next, UpsertStep

\* A process that serves nobody keeps the file locked only because of a commit that
\* gave up, whose row is still uncommitted (_upsert).
THEOREM IdleLocksAreExplained == Spec => []IdleLockIsFailedCommit
<1>1. Init => LockExplained
  BY DEF Init, LockExplained
<1>2. Inv /\ LockExplained => IdleLockIsFailedCommit
  BY LoopFacts DEF Inv, LoopHeld, LockExplained, LeftBehind, IdleLockIsFailedCommit
<1>. QED BY <1>1, <1>2, LockExplainedNext, InvInvariant, PTL DEF Spec
====
