---- MODULE RunLifecycle ----
(*****************************************************************************)
(* What the background runner promises about the rows of its runs, without   *)
(* tasks, semaphore, processes or timers: the abstract specification that    *)
(* module Runner is checked to implement.                                    *)
(*****************************************************************************)
EXTENDS Naturals, FiniteSets

CONSTANTS Runs, Slots

VARIABLES status, active   \* row["status"]; the runs that execute

vars == <<status, active>>

Init ==
  /\ status = [r \in Runs |-> "absent"]
  /\ active = {}

Submit(r) ==
  /\ status[r] = "absent"
  /\ status' = [status EXCEPT ![r] = "pending"]
  /\ UNCHANGED active

\* At most Slots runs execute at a time, and only a pending run begins to: a
\* run interrupted while it was queued never does.
Start(r) ==
  /\ status[r] = "pending" /\ Cardinality(active) < Slots
  /\ status' = [status EXCEPT ![r] = "running"]
  /\ active' = active \cup {r}

\* The command could not be started.  "running" is the row that nobody
\* finalises after an error other than the two the runner expects.
Refuse(r) ==
  /\ status[r] = "pending" /\ Cardinality(active) < Slots
  /\ \E s \in {"failed", "running"} : status' = [status EXCEPT ![r] = s]
  /\ UNCHANGED active

\* A run that executes settles exactly once, and stops executing as it does.
Settle(r) ==
  /\ r \in active /\ status[r] = "running"
  /\ \E s \in {"done", "failed", "timeout"} : status' = [status EXCEPT ![r] = s]
  /\ active' = active \ {r}

\* Shutdown interrupts every live run at once.
Interrupt ==
  /\ status' = [r \in Runs |->
       IF status[r] \in {"pending", "running"} THEN "interrupted" ELSE status[r]]
  /\ UNCHANGED active

\* An interrupted run stops executing.  It may still deliver the result its
\* command had already produced, but it never becomes a timeout.
Stop(r) ==
  /\ r \in active /\ status[r] = "interrupted"
  /\ \E s \in {"interrupted", "done", "failed"} :
       status' = [status EXCEPT ![r] = s]
  /\ active' = active \ {r}

Next ==
  \/ \E r \in Runs : Submit(r) \/ Start(r) \/ Refuse(r) \/ Settle(r) \/ Stop(r)
  \/ Interrupt

Spec == Init /\ [][Next]_vars
====
