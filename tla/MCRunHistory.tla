---- MODULE MCRunHistory ----
(* Module RunHistory on two processes, one of them with two runs. *)
EXTENDS RunHistory

CONSTANTS r1, r2, r3, p1, p2

RunHosts == [r \in Runs |-> IF r = r3 THEN p2 ELSE p1]
====
