---- MODULE MCMigrations ----
(* Module Migrations on two tasks, whose names may be equal. *)
EXTENDS Migrations

CONSTANTS t1, t2, n1, n2
====
