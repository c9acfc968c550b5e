---- MODULE MCRunner ----
(* Module Runner on a few runs, for TLC. *)
EXTENDS Runner, TLC

\* The runs are interchangeable where all of them, or none, detach.
RunSymmetry == Permutations(Runs)
====
