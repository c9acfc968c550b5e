---- MODULE MCTaskApi ----
(* Module TaskApi on two clients, three tasks and a key of each scope. *)
EXTENDS TaskApi, TLC

CONSTANTS c1, c2, t1, t2, t3

\* The scopes accumulate, as those of key_repo.py do.
RegistryScopes == [k \in Registry |->
  CASE k = "reader" -> {"read"}
    [] k = "writer" -> {"read", "write"}
    [] OTHER -> Scopes]

TaskSymmetry == Permutations(Tasks)
====
