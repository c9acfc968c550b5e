---- MODULE MCReadiness ----
(* Module Readiness for TLC: an installed package, and the releases of the     *)
(* three revisions.                                                           *)
EXTENDS Readiness

CONSTANTS t1, n1

PackageFile == [hidden |-> TRUE, readable |-> TRUE, revision |-> 0, down |-> 0]
UpToRevision(v) ==
  {PackageFile} \cup {[hidden |-> FALSE, readable |-> TRUE, revision |-> r, down |-> r - 1] :
                        r \in 1 .. v}
AllReleases == {{}} \cup {UpToRevision(v) : v \in 1 .. 3}
====
