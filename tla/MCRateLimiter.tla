---- MODULE MCRateLimiter ----
(* Module RateLimiter for TLC: a key with one client and a key with two. *)
EXTENDS RateLimiterBucket, TLC

CONSTANTS t1, t2, t3, shared

ThreadSymmetry == Permutations({t2, t3})

KeyOfThread == [t \in Threads |-> IF t = t1 THEN solo ELSE shared]
====
