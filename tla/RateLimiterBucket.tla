---- MODULE RateLimiterBucket ----
(*****************************************************************************)
(* The bucket of one key of module RateLimiter as module TokenBucket sees    *)
(* it: one whose requests all come from one client.                          *)
(*****************************************************************************)
EXTENDS RateLimiter

CONSTANT solo

ASSUME SoloAssumption == solo \in Keys /\ Alone(solo)

\* The requests of a key that has one client at a time are judged as
\* TokenBucket says, whatever the clients of other keys do, whichever commits
\* fail, and whatever row an earlier process has left (FR-05).
SoloBucket == INSTANCE TokenBucket WITH
  level <- StoredLevel(solo), last <- StoredAt(solo), admitted <- admitted[solo]
ImplementsTokenBucket == SoloBucket!Spec
====
