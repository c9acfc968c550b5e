---- MODULE TokenBucket ----
(*****************************************************************************)
(* What FR-05 promises of the bucket of one API key: each admission takes one*)
(* token, tokens come back at a constant rate, and a request is judged at one*)
(* moment, no earlier than the last one judged.  Amounts are whole parts of a*)
(* token, times whole ticks.                                                 *)
(*****************************************************************************)
EXTENDS Integers

CONSTANTS
  Burst,   \* the bucket's capacity, in parts
  Unit,    \* the parts that make up one token
  Refill   \* the parts that come back in one tick

VARIABLES
  clock,
  level, last,  \* the bucket held this much at this time
  admitted      \* requests admitted so far

vars == <<clock, level, last, admitted>>

Capped(n) == IF n > Burst THEN Burst ELSE n

\* The level at time t, with no request since last.
LevelAt(t) == Capped(level + Refill * (t - last))

\* The bucket may have been used before.
Init ==
  /\ clock = 0 /\ level \in 0 .. Burst /\ last = 0 /\ admitted = 0

Tick ==
  /\ clock' = clock + 1
  /\ UNCHANGED <<level, last, admitted>>

Admit(t) ==
  /\ LevelAt(t) >= Unit
  /\ level' = LevelAt(t) - Unit
  /\ last' = t
  /\ admitted' = admitted + 1
  /\ UNCHANGED clock

Refuse(t) ==
  /\ LevelAt(t) < Unit
  /\ level' = LevelAt(t)
  /\ last' = t
  /\ UNCHANGED <<clock, admitted>>

Next == Tick \/ \E t \in last .. clock : Admit(t) \/ Refuse(t)

Spec == Init /\ [][Next]_vars
====
