------------------------------ MODULE RideGate ------------------------------
(***************************************************************************)
(* What the ride tracking promises a parent, with the webhook, the tables  *)
(* and the threads left out: a gate per child, open while the live map may *)
(* be watched, that opens only for a pickup the parent was told of, and    *)
(* that is open since the time of that pickup.  Rides implements it.       *)
(***************************************************************************)
CONSTANTS Child,   \* the enrolled children
          Time,    \* the times of pickups
          None     \* no time, the mark of a gate that is shut

VARIABLES told,    \* the pickups announced: pairs of a child and a time
          gate     \* when the open gate of a child was opened, None if shut

vars == <<told, gate>>

Init ==
  /\ told = {}
  /\ gate = [c \in Child |-> None]

\* The parent of c is told that the van has arrived at the school.
Tell(c, t) ==
  /\ told' = told \cup {<<c, t>>}
  /\ UNCHANGED gate

\* The gate opens for a pickup that was announced.
Open(c, t) ==
  /\ <<c, t>> \in told
  /\ gate' = [gate EXCEPT ![c] = t]
  /\ UNCHANGED told

Shut(c) ==
  /\ gate' = [gate EXCEPT ![c] = None]
  /\ UNCHANGED told

Next == \E c \in Child : Shut(c) \/ \E t \in Time : Tell(c, t) \/ Open(c, t)

Spec == Init /\ [][Next]_vars
=============================================================================
