------------------------------ MODULE MCRides -------------------------------
(* Small instances of Rides for TLC: the routes go from schools s1 and s2  *)
(* to one gym, and pickups are due at tick 0 or at tick 1.                 *)
EXTENDS Rides

CONSTANTS r1, s1, s2, gym

TwoOrigins == [r \in Route |-> IF r = r1 THEN s1 ELSE s2]
SharedDestination == [r \in Route |-> gym]
AtZero == {0}
AtOne == {1}
=============================================================================
