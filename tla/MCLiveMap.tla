----------------------------- MODULE MCLiveMap ------------------------------
(* Small instances of LiveMap for TLC: the routes of one van from two      *)
(* schools to one gym, and pickups due at tick 0.                          *)
EXTENDS LiveMap

CONSTANTS r1, s1, s2, gym

TwoOrigins == [r \in Route |-> IF r = r1 THEN s1 ELSE s2]
SharedDestination == [r \in Route |-> gym]
AtZero == {0}
=============================================================================
