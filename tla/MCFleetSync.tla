---------------------------- MODULE MCFleetSync -----------------------------
(* Small instances of FleetSync for TLC.                                   *)
EXTENDS FleetSync, TLC

\* Nothing tells vans, routes, trackers, schools or operators apart but their state.
Interchangeable ==
  Permutations(Van) \cup Permutations(Route) \cup Permutations(Device)
    \cup Permutations(School) \cup Permutations(Operator)
=============================================================================
