\* Two vans on the road, from two schools to the same gym.
SPECIFICATION Spec
CONSTANTS
  r1 = r1  s1 = s1  s2 = s2  gym = gym
  None = None
  Child = {c1, c2}
  Van = {v1, v2}
  Route = {r1, r2}
  Fence = {s1, s2, gym}
  Handler = {h1}
  Editor = {}
  Admin = {}
  Origin <- TwoOrigins
  Destination <- SharedDestination
  PickupTime <- AtZero
  Buffer = 0
  MaxDuration = 1
  MaxTime = 1
  MaxArrivals = 3
  MaxFaults = 0
INVARIANT OnlyOwnVanTellsArrival
CHECK_DEADLOCK FALSE
