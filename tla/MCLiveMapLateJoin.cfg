\* A parent connects while the gym arrival ends the ride.
SPECIFICATION LiveFairSpec
CONSTANTS
  r1 = r1  s1 = s1  s2 = s2  gym = gym
  None = None
  Child = {c1}
  Van = {v1}
  Route = {r1}
  Fence = {s1, s2, gym}
  Handler = {h1}
  Editor = {}
  Admin = {}
  Origin <- TwoOrigins
  Destination <- SharedDestination
  PickupTime <- AtZero
  Buffer = 0
  MaxDuration = 0
  MaxTime = 1
  MaxArrivals = 2
  MaxFaults = 0
  Socket = {k1}
  Capacity = 2
PROPERTY EndedRideCloses
CHECK_DEADLOCK FALSE
