\* A socket on the ride of either of two children, from connect to disconnect.
SPECIFICATION LiveFairSpec
CONSTANTS
  r1 = r1  s1 = s1  s2 = s2  gym = gym
  None = None
  Child = {c1, c2}
  Van = {v1}
  Route = {r1, r2}
  Fence = {s1, s2, gym}
  Handler = {h1}
  Editor = {}
  Admin = {}
  Origin <- TwoOrigins
  Destination <- SharedDestination
  PickupTime <- AtZero
  Buffer = 0
  MaxDuration = 0
  MaxTime = 1
  MaxArrivals = 3
  MaxFaults = 1
  Socket = {k1}
  Capacity = 2
INVARIANTS LiveTypeOK MembershipFollowsSocket OnlyEndedRoutesClose
PROPERTIES EndReachesWatchers QueuedEndCloses RidesExpire
CHECK_DEADLOCK FALSE
