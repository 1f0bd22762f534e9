\* An operator edits a child while the webhook serves an arrival.
SPECIFICATION Spec
CONSTANTS
  r1 = r1  s1 = s1  s2 = s2  gym = gym
  None = None
  Child = {c1}
  Van = {v1}
  Route = {r1, r2}
  Fence = {s1, s2, gym}
  Handler = {h1}
  Editor = {e1}
  Admin = {}
  Origin <- TwoOrigins
  Destination <- SharedDestination
  PickupTime <- AtOne
  Buffer = 1
  MaxDuration = 1
  MaxTime = 2
  MaxArrivals = 2
  MaxFaults = 0
PROPERTY PatchLeavesRideAlone
CHECK_DEADLOCK FALSE
