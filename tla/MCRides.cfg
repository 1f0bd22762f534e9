\* Two webhook requests at once, an operator's PATCH, schedules and routes that change,
\* and a failure or a restart.
SPECIFICATION FairSpec
CONSTANTS
  r1 = r1  s1 = s1  s2 = s2  gym = gym
  None = None
  Child = {c1}
  Van = {v1, v2}
  Route = {r1, r2}
  Fence = {s1, s2, gym}
  Handler = {h1, h2}
  Editor = {e1}
  Admin = {}
  Origin <- TwoOrigins
  Destination <- SharedDestination
  PickupTime <- AtZero
  Buffer = 0
  MaxDuration = 0
  MaxTime = 1
  MaxArrivals = 2
  MaxFaults = 1
INVARIANTS TypeOK StartsWereAnnounced SchoolNoticesHaveAnArrival GymNoticesFollowSchoolNotices
PROPERTIES ImplementsRideGate RidesExpire
CHECK_DEADLOCK FALSE
