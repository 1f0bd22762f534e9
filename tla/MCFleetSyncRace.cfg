\* Two operators at the same van, and no failures.
SPECIFICATION Spec
CONSTANTS
  None = None
  Van = {v1, v2}
  Route = {r1, r2}
  Device = {d1, d2}
  School = {s1, s2}
  Gym = {g1}
  Handmade = {}
  Operator = {o1, o2}
  MaxRequests = 2
  MaxFaults = 0
PROPERTY DeletionKeepsNeededZones
CHECK_DEADLOCK FALSE
