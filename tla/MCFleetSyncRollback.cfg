\* One operator whose update fails half-way: the row is rolled back, the links are not.
SPECIFICATION Spec
CONSTANTS
  None = None
  Van = {v1, v2}
  Route = {r1, r2}
  Device = {d1, d2}
  School = {s1, s2}
  Gym = {g1}
  Handmade = {}
  Operator = {o1}
  MaxRequests = 2
  MaxFaults = 1
INVARIANT RoutesAreLinked
CHECK_DEADLOCK FALSE
