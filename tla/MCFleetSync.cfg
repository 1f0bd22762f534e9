\* Two operators, one of whom may fail at any call, and vans that get other trackers.
SPECIFICATION Spec
CONSTANTS
  None = None
  Van = {v1, v2}
  Route = {r1, r2}
  Device = {d1, d2, d3}
  School = {s1, s2}
  Gym = {g1}
  Handmade = {m1}
  Operator = {o1, o2}
  MaxRequests = 2
  MaxFaults = 2
INVARIANTS TypeOK RowsHaveZones LinksFollowRoutes CreatedRoutesAreLinked
PROPERTIES HandmadeLinksStay ImplementsVanLinks
SYMMETRY Interchangeable
CHECK_DEADLOCK FALSE
