\* Two requests at once, a viewer who is a parent or an operator, a van added late.
SPECIFICATION FairSpec
CONSTANTS
  None = None
  Van = {v1, v2}
  Handler = {h1, h2}
  Viewer = {s1}
  OPERATORS_GROUP = operators
  DeviceTime <- TwoTimes
  MaxFixes = 2
INVARIANTS TypeOK NoFixFallsBetween OnlyOwnVanShown
PROPERTIES FixesGetShown
CHECK_DEADLOCK FALSE
