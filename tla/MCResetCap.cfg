\* Two threads and the five attempts of views.py:328.  No request fails here.  A behaviour
\* may end, with both threads about to create an invite beyond the bound.
SPECIFICATION AccessSpec
CONSTANTS
  None = None
  Gone = Gone
  Unusable = Unusable
  MaxUsers = 1
  MaxInvites = 1
  Phone = {p1}
  e1 = e1
  Email = {e1}
  Password = {w1}
  Code = {c1}
  Handler = {h1, h2}
  Mixes <- Resets
  Number <- OldPhone
  MaxAttempts = 5
  MaxSends = 1
  CodeTTL = 2
  SendTTL = 3
  Ticket = {t1}
  MaxRetries = 1
INVARIANTS HardCap
CHECK_DEADLOCK FALSE
