\* Two threads, up to three accounts and three links, two phone numbers; two wrong
\* guesses and one code are the most, two tries a message's.
SPECIFICATION AccessFairSpec
CONSTANTS
  None = None
  Gone = Gone
  Unusable = Unusable
  MaxUsers = 3
  MaxInvites = 3
  Phone = {p1, p2}
  e1 = e1
  Email = {e1}
  Password = {w1}
  Code = {c1}
  Handler = {h1, h2}
  Mixes <- Groups
  Number <- OldPhone
  MaxAttempts = 2
  MaxSends = 1
  CodeTTL = 2
  SendTTL = 3
  Ticket = {t1}
  MaxRetries = 1
INVARIANTS
  AccessTypeOK
  PasswordsCameByLinks LinksSetFewPasswords FewShareAPhone ParentsGetALink TicketsAdmitFew
PROPERTIES AccessReturnsByOldCopy LockoutEnds SendingResumes NewParentsAreTold
CHECK_DEADLOCK FALSE
