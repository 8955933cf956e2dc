SPECIFICATION FairSpec
CONSTANTS
  c1 = c1
  c2 = c2
  Clients <- MCClients
  Messages = 3
  MaxForkFailures = 1
INVARIANT
  TypeOK
PROPERTIES
  Served
  Reaped
CHECK_DEADLOCK FALSE
