CONSTANTS
  i0 = i0
  i1 = i1
  a = a
  b = b
  c = c
  n0 = n0
  PortIDs = {i0, i1}
  Ports = {a, b, c}
  Names = {n0}
  MaxConnections = 2
  MaxArrivals = 2
  None = None
SPECIFICATION FairSpec
INVARIANTS HubInv RegisteredIsPolled LinksListed EventPortIsRead
PROPERTY WaitingIsRead
CHECK_DEADLOCK FALSE
