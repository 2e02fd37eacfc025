CONSTANTS
  p0 = p0
  p1 = p1
  Peers = {p0, p1}
  MaxPipes = 4
  None = None
SPECIFICATION FairSpec
INVARIANTS ConnectionsInv RoutesAgree ListedIsUsable DisconnectedIsCut
PROPERTY Connects
CHECK_DEADLOCK FALSE
