CONSTANTS
  p0 = p0
  p1 = p1
  p2 = p2
  PullI = PullI
  OtherI = OtherI
  ReplyI = ReplyI
  SubI = SubI
  Peers = {p0, p1}
  InterfaceIDs = {PullI, ReplyI}
  IDRange = 7
  HWM = 2
  MaxReceipts = 2
  interface_map_ <- MCInterfaces
  App <- Impatient
  Uninit = Uninit
  None = None
  Client = p0
  Replier = p1
  Timeouts = {0, 1, 3}
  MaxDrift = 1
  MaxWait = 6
  MaxRequests = 6
SPECIFICATION FairTimedSpec
INVARIANTS TimeInv OneLabelInv TimeKept OwnReply
PROPERTIES NotTooSoon RequestEnds
CHECK_DEADLOCK FALSE
