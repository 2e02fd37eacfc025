CONSTANTS
  p0 = p0
  p1 = p1
  p2 = p2
  PullI = PullI
  OtherI = OtherI
  ReplyI = ReplyI
  SubI = SubI
  Peers = {p0, p1}
  InterfaceIDs = {PullI, OtherI}
  IDRange = 8
  HWM = 4
  MaxReceipts = 2
  interface_map_ <- MCInterfaces
  App <- OneWay
  Uninit = Uninit
  None = None
  Producer = p0
  Consumer = p1
  Inbox = PullI
  Outbox = PullI
SPECIFICATION FairSpec
INVARIANTS OneWayInv RouteIntact NothingSkipped
PROPERTIES PushReturns PushedInOrder PushesDelivered
