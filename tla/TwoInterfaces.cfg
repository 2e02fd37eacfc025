CONSTANTS
  p0 = p0
  p1 = p1
  p2 = p2
  PullI = PullI
  OtherI = OtherI
  ReplyI = ReplyI
  SubI = SubI
  Peers = {p0, p1}
  InterfaceIDs = {PullI, OtherI}
  IDRange = 4
  HWM = 2
  MaxReceipts = 2
  interface_map_ <- MCInterfaces
  App <- TwoInterfaces
  Uninit = Uninit
  None = None
SPECIFICATION Spec
INVARIANT RouteIntact
