CONSTANTS
  p0 = p0
  p1 = p1
  p2 = p2
  PullI = PullI
  OtherI = OtherI
  ReplyI = ReplyI
  SubI = SubI
  Peers = {p0, p1, p2}
  InterfaceIDs = {PullI, ReplyI}
  IDRange = 4
  HWM = 2
  MaxReceipts = 2
  interface_map_ <- MCInterfaces
  App <- ClientWithInbox
  Uninit = Uninit
  None = None
SPECIFICATION Spec
INVARIANT OnlyReplyAccepted
