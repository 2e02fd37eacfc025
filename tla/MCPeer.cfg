CONSTANTS
  p0 = p0
  p1 = p1
  p2 = p2
  PullI = PullI
  OtherI = OtherI
  ReplyI = ReplyI
  SubI = SubI
  Peers = {p0, p1}
  InterfaceIDs = {PullI, ReplyI, SubI}
  IDRange = 2
  HWM = 1
  MaxReceipts = 2
  interface_map_ <- MCInterfaces
  App <- EveryCall
  Uninit = Uninit
  None = None
SPECIFICATION InTurnSpec
INVARIANTS PeerInv LabelTokens SubscriptionsKeyed
PROPERTIES OnlyCyclesBlock BlockedForEver
CHECK_DEADLOCK FALSE
