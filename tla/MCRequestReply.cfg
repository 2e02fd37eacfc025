CONSTANTS
  c0 = c0
  c1 = c1
  s0 = s0
  s1 = s1
  CallerI = CallerI
  ReplyI = ReplyI
  Clients = {c0, c1}
  Server <- MCServer
  Peers = {c0, c1, s0, s1}
  InterfaceIDs = {CallerI, ReplyI}
  IDRange = 3
  HWM = 1
  MaxReceipts = 1
  interface_map_ <- MCInterfaces
  App <- MCApp
  Uninit = Uninit
  None = None
SPECIFICATION FairSpec
INVARIANTS LockstepInv NoOverwriteInFlight LabelsIntact ReplyNotDropped OnlyReplyAccepted
PROPERTIES ExactlyOnce RequestsReturn
