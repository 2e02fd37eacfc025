------------------------- MODULE RequestReplyProofs -------------------------
(***************************************************************************)
(* Requests used as the test of the repository uses them are remote calls, *)
(* for any number of clients and repliers, any pipe capacity and any width *)
(* of the message counter.                                                 *)
(***************************************************************************)
EXTENDS RequestReply, PeerProofs

USE PairAssumption, UseAssumption

(* The inductive invariant.                                                *)
PairInv == PeerInv /\ LockstepInv

Act(p) ==
  \/ Call(p) \/ Send(p) \/ Handle(p) \/ RequestTimeout(p)
  \/ \E q \in Peers : Receive(p, q)

(* A step leaves all that peer r has as it is.                             *)
Same(r) ==
  /\ labelBuf'[r] = labelBuf[r] /\ loaded'[r] = loaded[r] /\ messageID'[r] = messageID[r]
  /\ pc'[r] = pc[r] /\ op'[r] = op[r] /\ out'[r] = out[r] /\ body'[r] = body[r]
  /\ in'[r] = in[r]

LEMMA ServerType ==
  ASSUME NEW c \in Clients
  PROVE  c \in Peers /\ Server[c] \in Peers /\ Server[c] \notin Clients /\ Server[c] # c
  OBVIOUS

Phase(c) == AtClient(c) \/ Requested(c) \/ Replying(c) \/ Replied(c)

LEMMA ClientFacts ==
  ASSUME PairInv, NEW c \in Clients
  PROVE  /\ op[c] \in {"none", "request"}
         /\ out[c] # <<>> => out[c][1] \in App[c].request
         /\ Phase(c)
  BY DEF PairInv, LockstepInv, Phase

LEMMA ServerFacts ==
  ASSUME PairInv, NEW s \in Peers \ Clients
  PROVE  op[s] \in {"none", "service"} /\ (pc[s] # "idle" => \E c \in Clients : s = Server[c])
  BY DEF PairInv, LockstepInv

LEMMA PipeFacts ==
  ASSUME PairInv
  PROVE  /\ \A p, q \in Peers : ~Partners(p, q) => pipe[p][q] = <<>>
         /\ \A p \in Peers : open[p]
  BY DEF PairInv, LockstepInv

-----------------------------------------------------------------------------
(* Which steps there are                                                   *)

(* A request names the server of its client, and an interface that replies.*)
LEMMA RequestLabel ==
  ASSUME PairInv, NEW c \in Clients, pc[c] # "idle"
  PROVE  /\ op[c] = "request" /\ Len(out[c]) = 1 /\ out[c] # <<>>
         /\ Head(out[c]) \in Label /\ Head(out[c]) \in App[c].request
         /\ Head(out[c]).destPeer = Server[c]
         /\ interface_map_[Server[c]][Head(out[c]).destInterface] = "reply"
<1>1. c \in Peers /\ out[c] \in Seq(Label)
  BY ServerType DEF PairInv, PeerInv, TypeOK
<1>2. op[c] = "request"
  <2>1. op[c] \in {"none", "request"}
    BY ClientFacts
  <2>2. op[c] = "none" <=> pc[c] = "idle"
    BY <1>1 DEF PairInv, PeerInv, CallOK
  <2> QED
    BY <2>1, <2>2
<1>3. Len(out[c]) = 1
  BY <1>1, <1>2 DEF PairInv, PeerInv, CallOK
<1>4. out[c] # <<>>
  <2> SUFFICES ASSUME out[c] = <<>> PROVE FALSE
    OBVIOUS
  <2>1. Len(out[c]) = 0
    BY EmptySeq
  <2> QED
    BY <1>3, <2>1
<1>5. Head(out[c]) = out[c][1]
  BY <1>1, <1>4, HeadTailProperties
<1>6. Head(out[c]) \in App[c].request
  BY <1>4, <1>5, ClientFacts
<1>7. Head(out[c]) \in Label
  BY <1>1, <1>4, HeadTailProperties
<1> QED
  BY <1>2, <1>3, <1>4, <1>6, <1>7

(* The reply to a request has its ends swapped and the ID of the client.   *)
LEMMA ReplyLabelFields ==
  ASSUME PairInv, NEW c \in Clients, pc[c] # "idle"
  PROVE  /\ ReplyLabel(c) \in Label /\ ReplyLabel(c).messageID = messageID[c]
         /\ ReplyLabel(c).srcPeer = Server[c] /\ ReplyLabel(c).destPeer = c
         /\ ReplyLabel(c).srcInterface = Head(out[c]).destInterface
         /\ ReplyLabel(c).destInterface = Head(out[c]).srcInterface
<1> DEFINE request == Head(out[c])
<1>1. request \in Label /\ request.destPeer = Server[c]
  BY RequestLabel
<1>2. messageID[c] \in MessageIDs /\ c \in Peers
  BY ServerType DEF PairInv, PeerInv, TypeOK
<1> HIDE DEF request
<1> QED
  BY <1>1, <1>2 DEF ReplyLabel, Swap, Label, request

LEMMA ClientSteps ==
  ASSUME PairInv, NEW c \in Clients, Act(c)
  PROVE  \/ Request(c) \/ WriteLabel(c) \/ AcceptReply(c) \/ Receive(c, Server[c])
         \/ SendPackage(c) /\ Dest(c) = Server[c]
<1>1. c \in Peers /\ Server[c] \in Peers /\ c # Server[c]
  BY ServerType
<1>2. ~Push(c) /\ ~Publish(c) /\ ~ClosePort(c)
  BY <1>1 DEF Push, Publish, ClosePort
<1>3. ~SendLost(c) /\ ~SendThrows(c) /\ (SendPackage(c) => Dest(c) = Server[c])
  <2>1. open[c] /\ open[Server[c]]
    BY <1>1, PipeFacts
  <2>2. pc[c] = "sending" => Dest(c) = Server[c]
    BY RequestLabel DEF Dest
  <2> QED
    BY <1>1, <2>1, <2>2 DEF SendLost, SendThrows, SendPackage
<1>4. op[c] \notin {"get", "service"}
  BY ClientFacts
<1>5. ~ReturnPackage(c) /\ ~DropUnknown(c) /\ ~HandlePull(c) /\ ~HandleReply(c)
      /\ ~HandleSubscription(c)
  BY <1>4 DEF ReturnPackage, DropUnknown, HandlePull, HandleReply, HandleSubscription, Dispatches
<1>6. ~RequestTimeout(c)
  BY DEF RequestTimeout
<1>7. ASSUME NEW q \in Peers, Receive(c, q) PROVE q = Server[c]
  <2>1. pipe[q][c] # <<>>
    BY <1>7 DEF Receive, TakePackage
  <2>2. Partners(q, c)
    BY <1>1, <2>1, PipeFacts
  <2> QED
    BY <2>2 DEF Partners
<1>8. ~DropMismatch(c)
  <2> SUFFICES ASSUME pc[c] = "copying" PROVE in[c].seen.messageID = messageID[c]
    BY DEF DropMismatch
  <2>1. Replied(c)
    BY ClientFacts DEF Phase, AtClient, Requested, Replying
  <2>2. in[c].seen = ReplyLabel(c)
    BY <2>1 DEF Replied
  <2> QED
    BY <2>2, ReplyLabelFields
<1> QED
  BY <1>2, <1>3, <1>5, <1>6, <1>7, <1>8 DEF Act, Call, Send, Handle

LEMMA ServerSteps ==
  ASSUME PairInv, NEW s \in Peers \ Clients, Act(s)
  PROVE  \E c \in Clients :
           /\ s = Server[c]
           /\ \/ Receive(s, c) \/ HandleReply(s) \/ WriteLabel(s)
              \/ SendPackage(s) /\ Dest(s) = c
<1>1. ~Push(s) /\ ~Publish(s) /\ ~ClosePort(s) /\ ~Request(s)
  BY DEF Push, Publish, ClosePort, Request
<1>2. op[s] \notin {"get", "request"}
  BY ServerFacts
<1>3. ~ReturnPackage(s) /\ ~AcceptReply(s) /\ ~DropMismatch(s)
  BY <1>2 DEF ReturnPackage, AcceptReply, DropMismatch
<1>4. ~RequestTimeout(s)
  BY <1>2 DEF RequestTimeout, PairInv, PeerInv, CallOK
<1>5. ASSUME NEW q \in Peers, Receive(s, q) PROVE q \in Clients /\ s = Server[q]
  <2>1. pipe[q][s] # <<>>
    BY <1>5 DEF Receive, TakePackage
  <2>2. Partners(q, s)
    BY <2>1, PipeFacts
  <2> QED
    BY <2>2 DEF Partners
<1>6. CASE pc[s] = "idle"
  BY <1>1, <1>3, <1>4, <1>5, <1>6 DEF Act, Call, Send, Handle, WriteLabel, SendPackage, SendLost,
     SendThrows, DropUnknown, HandlePull, HandleReply, HandleSubscription, Dispatches
<1>7. CASE pc[s] # "idle"
  <2>1. PICK c \in Clients : s = Server[c]
    BY <1>7, ServerFacts
  <2>2. c \in Peers /\ s # c /\ open[s] /\ open[c]
    BY <2>1, ServerType, PipeFacts
  <2>3. pc[s] = "sending" => Dest(s) = c
    <3> SUFFICES ASSUME pc[s] = "sending" PROVE Dest(s) = c
      OBVIOUS
    <3>1. Replying(c)
      BY <2>1, ClientFacts DEF Phase, AtClient, Requested, Replied
    <3>2. out[s] = <<ReplyLabel(c)>> /\ pc[c] # "idle"
      BY <2>1, <3>1 DEF Replying
    <3> QED
      BY <3>2, ReplyLabelFields DEF Dest
  <2>4. ~SendLost(s) /\ ~SendThrows(s) /\ (SendPackage(s) => Dest(s) = c)
    BY <2>2, <2>3 DEF SendLost, SendThrows, SendPackage
  <2>5. pc[s] = "copying" => interface_map_[s][in[s].seen.destInterface] = "reply"
    <3> SUFFICES ASSUME pc[s] = "copying" PROVE interface_map_[s][in[s].seen.destInterface] = "reply"
      OBVIOUS
    <3>1. Requested(c)
      BY <2>1, ClientFacts DEF Phase, AtClient, Replying, Replied
    <3>2. in[s].seen = [Head(out[c]) EXCEPT !.srcPeer = c, !.messageID = messageID[c]] /\ pc[c] # "idle"
      BY <2>1, <3>1 DEF Requested
    <3>3. Head(out[c]) \in Label
      BY <3>2, RequestLabel
    <3>4. in[s].seen.destInterface = Head(out[c]).destInterface
      BY <3>2, <3>3 DEF Label
    <3> QED
      BY <2>1, <3>2, <3>4, RequestLabel
  <2>6. ~DropUnknown(s) /\ ~HandlePull(s) /\ ~HandleSubscription(s)
    BY <2>5 DEF DropUnknown, HandlePull, HandleSubscription, Dispatches
  <2>7. \A q \in Peers : Receive(s, q) => q = c
    BY <1>5, <2>1
  <2> QED
    BY <1>1, <1>3, <1>4, <2>1, <2>4, <2>6, <2>7 DEF Act, Call, Send, Handle
<1> QED
  BY <1>6, <1>7

-----------------------------------------------------------------------------
(* What a step leaves alone                                                *)

LEMMA OnlyActor ==
  ASSUME PairInv, NEW p \in Peers, NEW q \in Peers,
         \/ Request(p) \/ WriteLabel(p) \/ SendPackage(p) \/ AcceptReply(p)
         \/ HandleReply(p) \/ Receive(p, q)
  PROVE  \A r \in Peers \ {p} : Same(r) /\ \A t \in Peers \ {p} : pipe'[t][r] = pipe[t][r]
<1> SUFFICES ASSUME NEW r \in Peers \ {p}
             PROVE  Same(r) /\ \A t \in Peers \ {p} : pipe'[t][r] = pipe[t][r]
  OBVIOUS
<1>0. TypeOK
  BY DEF PairInv, PeerInv
<1>1. CASE Request(p)
  <2>1. PICK label \in App[p].request : BeginSend(p, "request", <<label>>)
    BY <1>1 DEF Request
  <2> QED
    BY <1>0, <1>1, <2>1 DEF Request, BeginSend, Same, TypeOK
<1>2. CASE WriteLabel(p)
  BY <1>0, <1>2 DEF WriteLabel, calling, Same, TypeOK
<1>3. CASE SendPackage(p)
  <2>1. \A t \in Peers \ {p} : pipe'[t][r] = pipe[t][r]
    BY <1>0, <1>3 DEF SendPackage, TypeOK
  <2>2. Same(r)
    BY <1>0, <1>3 DEF SendPackage, PackageTaken, EndCall, Same, TypeOK
  <2> QED
    BY <2>1, <2>2
<1>4. CASE AcceptReply(p)
  BY <1>0, <1>4 DEF AcceptReply, Copied, CopiedTo, EndCall, Same, TypeOK
<1>5. CASE HandleReply(p)
  BY <1>0, <1>5 DEF HandleReply, Copied, CopiedTo, BeginSend, EndCall, Same, TypeOK
<1>6. CASE Receive(p, q)
  <2>1. \A t \in Peers \ {p} : pipe'[t][r] = pipe[t][r]
    BY <1>0, <1>6 DEF Receive, TakePackage, TypeOK
  <2>2. in'[r] = in[r]
    BY <1>0, <1>6 DEF Receive, TakePackage, TypeOK
  <2>3. op'[r] = op[r] /\ pc'[r] = pc[r]
    BY <1>0, <1>6 DEF Receive, TakePackage, TypeOK
  <2> QED
    BY <1>6, <2>1, <2>2, <2>3 DEF Receive, Same
<1> QED
  BY <1>1, <1>2, <1>3, <1>4, <1>5, <1>6

(* A pair of which neither peer moves stays where it is.                   *)
LEMMA PairAtRest ==
  ASSUME NEW c \in Clients, Same(c), Same(Server[c]),
         pipe'[c][Server[c]] = pipe[c][Server[c]], pipe'[Server[c]][c] = pipe[Server[c]][c]
  PROVE  /\ AtClient(c)' <=> AtClient(c)
         /\ Requested(c)' <=> Requested(c)
         /\ Replying(c)' <=> Replying(c)
         /\ Replied(c)' <=> Replied(c)
<1>1. ReplyLabel(c)' = ReplyLabel(c)
  BY DEF ReplyLabel, Same
<1>2. AtClient(c)' <=> AtClient(c)
  BY DEF AtClient, Same, Quiet, Ahead, Level
<1>3. Requested(c)' <=> Requested(c)
  BY DEF Requested, Same, Ahead, FullPackage
<1>4. Replying(c)' <=> Replying(c)
  BY <1>1 DEF Replying, Same, Quiet, Ahead, Level
<1>5. Replied(c)' <=> Replied(c)
  BY <1>1 DEF Replied, Same, Level, FullPackage
<1> QED
  BY <1>2, <1>3, <1>4, <1>5

-----------------------------------------------------------------------------
(* The steps of a client                                                   *)

LEMMA RequestStep ==
  ASSUME PairInv, NEW c \in Clients, Request(c)
  PROVE  AtClient(c) /\ pc[c] = "idle" /\ AtClient(c)' /\ pc'[c] = "writing"
<1> DEFINE s == Server[c]
<1>1. c \in Peers /\ s \in Peers \ {c} /\ TypeOK
  BY ServerType DEF PairInv, PeerInv
<1>2. Same(s)
  BY <1>1, OnlyActor
<1>3. PICK label \in App[c].request : BeginSend(c, "request", <<label>>)
  BY DEF Request
<1>4. pc[c] = "idle" /\ pc'[c] = "writing" /\ body'[c]
      /\ UNCHANGED <<labelBuf, loaded, messageID, pipe>>
  BY <1>1, <1>3 DEF Request, BeginSend, TypeOK
<1>5. AtClient(c)
  BY <1>4, ClientFacts DEF Phase, Requested, Replying, Replied
<1>6. AtClient(c)'
  BY <1>2, <1>4, <1>5 DEF AtClient, Same, Quiet, Level
<1> QED
  BY <1>4, <1>5, <1>6

LEMMA ClientWrites ==
  ASSUME PairInv, NEW c \in Clients, WriteLabel(c)
  PROVE  AtClient(c) /\ pc[c] = "writing" /\ AtClient(c)' /\ pc'[c] = "sending"
<1> DEFINE s == Server[c]
<1>1. c \in Peers /\ s \in Peers \ {c} /\ TypeOK
  BY ServerType DEF PairInv, PeerInv
<1>2. Same(s)
  BY <1>1, OnlyActor
<1>3. pc[c] = "writing" /\ pc'[c] = "sending" /\ messageID'[c] = NextID(messageID[c])
      /\ labelBuf'[c] = Stamped(c) /\ UNCHANGED <<loaded, pipe, out, body>>
  BY <1>1 DEF WriteLabel, calling, TypeOK
<1>4. AtClient(c)
  BY <1>3, ClientFacts DEF Phase, Requested, Replying, Replied
<1>5. loaded[c] /\ body[c] /\ Quiet(c) /\ Level(c) /\ pc[s] = "idle"
  BY <1>3, <1>4 DEF AtClient
<1>6. labelBuf'[c] = [Head(out'[c]) EXCEPT !.srcPeer = c, !.messageID = messageID'[c]]
  BY <1>3 DEF Stamped
<1>7. Ahead(c)' /\ Quiet(c)' /\ loaded'[c] /\ body'[c] /\ pc'[s] = "idle"
  BY <1>2, <1>3, <1>5 DEF Ahead, Level, Quiet, Same
<1>8. AtClient(c)'
  BY <1>3, <1>6, <1>7 DEF AtClient
<1> QED
  BY <1>3, <1>4, <1>8

LEMMA ClientSends ==
  ASSUME PairInv, NEW c \in Clients, SendPackage(c)
  PROVE  AtClient(c) /\ pc[c] = "sending" /\ Requested(c)'
<1> DEFINE s == Server[c]
<1>1. c \in Peers /\ s \in Peers \ {c} /\ TypeOK
  BY ServerType DEF PairInv, PeerInv
<1>2. Same(s)
  BY <1>1, OnlyActor
<1>3. pc[c] = "sending"
  BY DEF SendPackage
<1>4. AtClient(c)
  BY <1>3, ClientFacts DEF Phase, Requested, Replying, Replied
<1>5. /\ loaded[c] /\ body[c] /\ Quiet(c) /\ Ahead(c) /\ pc[s] = "idle"
      /\ labelBuf[c] = [Head(out[c]) EXCEPT !.srcPeer = c, !.messageID = messageID[c]]
  BY <1>3, <1>4 DEF AtClient
<1>6. op[c] = "request" /\ Dest(c) = s
  BY <1>3, RequestLabel DEF Dest
<1>7. pc'[c] = "waiting" /\ ~loaded'[c] /\ UNCHANGED <<labelBuf, messageID, out>>
  BY <1>1, <1>6 DEF SendPackage, PackageTaken, TypeOK
<1>8. pipe' = [pipe EXCEPT ![c][s] =
                 Append(@, [shared |-> loaded[c], body |-> body[c], sent |-> labelBuf[c]])]
  BY <1>6 DEF SendPackage
<1>9. pipe'[c][s] = Append(pipe[c][s], [shared |-> loaded[c], body |-> body[c], sent |-> labelBuf[c]])
      /\ pipe'[s][c] = pipe[s][c]
  BY <1>1, <1>8 DEF TypeOK
<1>10. loaded[c] = TRUE /\ body[c] = TRUE
  BY <1>1, <1>5 DEF TypeOK
<1>11. pipe'[c][s] = <<FullPackage(labelBuf[c])>> /\ pipe'[s][c] = <<>>
  BY <1>5, <1>9, <1>10 DEF Quiet, FullPackage
<1>12. Requested(c)'
  BY <1>2, <1>5, <1>7, <1>11 DEF Requested, Ahead, Same, FullPackage
<1> QED
  BY <1>3, <1>4, <1>12

(* While the owner of a buffer does not write it, a label is read whole.   *)
LEMMA ReadsWhole ==
  ASSUME PairInv, NEW p \in Peers, pc[p] \notin {"writing", "copying"}, labelBuf[p] # Uninit,
         NEW label \in BufferReads(p)
  PROVE  label = labelBuf[p]
<1>1. labelBuf[p] \in Label
  BY DEF PairInv, PeerInv, TypeOK
<1>2. Memory(p) \cup BeingWritten(p) = {labelBuf[p]}
  BY DEF Memory, BeingWritten
<1>3. label \in Label /\ \A f \in LabelFields : label[f] = labelBuf[p][f]
  BY <1>2 DEF BufferReads, Torn
<1>4. /\ label.messageID = labelBuf[p].messageID
      /\ label.srcPeer = labelBuf[p].srcPeer /\ label.srcInterface = labelBuf[p].srcInterface
      /\ label.destPeer = labelBuf[p].destPeer
      /\ label.destInterface = labelBuf[p].destInterface
  BY <1>3 DEF LabelFields
<1> QED
  BY <1>1, <1>3, <1>4 DEF Label

LEMMA NeverUninit == \A label \in Label : label # Uninit
  BY PeerAssumption

LEMMA TakesFull ==
  ASSUME NEW p, NEW q, NEW sent, TakePackage(p, q), Head(pipe[q][p]) = FullPackage(sent)
  PROVE  \E label \in BufferReads(q) :
           in' = [in EXCEPT ![p] = [shared |-> TRUE, body |-> TRUE, sent |-> sent, seen |-> label]]
<1> DEFINE package == Head(pipe[q][p])
<1>1. package.shared = TRUE /\ package.body = TRUE /\ package.sent = sent
  BY DEF FullPackage
<1>2. PICK label \in (IF package.shared THEN BufferReads(q) ELSE Memory(p)) :
        in' = [in EXCEPT ![p] = [shared |-> package.shared, body |-> package.body,
                                 sent |-> package.sent, seen |-> label]]
  BY DEF TakePackage
<1> HIDE DEF package
<1> QED
  BY <1>1, <1>2

LEMMA ClientReceives ==
  ASSUME PairInv, NEW c \in Clients, Receive(c, Server[c])
  PROVE  Replied(c) /\ Replied(c)'
<1> DEFINE s == Server[c]
<1>1. c \in Peers /\ s \in Peers \ {c} /\ TypeOK
  BY ServerType DEF PairInv, PeerInv
<1>2. Same(s)
  BY <1>1, OnlyActor
<1>3. pc[c] = "waiting" /\ pc'[c] = "copying" /\ pipe[s][c] # <<>>
      /\ UNCHANGED <<labelBuf, loaded, messageID, out>>
  BY <1>1 DEF Receive, TakePackage, TypeOK
<1>4. Replied(c)
  BY <1>3, ClientFacts DEF Phase, AtClient, Requested, Replying, Quiet
<1>5. /\ Level(c) /\ pc[s] = "idle" /\ labelBuf[s] = ReplyLabel(c) /\ pipe[c][s] = <<>>
      /\ pipe[s][c] = <<FullPackage(labelBuf[s])>>
  BY <1>3, <1>4 DEF Replied
<1>6. Head(pipe[s][c]) = FullPackage(labelBuf[s]) /\ Tail(pipe[s][c]) = <<>>
  BY <1>5
<1>7. pipe'[s][c] = <<>> /\ pipe'[c][s] = <<>>
  BY <1>1, <1>5, <1>6 DEF Receive, TakePackage, TypeOK
<1>8. in'[c] = [shared |-> TRUE, body |-> TRUE, sent |-> labelBuf[s], seen |-> labelBuf[s]]
  <2>1. labelBuf[s] # Uninit
    BY <1>3, <1>5, ReplyLabelFields, NeverUninit
  <2>2. PICK label \in BufferReads(s) :
          in' = [in EXCEPT ![c] = [shared |-> TRUE, body |-> TRUE, sent |-> labelBuf[s], seen |-> label]]
    BY <1>6, TakesFull DEF Receive
  <2>3. label = labelBuf[s]
    BY <1>1, <1>5, <2>1, ReadsWhole
  <2> QED
    BY <1>1, <2>2, <2>3 DEF TypeOK
<1>9. ReplyLabel(c)' = ReplyLabel(c) /\ Level(c)' /\ pc'[s] = "idle"
  BY <1>2, <1>3, <1>5 DEF ReplyLabel, Level, Same
<1>10. Replied(c)'
  BY <1>3, <1>5, <1>7, <1>8, <1>9 DEF Replied
<1> QED
  BY <1>4, <1>10

LEMMA AcceptStep ==
  ASSUME PairInv, NEW c \in Clients, AcceptReply(c)
  PROVE  Replied(c) /\ AtClient(c)' /\ pc'[c] = "idle"
<1> DEFINE s == Server[c]
<1>1. c \in Peers /\ s \in Peers \ {c} /\ TypeOK
  BY ServerType DEF PairInv, PeerInv
<1>2. Same(s)
  BY <1>1, OnlyActor
<1>3. pc[c] = "copying" /\ pc'[c] = "idle" /\ loaded'[c] = in[c].shared
      /\ UNCHANGED <<messageID, pipe>>
  BY <1>1 DEF AcceptReply, Copied, CopiedTo, EndCall, TypeOK
<1>4. Replied(c)
  BY <1>3, ClientFacts DEF Phase, AtClient, Requested, Replying
<1>5. in[c].shared /\ Level(c) /\ pc[s] = "idle" /\ Quiet(c)
  BY <1>3, <1>4 DEF Replied, Quiet
<1>6. AtClient(c)'
  BY <1>2, <1>3, <1>5 DEF AtClient, Level, Quiet, Same
<1> QED
  BY <1>3, <1>4, <1>6

-----------------------------------------------------------------------------
(* The steps of a server                                                   *)

LEMMA ServerReceives ==
  ASSUME PairInv, NEW c \in Clients, Receive(Server[c], c)
  PROVE  Requested(c) /\ Requested(c)'
<1> DEFINE s == Server[c]
<1>1. c \in Peers /\ s \in Peers \ {c} /\ s \notin Clients /\ TypeOK
  BY ServerType DEF PairInv, PeerInv
<1>2. Same(c)
  BY <1>1, OnlyActor
<1>3. pipe[c][s] # <<>>
  BY DEF Receive, TakePackage
<1>4. Requested(c)
  BY <1>3, ClientFacts DEF Phase, AtClient, Replying, Replied, Quiet
<1>5. pc[s] \in {"idle", "waiting"} /\ pc'[s] = "copying"
      /\ UNCHANGED <<labelBuf, loaded, messageID, out>>
  BY <1>1 DEF Receive, TakePackage, TypeOK
<1>6. /\ pc[c] = "waiting" /\ Ahead(c) /\ ~loaded[c] /\ pipe[s][c] = <<>>
      /\ labelBuf[c] = [Head(out[c]) EXCEPT !.srcPeer = c, !.messageID = messageID[c]]
      /\ pipe[c][s] = <<FullPackage(labelBuf[c])>>
  BY <1>3, <1>4 DEF Requested
<1>7. Head(pipe[c][s]) = FullPackage(labelBuf[c]) /\ Tail(pipe[c][s]) = <<>>
  BY <1>6
<1>8. pipe'[c][s] = <<>> /\ pipe'[s][c] = <<>>
  BY <1>1, <1>6, <1>7 DEF Receive, TakePackage, TypeOK
<1>9. in'[s] = [shared |-> TRUE, body |-> TRUE, sent |-> labelBuf[c], seen |-> labelBuf[c]]
  <2>1. labelBuf[c] # Uninit
    <3>1. Head(out[c]) \in Label /\ messageID[c] \in MessageIDs
      BY <1>1, <1>6, RequestLabel DEF TypeOK
    <3>2. labelBuf[c] \in Label
      BY <1>1, <1>6, <3>1 DEF Label
    <3> QED
      BY <3>2, NeverUninit
  <2>2. PICK label \in BufferReads(c) :
          in' = [in EXCEPT ![s] = [shared |-> TRUE, body |-> TRUE, sent |-> labelBuf[c], seen |-> label]]
    BY <1>7, TakesFull DEF Receive
  <2>3. label = labelBuf[c]
    BY <1>1, <1>6, <2>1, ReadsWhole
  <2> QED
    BY <1>1, <2>2, <2>3 DEF TypeOK
<1>10. pc'[c] = "waiting" /\ Ahead(c)'
  BY <1>2, <1>5, <1>6 DEF Ahead, Same
<1>11. Requested(c)'
  BY <1>5, <1>6, <1>8, <1>9, <1>10 DEF Requested
<1> QED
  BY <1>4, <1>11

LEMMA ServerReplies ==
  ASSUME PairInv, NEW c \in Clients, HandleReply(Server[c])
  PROVE  Requested(c) /\ Replying(c)'
<1> DEFINE s == Server[c]
<1>1. c \in Peers /\ s \in Peers \ {c} /\ s \notin Clients /\ TypeOK
  BY ServerType DEF PairInv, PeerInv
<1>2. Same(c)
  BY <1>1, OnlyActor
<1>3. pc[s] = "copying"
  BY DEF HandleReply, Dispatches
<1>4. Requested(c)
  BY <1>3, ClientFacts DEF Phase, AtClient, Replying, Replied
<1>5. /\ pc[c] = "waiting" /\ Ahead(c) /\ ~loaded[c] /\ Quiet(c)
      /\ in[s].shared /\ Swap(in[s].seen) = ReplyLabel(c)
  BY <1>3, <1>4 DEF Requested, ReplyLabel, Quiet
<1>6. BeginSend(s, "service", <<Swap(in[s].seen)>>)
  BY <1>1 DEF HandleReply
<1>7. /\ pc'[s] = "writing" /\ body'[s] /\ out'[s] = <<ReplyLabel(c)>>
  BY <1>1, <1>5, <1>6 DEF BeginSend, TypeOK
<1>8. loaded'[s] = in[s].shared /\ UNCHANGED <<messageID, pipe>>
  BY <1>1 DEF HandleReply, Copied, CopiedTo, TypeOK
<1>9. ReplyLabel(c)' = ReplyLabel(c) /\ pc'[c] = "waiting" /\ ~loaded'[c] /\ Quiet(c)' /\ Ahead(c)'
  BY <1>2, <1>5, <1>8 DEF ReplyLabel, Quiet, Ahead, Same
<1>10. Replying(c)'
  BY <1>5, <1>7, <1>8, <1>9 DEF Replying
<1> QED
  BY <1>4, <1>10

LEMMA StampAgain ==
  ASSUME NEW label \in Label
  PROVE  [label EXCEPT !.srcPeer = label.srcPeer, !.messageID = label.messageID] = label
  BY DEF Label

LEMMA ServerWrites ==
  ASSUME PairInv, NEW c \in Clients, WriteLabel(Server[c])
  PROVE  Replying(c) /\ Replying(c)'
<1> DEFINE s == Server[c]
<1>1. c \in Peers /\ s \in Peers \ {c} /\ TypeOK
  BY ServerType DEF PairInv, PeerInv
<1>2. Same(c)
  BY <1>1, OnlyActor
<1>3. pc[s] = "writing" /\ pc'[s] = "sending" /\ messageID'[s] = NextID(messageID[s])
      /\ labelBuf'[s] = Stamped(s) /\ UNCHANGED <<loaded, pipe, out, body>>
  BY <1>1 DEF WriteLabel, calling, TypeOK
<1>4. Replying(c)
  BY <1>3, ClientFacts DEF Phase, AtClient, Requested, Replied
<1>5. /\ pc[c] = "waiting" /\ ~loaded[c] /\ loaded[s] /\ body[s] /\ Quiet(c) /\ Ahead(c)
      /\ out[s] = <<ReplyLabel(c)>>
  BY <1>3, <1>4 DEF Replying
<1>6. Stamped(s) = ReplyLabel(c)
  <2>1. ReplyLabel(c) \in Label /\ ReplyLabel(c).srcPeer = s
        /\ ReplyLabel(c).messageID = NextID(messageID[s])
    BY <1>5, ReplyLabelFields DEF Ahead
  <2>2. Stamped(s) = [ReplyLabel(c) EXCEPT !.srcPeer = s, !.messageID = NextID(messageID[s])]
    BY <1>5 DEF Stamped
  <2> QED
    BY <2>1, <2>2, StampAgain
<1>7. ReplyLabel(c)' = ReplyLabel(c) /\ Level(c)' /\ Quiet(c)' /\ pc'[c] = "waiting" /\ ~loaded'[c]
  BY <1>2, <1>3, <1>5 DEF ReplyLabel, Level, Ahead, Quiet, Same
<1>8. Replying(c)'
  BY <1>3, <1>5, <1>6, <1>7 DEF Replying
<1> QED
  BY <1>4, <1>8

LEMMA ServerSends ==
  ASSUME PairInv, NEW c \in Clients, SendPackage(Server[c])
  PROVE  Replying(c) /\ Replied(c)'
<1> DEFINE s == Server[c]
<1>1. c \in Peers /\ s \in Peers \ {c} /\ s \notin Clients /\ TypeOK
  BY ServerType DEF PairInv, PeerInv
<1>2. Same(c)
  BY <1>1, OnlyActor
<1>3. pc[s] = "sending"
  BY DEF SendPackage
<1>4. Replying(c)
  BY <1>3, ClientFacts DEF Phase, AtClient, Requested, Replied
<1>5. /\ pc[c] = "waiting" /\ ~loaded[c] /\ loaded[s] /\ body[s] /\ Quiet(c) /\ Level(c)
      /\ out[s] = <<ReplyLabel(c)>> /\ labelBuf[s] = ReplyLabel(c)
  BY <1>3, <1>4 DEF Replying
<1>6. Dest(s) = c
  BY <1>5, ReplyLabelFields DEF Dest
<1>7. op[s] # "request" /\ Len(out[s]) = 1
  BY <1>1, <1>5, ServerFacts
<1>8. pc'[s] = "idle" /\ UNCHANGED <<labelBuf, messageID>>
  <2>1. EndCall(s)
    BY <1>7 DEF SendPackage, PackageTaken
  <2> QED
    BY <1>1, <2>1 DEF SendPackage, EndCall, TypeOK
<1>9. pipe' = [pipe EXCEPT ![s][c] =
                 Append(@, [shared |-> loaded[s], body |-> body[s], sent |-> labelBuf[s]])]
  BY <1>6 DEF SendPackage
<1>10. pipe'[s][c] = Append(pipe[s][c], [shared |-> loaded[s], body |-> body[s], sent |-> labelBuf[s]])
       /\ pipe'[c][s] = pipe[c][s]
  BY <1>1, <1>9 DEF TypeOK
<1>11. loaded[s] = TRUE /\ body[s] = TRUE
  BY <1>1, <1>5 DEF TypeOK
<1>12. pipe'[s][c] = <<FullPackage(labelBuf[s])>> /\ pipe'[c][s] = <<>>
  BY <1>5, <1>10, <1>11 DEF Quiet, FullPackage
<1>13. ReplyLabel(c)' = ReplyLabel(c) /\ Level(c)' /\ pc'[c] = "waiting"
  BY <1>2, <1>5, <1>8 DEF ReplyLabel, Level, Same
<1>14. Replied(c)'
  BY <1>5, <1>8, <1>12, <1>13 DEF Replied, FullPackage
<1> QED
  BY <1>4, <1>14

-----------------------------------------------------------------------------
(* Every step                                                              *)

LEMMA Moves ==
  ASSUME PairInv, NEW p \in Peers, Act(p)
  PROVE  \E q \in Peers :
           /\ Partners(p, q)
           /\ \/ Request(p) \/ WriteLabel(p) \/ AcceptReply(p) \/ HandleReply(p)
              \/ Receive(p, q) \/ (SendPackage(p) /\ Dest(p) = q)
<1> DEFINE Step(q) == \/ Request(p) \/ WriteLabel(p) \/ AcceptReply(p) \/ HandleReply(p)
                      \/ Receive(p, q) \/ (SendPackage(p) /\ Dest(p) = q)
<1>1. CASE p \in Clients
  <2>1. Server[p] \in Peers /\ Partners(p, Server[p])
    BY <1>1, ServerType DEF Partners
  <2>2. Step(Server[p])
    BY <1>1, ClientSteps
  <2> QED
    BY <2>1, <2>2
<1>2. CASE p \notin Clients
  <2>1. PICK c \in Clients :
          /\ p = Server[c]
          /\ \/ Receive(p, c) \/ HandleReply(p) \/ WriteLabel(p)
             \/ SendPackage(p) /\ Dest(p) = c
    BY <1>2, ServerSteps
  <2>2. c \in Peers /\ Partners(p, c)
    BY <2>1, ServerType DEF Partners
  <2>3. Step(c)
    BY <2>1
  <2> QED
    BY <2>2, <2>3
<1> QED
  BY <1>1, <1>2

LEMMA PipesAndPorts ==
  ASSUME PairInv, NEW p \in Peers, Act(p)
  PROVE  /\ open' = open
         /\ \A t, r \in Peers : ~Partners(t, r) => pipe'[t][r] = <<>>
<1>0. TypeOK
  BY DEF PairInv, PeerInv
<1>1. PICK q \in Peers :
        /\ Partners(p, q)
        /\ \/ Request(p) \/ WriteLabel(p) \/ AcceptReply(p) \/ HandleReply(p)
           \/ Receive(p, q) \/ (SendPackage(p) /\ Dest(p) = q)
  BY Moves
<1>2. open' = open
  BY <1>1 DEF Request, WriteLabel, AcceptReply, HandleReply, Receive, SendPackage, Copied, CopiedTo
<1>3. ASSUME NEW t \in Peers, NEW r \in Peers, ~Partners(t, r) PROVE pipe'[t][r] = pipe[t][r]
  <2>1. CASE Request(p) \/ WriteLabel(p) \/ AcceptReply(p) \/ HandleReply(p)
    BY <2>1 DEF Request, WriteLabel, AcceptReply, HandleReply, Copied, CopiedTo
  <2>2. CASE Receive(p, q)
    <3>1. <<t, r>> # <<q, p>>
      BY <1>1, <1>3 DEF Partners
    <3> QED
      BY <1>0, <2>2, <3>1 DEF Receive, TakePackage, TypeOK
  <2>3. CASE SendPackage(p) /\ Dest(p) = q
    <3>1. <<t, r>> # <<p, q>>
      BY <1>1, <1>3
    <3> QED
      BY <1>0, <2>3, <3>1 DEF SendPackage, TypeOK
  <2> QED
    BY <1>1, <2>1, <2>2, <2>3
<1> QED
  BY <1>2, <1>3, PipeFacts

LEMMA ClientCall ==
  ASSUME PairInv, NEW c \in Clients, Act(c)
  PROVE  op'[c] \in {"none", "request"} /\ (out'[c] # <<>> => out'[c][1] \in App[c].request)
<1>0. TypeOK /\ c \in Peers
  BY ServerType DEF PairInv, PeerInv
<1>1. CASE Request(c)
  <2>1. PICK label \in App[c].request : BeginSend(c, "request", <<label>>)
    BY <1>1 DEF Request
  <2>2. op'[c] = "request" /\ out'[c] = <<label>>
    BY <1>0, <2>1 DEF BeginSend, TypeOK
  <2> QED
    BY <2>2
<1>2. CASE WriteLabel(c)
  BY <1>2, ClientFacts DEF WriteLabel, calling
<1>3. CASE AcceptReply(c)
  BY <1>0, <1>3 DEF AcceptReply, EndCall, TypeOK
<1>4. CASE Receive(c, Server[c])
  BY <1>0, <1>4, ClientFacts DEF Receive
<1>5. CASE SendPackage(c)
  <2>1. op[c] = "request"
    BY <1>5, RequestLabel DEF SendPackage
  <2> QED
    BY <1>5, <2>1, ClientFacts DEF SendPackage, PackageTaken
<1> QED
  BY <1>1, <1>2, <1>3, <1>4, <1>5, ClientSteps

LEMMA ServerCall ==
  ASSUME PairInv, NEW s \in Peers \ Clients, Act(s)
  PROVE  op'[s] \in {"none", "service"} /\ \E c \in Clients : s = Server[c]
<1>0. TypeOK
  BY DEF PairInv, PeerInv
<1>1. PICK c \in Clients :
        /\ s = Server[c]
        /\ Receive(s, c) \/ HandleReply(s) \/ WriteLabel(s) \/ SendPackage(s)
  BY ServerSteps
<1>2. op[s] \in {"none", "service"}
  BY ServerFacts
<1>3. CASE Receive(s, c)
  <2>1. op'[s] = op[s] \/ op'[s] = "service"
    BY <1>0, <1>3 DEF Receive, TypeOK
  <2> QED
    BY <1>1, <1>2, <2>1
<1>4. CASE HandleReply(s)
  BY <1>0, <1>1, <1>4 DEF HandleReply, BeginSend, EndCall, TypeOK
<1>5. CASE WriteLabel(s)
  BY <1>1, <1>2, <1>5 DEF WriteLabel, calling
<1>6. CASE SendPackage(s)
  BY <1>0, <1>1, <1>2, <1>6 DEF SendPackage, PackageTaken, EndCall, TypeOK
<1> QED
  BY <1>1, <1>3, <1>4, <1>5, <1>6

(* How far a step of either of its peers takes a call.                     *)
Advances(c) ==
  \/ AtClient(c) /\ pc[c] = "idle" /\ AtClient(c)' /\ pc'[c] = "writing"
  \/ AtClient(c) /\ pc[c] = "writing" /\ AtClient(c)' /\ pc'[c] = "sending"
  \/ AtClient(c) /\ pc[c] = "sending" /\ Requested(c)'
  \/ Requested(c) /\ (Requested(c)' \/ Replying(c)')
  \/ Replying(c) /\ (Replying(c)' \/ Replied(c)')
  \/ Replied(c) /\ (Replied(c)' \/ (AtClient(c)' /\ pc'[c] = "idle"))

LEMMA PairAdvances ==
  ASSUME PairInv, NEW c \in Clients, Act(c) \/ Act(Server[c])
  PROVE  Advances(c)
<1>1. CASE Act(c)
  <2>1. CASE Request(c)
    BY <2>1, RequestStep DEF Advances
  <2>2. CASE WriteLabel(c)
    BY <2>2, ClientWrites DEF Advances
  <2>3. CASE SendPackage(c)
    BY <2>3, ClientSends DEF Advances
  <2>4. CASE Receive(c, Server[c])
    BY <2>4, ClientReceives DEF Advances
  <2>5. CASE AcceptReply(c)
    BY <2>5, AcceptStep DEF Advances
  <2> QED
    BY <1>1, <2>1, <2>2, <2>3, <2>4, <2>5, ClientSteps
<1>2. CASE Act(Server[c])
  <2>1. Server[c] \in Peers \ Clients
    BY ServerType
  <2>2. \/ Receive(Server[c], c) \/ HandleReply(Server[c]) \/ WriteLabel(Server[c])
        \/ SendPackage(Server[c])
    BY <1>2, <2>1, ServerSteps
  <2> QED
    BY <2>2, ServerReceives, ServerReplies, ServerWrites, ServerSends DEF Advances
<1> QED
  BY <1>1, <1>2

LEMMA OthersAtRest ==
  ASSUME PairInv, NEW p \in Peers, Act(p), NEW c \in Clients, p # c, p # Server[c]
  PROVE  /\ Same(c)
         /\ AtClient(c)' <=> AtClient(c)
         /\ Requested(c)' <=> Requested(c)
         /\ Replying(c)' <=> Replying(c)
         /\ Replied(c)' <=> Replied(c)
<1>1. c \in Peers \ {p} /\ Server[c] \in Peers \ {p}
  BY ServerType
<1>2. \A r \in Peers \ {p} : Same(r) /\ \A t \in Peers \ {p} : pipe'[t][r] = pipe[t][r]
  BY Moves, OnlyActor
<1>3. /\ Same(c) /\ Same(Server[c])
      /\ pipe'[c][Server[c]] = pipe[c][Server[c]] /\ pipe'[Server[c]][c] = pipe[Server[c]][c]
  BY <1>1, <1>2
<1> QED
  BY <1>3, PairAtRest

LEMMA LockstepStep ==
  ASSUME PairInv, NEW p \in Peers, Act(p)
  PROVE  LockstepInv'
<1>1. /\ \A t, r \in Peers : ~Partners(t, r) => pipe'[t][r] = <<>>
      /\ \A r \in Peers : open'[r]
  BY PipesAndPorts, PipeFacts
<1>2. \A r \in Peers \ {p} : Same(r)
  BY Moves, OnlyActor
<1>3. ASSUME NEW c \in Clients
      PROVE  /\ op'[c] \in {"none", "request"}
             /\ out'[c] # <<>> => out'[c][1] \in App[c].request
  <2>1. CASE p = c
    BY <2>1, ClientCall
  <2>2. CASE p # c
    BY <1>2, <2>2, ServerType, ClientFacts DEF Same
  <2> QED
    BY <2>1, <2>2
<1>4. ASSUME NEW c \in Clients
      PROVE  AtClient(c)' \/ Requested(c)' \/ Replying(c)' \/ Replied(c)'
  <2>1. CASE p = c \/ p = Server[c]
    BY <2>1, PairAdvances DEF Advances
  <2>2. CASE p # c /\ p # Server[c]
    BY <2>2, OthersAtRest, ClientFacts DEF Phase
  <2> QED
    BY <2>1, <2>2
<1>5. ASSUME NEW s \in Peers \ Clients
      PROVE  op'[s] \in {"none", "service"} /\ (pc'[s] # "idle" => \E c \in Clients : s = Server[c])
  <2>1. CASE p = s
    BY <2>1, ServerCall
  <2>2. CASE p # s
    BY <1>2, <2>2, ServerFacts DEF Same
  <2> QED
    BY <2>1, <2>2
<1> QED
  BY <1>1, <1>3, <1>4, <1>5 DEF LockstepInv, Partners

LEMMA LockstepInit == Init => LockstepInv
<1> SUFFICES ASSUME Init PROVE LockstepInv
  OBVIOUS
<1>1. \A p \in Peers : /\ open[p] /\ op[p] = "none" /\ pc[p] = "idle" /\ out[p] = <<>>
                      /\ loaded[p] /\ messageID[p] = 0
                      /\ \A q \in Peers : pipe[p][q] = <<>>
  BY DEF Init
<1>2. ASSUME NEW c \in Clients PROVE AtClient(c)
  BY <1>1, ServerType DEF AtClient, Quiet, Level
<1> QED
  BY <1>1, <1>2, ServerType DEF LockstepInv

LEMMA PairInvariant == Spec => []PairInv
<1>1. Init => PairInv
  BY InitInv, LockstepInit DEF PairInv
<1>2. PairInv /\ [Next]_vars => PairInv'
  <2> SUFFICES ASSUME PairInv, [Next]_vars PROVE PairInv'
    OBVIOUS
  <2>1. PeerInv'
    BY NextInv DEF PairInv
  <2>2. CASE UNCHANGED vars
    <3>1. \A r : Same(r)
      BY <2>2 DEF vars, calling, Same
    <3>2. UNCHANGED <<pipe, open, op, out, pc>>
      BY <2>2 DEF vars, calling
    <3>3. ASSUME NEW c \in Clients PROVE Phase(c)'
      BY <3>1, <3>2, PairAtRest, ClientFacts DEF Phase
    <3>4. LockstepInv'
      BY <3>2, <3>3, ClientFacts, ServerFacts, PipeFacts DEF LockstepInv, Phase, Partners
    <3> QED
      BY <2>1, <3>4 DEF PairInv
  <2>3. CASE Next
    BY <2>1, <2>3, LockstepStep DEF Next, Act, PairInv
  <2> QED
    BY <2>2, <2>3
<1> QED
  BY <1>1, <1>2, PTL DEF Spec

-----------------------------------------------------------------------------
(* What the invariant gives                                                *)

(* Between two peers that only request and reply, a call is always in one  *)
(* of four places and the two counters advance in lockstep, whatever the   *)
(* other pairs do: what RequestImpl relies on when it compares the counter *)
(* of the server with its own (Peer.cpp:131).                              *)
THEOREM Lockstep == Spec => []LockstepInv
<1>1. PairInv => LockstepInv
  BY DEF PairInv
<1> QED
  BY <1>1, PairInvariant, PTL

(* A package on its way holds the label that its sender's buffer holds.    *)
LEMMA InFlight ==
  ASSUME PairInv, NEW p \in Peers, NEW q \in Peers, pipe[p][q] # <<>>
  PROVE  pipe[p][q] = <<FullPackage(labelBuf[p])>> /\ pc[p] \notin {"writing", "copying"}
<1>1. Partners(p, q)
  BY PipeFacts
<1>2. CASE p \in Clients /\ q = Server[p]
  <2>1. Requested(p)
    BY <1>2, ClientFacts DEF Phase, AtClient, Replying, Replied, Quiet
  <2> QED
    BY <1>2, <2>1 DEF Requested
<1>3. CASE q \in Clients /\ p = Server[q]
  <2>1. Replied(q)
    BY <1>3, ClientFacts DEF Phase, AtClient, Replying, Requested, Quiet
  <2> QED
    BY <1>3, <2>1 DEF Replied
<1> QED
  BY <1>1, <1>2, <1>3 DEF Partners

(* A peer that receives is a server with a request or a client with the    *)
(* reply to its own.                                                       *)
LEMMA Copying ==
  ASSUME PairInv, NEW p \in Peers, pc[p] = "copying"
  PROVE  \/ p \in Clients /\ Replied(p)
         \/ \E c \in Clients : p = Server[c] /\ Requested(c)
<1>1. CASE p \in Clients
  BY <1>1, ClientFacts DEF Phase, AtClient, Requested, Replying
<1>2. CASE p \notin Clients
  <2>1. PICK c \in Clients : p = Server[c]
    BY <1>2, ServerFacts
  <2>2. Requested(c)
    BY <2>1, ClientFacts DEF Phase, AtClient, Replying, Replied
  <2> QED
    BY <2>1, <2>2
<1> QED
  BY <1>1, <1>2

(* A label is never written while a frame points at it, so the zero-copy   *)
(* frames of SendMessages need no lock in this use (Peer.cpp:216-224).     *)
THEOREM NeverOverwritten == Spec => []NoOverwriteInFlight
<1>1. PairInv => NoOverwriteInFlight
  <2> SUFFICES ASSUME PairInv, NEW p \in Peers, NEW q \in Peers, NEW i \in DOMAIN pipe[p][q]
               PROVE  /\ pc[p] \notin {"writing", "copying"}
                      /\ labelBuf[p] = pipe[p][q][i].sent
    BY DEF NoOverwriteInFlight
  <2>1. pipe[p][q] # <<>>
    OBVIOUS
  <2>2. pipe[p][q] = <<FullPackage(labelBuf[p])>> /\ pc[p] \notin {"writing", "copying"}
    BY <2>1, InFlight
  <2>3. pipe[p][q][i] = FullPackage(labelBuf[p])
    BY <2>2
  <2> QED
    BY <2>2, <2>3 DEF FullPackage
<1> QED
  BY <1>1, PairInvariant, PTL

(* Every label that is received is there and is the one that was sent.     *)
THEOREM LabelsArrive == Spec => []LabelsIntact
<1>1. PairInv => LabelsIntact
  <2> SUFFICES ASSUME PairInv, NEW p \in Peers, pc[p] = "copying"
               PROVE  in[p].shared /\ in[p].seen = in[p].sent
    BY DEF LabelsIntact
  <2>1. CASE p \in Clients /\ Replied(p)
    BY <2>1 DEF Replied
  <2>2. CASE \E c \in Clients : p = Server[c] /\ Requested(c)
    BY <2>2 DEF Requested
  <2> QED
    BY <2>1, <2>2, Copying
<1> QED
  BY <1>1, PairInvariant, PTL

(* A package that a request receives carries the label of its reply.       *)
LEMMA AnswerIsReply ==
  ASSUME PairInv, NEW p \in Peers, Answering(p)
  PROVE  p \in Clients /\ pc[p] # "idle" /\ in[p].seen = ReplyLabel(p) /\ in[p].sent = ReplyLabel(p)
<1>1. pc[p] = "copying" /\ op[p] = "request"
  BY DEF Answering
<1>2. p \in Clients
  BY <1>1, ServerFacts
<1>3. Replied(p)
  BY <1>1, <1>2, ServerType, Copying
<1> QED
  BY <1>1, <1>2, <1>3 DEF Replied

(* The reply to a request is never taken for another package, and ends it  *)
(* (Peer.hpp:49, Peer.cpp:131-143).                                        *)
THEOREM ReplyEnds == Spec => []ReplyNotDropped
<1>1. PairInv => ReplyNotDropped
  BY AnswerIsReply, ReplyLabelFields DEF ReplyNotDropped
<1> QED
  BY <1>1, PairInvariant, PTL

(* What ends a request is the reply of the interface that was asked.       *)
THEOREM ReplyIsRequested == Spec => []OnlyReplyAccepted
<1>1. PairInv => OnlyReplyAccepted
  <2> SUFFICES ASSUME PairInv, NEW p \in Peers, Answering(p) PROVE FromRequested(p)
    BY DEF OnlyReplyAccepted
  <2>1. p \in Clients /\ pc[p] # "idle" /\ in[p].sent = ReplyLabel(p)
    BY AnswerIsReply
  <2> QED
    BY <2>1, ReplyLabelFields, RequestLabel DEF FromRequested
<1> QED
  BY <1>1, PairInvariant, PTL

-----------------------------------------------------------------------------
(* Requests are remote calls                                               *)

LEMMA ProgressAt ==
  ASSUME NEW c \in Clients
  PROVE  /\ AtClient(c) => progress[c] = IF pc[c] = "idle" THEN "none" ELSE "called"
         /\ Requested(c) => progress[c] = "called"
         /\ Replying(c) \/ Replied(c) => progress[c] = "executed"
<1>1. progress[c] = IF pc[c] = "idle" THEN "none"
                    ELSE IF Replying(c) \/ Replied(c) THEN "executed" ELSE "called"
  BY DEF progress
<1>2. AtClient(c) => ~Replying(c) /\ ~Replied(c)
  BY DEF AtClient, Replying, Replied
<1>3. Requested(c) => pc[c] = "waiting" /\ ~Replying(c) /\ ~Replied(c)
  BY DEF Requested, Replying, Replied, FullPackage
<1>4. Replying(c) \/ Replied(c) => pc[c] # "idle"
  BY DEF Replying, Replied
<1> QED
  BY <1>1, <1>2, <1>3, <1>4

(* The same of the next state.                                             *)
LEMMA ProgressNext ==
  ASSUME NEW c \in Clients
  PROVE  /\ AtClient(c)' => progress'[c] = IF pc'[c] = "idle" THEN "none" ELSE "called"
         /\ Requested(c)' => progress'[c] = "called"
         /\ Replying(c)' \/ Replied(c)' => progress'[c] = "executed"
<1>1. progress'[c] = IF pc'[c] = "idle" THEN "none"
                     ELSE IF Replying(c)' \/ Replied(c)' THEN "executed" ELSE "called"
  BY DEF progress
<1>2. AtClient(c)' => ~Replying(c)' /\ ~Replied(c)'
  BY DEF AtClient, Replying, Replied
<1>3. Requested(c)' => pc'[c] = "waiting" /\ ~Replying(c)' /\ ~Replied(c)'
  BY DEF Requested, Replying, Replied, FullPackage
<1>4. Replying(c)' \/ Replied(c)' => pc'[c] # "idle"
  BY DEF Replying, Replied
<1> QED
  BY <1>1, <1>2, <1>3, <1>4

LEMMA CallAdvances ==
  ASSUME NEW c \in Clients, Advances(c)
  PROVE  \/ progress'[c] = progress[c]
         \/ progress[c] = "none" /\ progress'[c] = "called"
         \/ progress[c] = "called" /\ progress'[c] = "executed"
         \/ progress[c] = "executed" /\ progress'[c] = "none"
<1>1. CASE AtClient(c) /\ pc[c] = "idle" /\ AtClient(c)' /\ pc'[c] = "writing"
  BY <1>1, ProgressAt, ProgressNext
<1>2. CASE AtClient(c) /\ pc[c] = "writing" /\ AtClient(c)' /\ pc'[c] = "sending"
  BY <1>2, ProgressAt, ProgressNext
<1>3. CASE AtClient(c) /\ pc[c] = "sending" /\ Requested(c)'
  BY <1>3, ProgressAt, ProgressNext
<1>4. CASE Requested(c) /\ (Requested(c)' \/ Replying(c)')
  BY <1>4, ProgressAt, ProgressNext
<1>5. CASE Replying(c) /\ (Replying(c)' \/ Replied(c)')
  BY <1>5, ProgressAt, ProgressNext
<1>6. CASE Replied(c) /\ (Replied(c)' \/ (AtClient(c)' /\ pc'[c] = "idle"))
  BY <1>6, ProgressAt, ProgressNext
<1> QED
  BY <1>1, <1>2, <1>3, <1>4, <1>5, <1>6 DEF Advances

LEMMA CallStep ==
  ASSUME PairInv, NEW p \in Peers, Act(p)
  PROVE  [Remote!Next]_progress
<1>1. PICK c \in Clients : p = c \/ p = Server[c]
  BY Moves DEF Partners
<1>2. ASSUME NEW d \in Clients, d # c PROVE progress'[d] = progress[d]
  <2>1. p # d /\ p # Server[d]
    BY <1>1, <1>2, ServerType
  <2>2. Same(d) /\ Phase(d)
    BY <2>1, OthersAtRest, ClientFacts
  <2>3. CASE AtClient(d)
    BY <2>1, <2>2, <2>3, OthersAtRest, ProgressAt, ProgressNext DEF Same
  <2>4. CASE Requested(d)
    BY <2>1, <2>4, OthersAtRest, ProgressAt, ProgressNext
  <2>5. CASE Replying(d) \/ Replied(d)
    BY <2>1, <2>5, OthersAtRest, ProgressAt, ProgressNext
  <2> QED
    BY <2>2, <2>3, <2>4, <2>5 DEF Phase
<1>3. Advances(c)
  BY <1>1, PairAdvances
<1>4. progress = [d \in Clients |-> progress[d]] /\ progress' = [d \in Clients |-> progress'[d]]
  BY DEF progress
<1>5. progress' = [progress EXCEPT ![c] = progress'[c]]
  BY <1>2, <1>4
<1>6. CASE progress'[c] = progress[c]
  BY <1>4, <1>5, <1>6
<1>7. CASE progress[c] = "none" /\ progress'[c] = "called"
  BY <1>5, <1>7 DEF Remote!Next, Remote!Call, Remote!Step
<1>8. CASE progress[c] = "called" /\ progress'[c] = "executed"
  BY <1>5, <1>8 DEF Remote!Next, Remote!Execute, Remote!Step
<1>9. CASE progress[c] = "executed" /\ progress'[c] = "none"
  BY <1>5, <1>9 DEF Remote!Next, Remote!Return, Remote!Step
<1> QED
  BY <1>3, <1>6, <1>7, <1>8, <1>9, CallAdvances

LEMMA CallAtRest == UNCHANGED vars => UNCHANGED progress
<1> SUFFICES ASSUME UNCHANGED vars PROVE UNCHANGED progress
  OBVIOUS
<1>1. ASSUME NEW c \in Clients
      PROVE  /\ Replying(c)' <=> Replying(c)
             /\ Replied(c)' <=> Replied(c)
             /\ pc'[c] = pc[c]
  <2>1. Same(c) /\ Same(Server[c]) /\ UNCHANGED <<pipe, pc>>
    BY DEF vars, calling, Same
  <2> QED
    BY <2>1, PairAtRest
<1> QED
  BY <1>1 DEF progress

(* A request is executed exactly once by the server of its client and its  *)
(* reply ends it: requests used so implement remote calls.                 *)
THEOREM Implements == Spec => ExactlyOnce
<1>1. Init => Remote!Init
  <2> SUFFICES ASSUME Init PROVE progress = [c \in Clients |-> "none"]
    BY DEF Remote!Init
  <2>1. \A c \in Clients : pc[c] = "idle"
    BY ServerType DEF Init
  <2> QED
    BY <2>1 DEF progress
<1>2. PairInv /\ [Next]_vars => [Remote!Next]_progress
  BY CallStep, CallAtRest DEF Next, Act
<1> QED
  BY <1>1, <1>2, PairInvariant, PTL DEF Spec, ExactlyOnce, Remote!Spec

=============================================================================
