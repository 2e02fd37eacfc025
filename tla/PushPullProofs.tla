--------------------------- MODULE PushPullProofs ---------------------------
(***************************************************************************)
(* Pushes from one peer to one interface of another arrive whole, in order *)
(* and where they were sent, for any pipe capacity, any width of the       *)
(* counter and any other peers and interfaces: one label buffer at either  *)
(* end is enough.                                                          *)
(***************************************************************************)
EXTENDS PushPull, PeerProofs

USE LabelAssumption, PeerAssumption, PushPullAssumption

(* The inductive invariant.                                                *)
OneWay == PeerInv /\ OneWayInv

(* Labels with one route, however torn, have that route.                   *)
LEMMA TornRoute ==
  ASSUME NEW labels, labels \subseteq Label, \A l \in labels : Routed(l),
         NEW torn \in Torn(labels)
  PROVE  Routed(torn)
<1>1. \A f \in LabelFields : \E k \in labels : torn[f] = k[f]
  BY DEF Torn
<1>2. /\ torn.srcPeer = Producer /\ torn.srcInterface = Outbox
      /\ torn.destPeer = Consumer /\ torn.destInterface = Inbox
  <2>1. \A l \in labels : /\ l.srcPeer = Producer /\ l.srcInterface = Outbox
                          /\ l.destPeer = Consumer /\ l.destInterface = Inbox
    BY DEF Routed, Route
  <2>2. \E k \in labels : torn.srcPeer = k.srcPeer
    BY <1>1 DEF LabelFields
  <2>3. \E k \in labels : torn.srcInterface = k.srcInterface
    BY <1>1 DEF LabelFields
  <2>4. \E k \in labels : torn.destPeer = k.destPeer
    BY <1>1 DEF LabelFields
  <2>5. \E k \in labels : torn.destInterface = k.destInterface
    BY <1>1 DEF LabelFields
  <2> QED
    BY <2>1, <2>2, <2>3, <2>4, <2>5
<1> QED
  BY <1>2 DEF Routed, Route

(* What a push is about to write has the route.                            *)
LEMMA PushedLabel ==
  ASSUME OneWay, pc[Producer] # "idle"
  PROVE  /\ Len(out[Producer]) = 1 /\ out[Producer] # <<>>
         /\ Head(out[Producer]) \in Label /\ Dest(Producer) = Consumer
         /\ Routed([Head(out[Producer]) EXCEPT !.srcPeer = Producer])
         /\ [Head(out[Producer]) EXCEPT !.srcPeer = Producer] \in Label
         /\ Stamped(Producer) \in Label /\ Routed(Stamped(Producer))
         /\ Stamped(Producer).messageID = NextID(messageID[Producer])
<1>1. PICK label \in App[Producer].push : out[Producer] = <<label>>
  BY DEF OneWay, OneWayInv, OneWayUse
<1>2. label \in Label /\ Head(out[Producer]) = label
  BY <1>1 DEF Application
<1>3. Len(out[Producer]) = 1 /\ out[Producer] # <<>>
  BY <1>1
<1>4. Stamped(Producer) \in Label
  BY <1>3, StampedType DEF OneWay, PeerInv
<1>5. [label EXCEPT !.srcPeer = Producer] \in Label
  BY <1>2 DEF Label
<1>6. Routed([label EXCEPT !.srcPeer = Producer])
  BY <1>2 DEF Routed, Route, Label
<1>7. Routed(Stamped(Producer)) /\ Stamped(Producer).messageID = NextID(messageID[Producer])
  BY <1>2 DEF Stamped, Routed, Route, Label
<1> QED
  BY <1>2, <1>3, <1>4, <1>5, <1>6, <1>7 DEF Dest

-----------------------------------------------------------------------------
(* Which steps there are                                                   *)

LEMMA OneWaySteps ==
  ASSUME OneWay, Next
  PROVE  \/ Push(Producer) \/ WriteLabel(Producer) \/ SendPackage(Producer)
         \/ Receive(Consumer, Producer) \/ HandlePull(Consumer)
<1>1. PICK p \in Peers :
        \/ Call(p) \/ Send(p) \/ Handle(p) \/ RequestTimeout(p)
        \/ \E q \in Peers : Receive(p, q)
  BY DEF Next
<1>2. \A r \in Peers : open[r]
  BY DEF OneWay, OneWayInv, OneWayUse
<1>3. CASE p = Producer
  <2>1. op[p] \in {"none", "push"}
    BY <1>3 DEF OneWay, OneWayInv, OneWayUse
  <2>2. pc[p] \in {"idle", "writing", "sending"}
    BY <2>1 DEF OneWay, PeerInv, TypeOK, CallOK
  <2>3. ~Handle(p)
    BY <2>1, <2>2 DEF Handle, ReturnPackage, DropUnknown, HandlePull, HandleReply,
       HandleSubscription, AcceptReply, DropMismatch, Dispatches
  <2>4. ~RequestTimeout(p) /\ \A q \in Peers : ~Receive(p, q)
    BY <1>3, <2>2 DEF RequestTimeout, Receive
  <2>5. Call(p) => Push(p)
    BY <1>3 DEF Call, Request, Publish, ClosePort
  <2>6. pc[p] = "sending" => Dest(p) = Consumer
    BY <1>3, PushedLabel
  <2>7. Send(p) => WriteLabel(p) \/ SendPackage(p)
    BY <1>2, <1>3, <2>6 DEF Send, SendLost, SendThrows
  <2> QED
    BY <1>1, <1>3, <2>3, <2>4, <2>5, <2>7
<1>4. CASE p = Consumer
  <2>1. op[p] \in {"none", "service"} /\ pc[p] \in {"idle", "copying"}
    BY <1>4 DEF OneWay, OneWayInv, OneWayUse
  <2>2. ~Call(p) /\ ~Send(p) /\ ~RequestTimeout(p)
    BY <1>4, <2>1 DEF Call, Push, Request, Publish, ClosePort, Send, WriteLabel, SendPackage,
       SendLost, SendThrows, RequestTimeout
  <2>3. \A q \in Peers : Receive(p, q) => q = Producer
    BY DEF Receive, TakePackage, OneWay, OneWayInv, OneWayUse
  <2>4. Handle(p) => HandlePull(p)
    <3>1. ~ReturnPackage(p) /\ ~AcceptReply(p) /\ ~DropMismatch(p)
      BY <2>1 DEF ReturnPackage, AcceptReply, DropMismatch
    <3>2. pc[p] = "copying" => interface_map_[p][in[p].seen.destInterface] = "pull"
      BY <1>4 DEF OneWay, PeerInv, CallOK, OneWayInv, OneRoute, Routed, Route
    <3> QED
      BY <3>1, <3>2 DEF Handle, DropUnknown, HandleReply, HandleSubscription, Dispatches
  <2> QED
    BY <1>1, <1>4, <2>2, <2>3, <2>4
<1>5. CASE p # Producer /\ p # Consumer
  <2>1. pc[p] = "idle"
    BY <1>5 DEF OneWay, OneWayInv, OneWayUse
  <2>2. ~Call(p) /\ ~Send(p) /\ ~RequestTimeout(p) /\ \A q \in Peers : ~Receive(p, q)
    BY <1>5, <2>1 DEF Call, Push, Request, Publish, ClosePort, Send, WriteLabel, SendPackage,
       SendLost, SendThrows, RequestTimeout, Receive
  <2>3. ~Handle(p)
    <3>1. op[p] = "none"
      BY <2>1 DEF OneWay, PeerInv, CallOK
    <3> QED
      BY <2>1, <3>1 DEF Handle, ReturnPackage, DropUnknown, HandlePull, HandleReply,
         HandleSubscription, AcceptReply, DropMismatch, Dispatches
  <2> QED
    BY <1>1, <2>2, <2>3
<1> QED
  BY <1>3, <1>4, <1>5

-----------------------------------------------------------------------------
(* Each step preserves the invariant.                                      *)

LEMMA TheTypes ==
  ASSUME OneWay
  PROVE  /\ Producer \in Peers /\ Consumer \in Peers /\ Producer # Consumer
         /\ sentOn \in Seq(Package)
         /\ messageID[Producer] \in MessageIDs
         /\ labelBuf \in [Peers -> Label \cup {Uninit}] /\ loaded \in [Peers -> BOOLEAN]
         /\ body \in [Peers -> BOOLEAN] /\ in \in [Peers -> Delivery \cup {None}]
         /\ pipe \in [Peers -> [Peers -> Seq(Package)]] /\ op \in [Peers -> Calls]
         /\ pc \in [Peers -> {"idle", "writing", "sending", "waiting", "copying"}]
         /\ out \in [Peers -> Seq(Label)]
         /\ messageID \in [Peers -> MessageIDs]
  BY DEF OneWay, PeerInv, TypeOK, sentOn

LEMMA PushStep ==
  ASSUME OneWay, Push(Producer)
  PROVE  OneWayInv'
<1>1. PICK label \in App[Producer].push : BeginSend(Producer, "push", <<label>>)
  BY DEF Push
<1>2. /\ pc' = [pc EXCEPT ![Producer] = "writing"] /\ op' = [op EXCEPT ![Producer] = "push"]
      /\ out' = [out EXCEPT ![Producer] = <<label>>] /\ body' = [body EXCEPT ![Producer] = TRUE]
      /\ pc[Producer] = "idle"
      /\ UNCHANGED <<labelBuf, loaded, messageID, pipe, open, in>>
  BY <1>1 DEF BeginSend, Push
<1>3. OneWayUse'
  BY <1>2, TheTypes DEF OneWay, OneWayInv, OneWayUse
<1>4. OneRoute' /\ LabelKept'
  BY <1>2 DEF OneWay, OneWayInv, OneRoute, LabelKept, sentOn
<1>5. Numbered'
  BY <1>2, TheTypes DEF OneWay, OneWayInv, Numbered, sentOn, LastSent
<1> QED
  BY <1>3, <1>4, <1>5 DEF OneWayInv

LEMMA WriteStep ==
  ASSUME OneWay, WriteLabel(Producer)
  PROVE  OneWayInv'
<1>1. /\ pc[Producer] = "writing" /\ pc' = [pc EXCEPT ![Producer] = "sending"]
      /\ labelBuf' = [labelBuf EXCEPT ![Producer] = Stamped(Producer)]
      /\ messageID' = [messageID EXCEPT ![Producer] = NextID(messageID[Producer])]
      /\ UNCHANGED <<loaded, pipe, open, in, op, out, body>>
  BY DEF WriteLabel, calling
<1>2. /\ Stamped(Producer) \in Label /\ Routed(Stamped(Producer))
      /\ Stamped(Producer).messageID = NextID(messageID[Producer])
  BY <1>1, PushedLabel
<1>3. OneWayUse'
  BY <1>1, TheTypes DEF OneWay, OneWayInv, OneWayUse
<1>4. OneRoute'
  BY <1>1, <1>2, TheTypes DEF OneWay, OneWayInv, OneRoute, sentOn
<1>5. LabelKept'
  BY <1>1, <1>2, TheTypes DEF OneWay, OneWayInv, LabelKept, sentOn
<1>6. Numbered'
  BY <1>1, <1>2, TheTypes DEF OneWay, OneWayInv, Numbered, sentOn, LastSent
<1> QED
  BY <1>3, <1>4, <1>5, <1>6 DEF OneWayInv

(* The package of a push, and the end of the call.                         *)
LEMMA SendFacts ==
  ASSUME OneWay, SendPackage(Producer)
  PROVE  \E package \in Package :
           /\ package = [shared |-> loaded[Producer], body |-> TRUE, sent |-> labelBuf[Producer]]
           /\ pipe' = [pipe EXCEPT ![Producer][Consumer] = Append(sentOn, package)]
           /\ sentOn' = Append(sentOn, package)
           /\ loaded' = [loaded EXCEPT ![Producer] = FALSE]
           /\ pc[Producer] = "sending" /\ labelBuf[Producer] \in Label
           /\ EndCall(Producer) /\ UNCHANGED <<labelBuf, messageID, open, in>>
<1> DEFINE package == [shared |-> loaded[Producer], body |-> body[Producer],
                       sent |-> labelBuf[Producer]]
<1>1. pc[Producer] = "sending" /\ Dest(Producer) = Consumer /\ body[Producer]
  BY PushedLabel DEF SendPackage, OneWay, OneWayInv, OneWayUse
<1>2. op[Producer] # "request" /\ Len(out[Producer]) = 1
  BY <1>1, PushedLabel DEF OneWay, OneWayInv, OneWayUse
<1>3. EndCall(Producer) /\ loaded' = [loaded EXCEPT ![Producer] = FALSE]
  BY <1>2 DEF SendPackage, PackageTaken
<1>4. labelBuf[Producer] \in Label
  BY <1>1 DEF OneWay, PeerInv, TypeOK, CallOK
<1>5. package \in Package
  BY <1>4, TheTypes DEF Package
<1>6. pipe' = [pipe EXCEPT ![Producer][Consumer] = Append(sentOn, package)]
  BY <1>1, TheTypes DEF SendPackage, sentOn
<1>7. sentOn' = Append(sentOn, package)
  BY <1>6, TheTypes DEF sentOn
<1>8. UNCHANGED <<labelBuf, messageID, open, in>>
  BY DEF SendPackage
<1>9. package = [shared |-> loaded[Producer], body |-> TRUE, sent |-> labelBuf[Producer]]
  <2>1. body[Producer] = TRUE
    BY <1>1, TheTypes
  <2> QED
    BY <2>1
<1> HIDE DEF package
<1> QED
  BY <1>1, <1>3, <1>4, <1>5, <1>6, <1>7, <1>8, <1>9

LEMMA SendStep ==
  ASSUME OneWay, SendPackage(Producer)
  PROVE  OneWayInv'
<1>1. PICK package \in Package :
           /\ package = [shared |-> loaded[Producer], body |-> TRUE, sent |-> labelBuf[Producer]]
           /\ pipe' = [pipe EXCEPT ![Producer][Consumer] = Append(sentOn, package)]
           /\ sentOn' = Append(sentOn, package)
           /\ loaded' = [loaded EXCEPT ![Producer] = FALSE]
           /\ pc[Producer] = "sending" /\ labelBuf[Producer] \in Label
           /\ EndCall(Producer) /\ UNCHANGED <<labelBuf, messageID, open, in>>
  BY SendFacts
<1>2. package.shared = loaded[Producer] /\ package.body /\ package.sent = labelBuf[Producer]
  BY <1>1
<1>3. /\ pc' = [pc EXCEPT ![Producer] = "idle"] /\ op' = [op EXCEPT ![Producer] = "none"]
      /\ out' = [out EXCEPT ![Producer] = <<>>]
  BY <1>1 DEF EndCall
<1>4. /\ sentOn' # <<>> /\ Len(sentOn) \in Nat /\ Len(sentOn') = Len(sentOn) + 1
      /\ DOMAIN sentOn = 1 .. Len(sentOn) /\ DOMAIN sentOn' = 1 .. Len(sentOn) + 1
      /\ \A i \in 1 .. Len(sentOn) : sentOn'[i] = sentOn[i]
      /\ sentOn'[Len(sentOn) + 1] = package
  BY <1>1, TheTypes, AppendProperties
<1>5. OneWayUse'
  <2>1. \A p, q \in Peers : pipe'[p][q] # <<>> => p = Producer /\ q = Consumer
    BY <1>1, TheTypes DEF OneWay, OneWayInv, OneWayUse
  <2> QED
    BY <1>1, <1>3, <2>1, TheTypes DEF OneWay, OneWayInv, OneWayUse
<1>6. OneRoute'
  <2>1. Routed(package.sent) /\ package.body
    BY <1>1, <1>2 DEF OneWay, OneWayInv, OneRoute
  <2>2. \A i \in DOMAIN sentOn' : Routed(sentOn'[i].sent) /\ sentOn'[i].body
    <3> TAKE i \in DOMAIN sentOn'
    <3>1. CASE i \in 1 .. Len(sentOn)
      BY <1>4, <3>1 DEF OneWay, OneWayInv, OneRoute
    <3>2. CASE i = Len(sentOn) + 1
      BY <1>4, <2>1, <3>2
    <3> QED
      BY <1>4, <3>1, <3>2
  <2> QED
    BY <1>1, <2>2, TheTypes DEF OneWay, OneWayInv, OneRoute
<1>7. LabelKept'
  <2>1. ~loaded'[Producer] /\ labelBuf'[Producer] # Uninit
    BY <1>1, TheTypes
  <2>2. CASE loaded[Producer]
    <3>1. Len(sentOn) = 0
      BY <2>2 DEF OneWay, OneWayInv, LabelKept
    <3>2. Head(sentOn') = package
      <4>1. Head(sentOn') = sentOn'[1]
        BY <1>1, <1>4, TheTypes, AppendProperties, HeadTailProperties
      <4> QED
        BY <1>4, <3>1, <4>1
    <3> QED
      BY <1>2, <1>4, <2>1, <2>2, <3>2 DEF LabelKept
  <2>3. CASE ~loaded[Producer]
    <3>1. sentOn # <<>> => Head(sentOn') = Head(sentOn)
      <4> SUFFICES ASSUME sentOn # <<>> PROVE Head(sentOn') = Head(sentOn)
        OBVIOUS
      <4>1. Head(sentOn') = sentOn'[1]
        BY <1>1, <1>4, TheTypes, AppendProperties, HeadTailProperties
      <4>2. Head(sentOn) = sentOn[1] /\ 1 \in 1 .. Len(sentOn)
        BY TheTypes, HeadTailProperties
      <4> QED
        BY <1>4, <4>1, <4>2
    <3> QED
      BY <1>1, <1>4, <2>1, <2>3, <3>1 DEF OneWay, OneWayInv, LabelKept
  <2> QED
    BY <2>2, <2>3
<1>8. Numbered'
  <2> DEFINE n == Len(sentOn)
  <2>1. package.sent.messageID = messageID[Producer]
    BY <1>1, <1>2 DEF OneWay, OneWayInv, Numbered
  <2>2. pc'[Producer] = "idle" /\ messageID' = messageID /\ in' = in
    BY <1>1, <1>3, TheTypes
  <2>3. sentOn # <<>> => package.sent.messageID = NextID(sentOn[n].sent.messageID)
    BY <1>1, <2>1 DEF OneWay, OneWayInv, Numbered, LastSent
  <2>4. ASSUME NEW i \in DOMAIN sentOn', i + 1 \in DOMAIN sentOn'
        PROVE  sentOn'[i + 1].sent.messageID = NextID(sentOn'[i].sent.messageID)
    <3>1. CASE i = n
      <4>1. n \in 1 .. n /\ sentOn # <<>>
        BY <1>4, <2>4, <3>1
      <4> QED
        BY <1>4, <2>3, <3>1, <4>1
    <3>2. CASE i # n
      <4>1. i \in 1 .. n /\ i + 1 \in 1 .. n
        BY <1>4, <2>4, <3>2
      <4>2. sentOn[i + 1].sent.messageID = NextID(sentOn[i].sent.messageID)
        BY <1>4, <4>1 DEF OneWay, OneWayInv, Numbered
      <4> QED
        BY <1>4, <4>1, <4>2
    <3> QED
      BY <3>1, <3>2
  <2>5. LastSent(Producer, sentOn[Len(sentOn)].sent.messageID)'
    <3>1. sentOn'[Len(sentOn')] = package
      BY <1>4
    <3> QED
      BY <2>1, <2>2, <3>1 DEF LastSent
  <2>6. in[Consumer] # None => sentOn'[1].sent.messageID = NextID(in[Consumer].sent.messageID)
    <3> SUFFICES ASSUME in[Consumer] # None
                 PROVE  sentOn'[1].sent.messageID = NextID(in[Consumer].sent.messageID)
      OBVIOUS
    <3>1. CASE sentOn = <<>>
      <4>1. sentOn'[1] = package
        BY <1>4, <3>1
      <4> QED
        BY <1>1, <2>1, <3>1, <4>1 DEF OneWay, OneWayInv, Numbered, LastSent
    <3>2. CASE sentOn # <<>>
      <4>1. 1 \in 1 .. n
        BY <3>2, TheTypes, HeadTailProperties
      <4> QED
        BY <1>4, <3>2, <4>1 DEF OneWay, OneWayInv, Numbered
    <3> QED
      BY <3>1, <3>2
  <2> QED
    BY <1>4, <2>2, <2>4, <2>5, <2>6 DEF Numbered
<1> QED
  BY <1>5, <1>6, <1>7, <1>8 DEF OneWayInv

(* The label the consumer reads has the route: out of the buffer of the    *)
(* producer, or out of its own.                                            *)
LEMMA ReadsRoute ==
  ASSUME OneWay, sentOn # <<>>, in[Consumer] = None,
         NEW label \in (IF Head(sentOn).shared THEN BufferReads(Producer) ELSE Memory(Consumer))
  PROVE  Routed(label)
<1>1. ~loaded[Producer] /\ labelBuf[Producer] # Uninit /\ Routed(labelBuf[Producer])
  BY DEF OneWay, OneWayInv, LabelKept, OneRoute
<1>2. CASE Head(sentOn).shared
  <2> DEFINE labels == Memory(Producer) \cup BeingWritten(Producer)
  <2>1. Memory(Producer) = {labelBuf[Producer]} /\ labelBuf[Producer] \in Label
    BY <1>1, TheTypes DEF Memory
  <2>2. pc[Producer] # "copying"
    BY DEF OneWay, OneWayInv, OneWayUse, PeerInv, CallOK
  <2>3. BeingWritten(Producer) \subseteq Label /\ \A l \in BeingWritten(Producer) : Routed(l)
    <3>1. CASE pc[Producer] = "writing"
      BY <3>1, PushedLabel DEF BeingWritten
    <3>2. CASE pc[Producer] # "writing"
      BY <2>2, <3>2 DEF BeingWritten
    <3> QED
      BY <3>1, <3>2
  <2>4. labels \subseteq Label /\ \A l \in labels : Routed(l)
    BY <1>1, <2>1, <2>3
  <2>5. label \in Torn(labels)
    BY <1>2 DEF BufferReads
  <2> HIDE DEF labels
  <2> QED
    BY <2>4, <2>5, TornRoute
<1>3. CASE ~Head(sentOn).shared
  <2>1. labelBuf[Consumer] # Uninit /\ Routed(labelBuf[Consumer])
    BY <1>1, <1>3 DEF OneWay, OneWayInv, LabelKept
  <2> QED
    BY <1>3, <2>1 DEF Memory
<1> QED
  BY <1>2, <1>3

LEMMA ReceiveFacts ==
  ASSUME OneWay, Receive(Consumer, Producer)
  PROVE  \E delivery \in Delivery :
           /\ in' = [in EXCEPT ![Consumer] = delivery]
           /\ delivery.sent = Head(sentOn).sent /\ delivery.body = Head(sentOn).body
           /\ Routed(delivery.seen)
           /\ pc[Consumer] = "idle" /\ in[Consumer] = None /\ sentOn # <<>>
           /\ pc' = [pc EXCEPT ![Consumer] = "copying"]
           /\ op' = [op EXCEPT ![Consumer] = "service"]
           /\ pipe' = [pipe EXCEPT ![Producer][Consumer] = Tail(sentOn)]
           /\ sentOn' = Tail(sentOn)
           /\ UNCHANGED <<labelBuf, loaded, messageID, open, out, body>>
<1> DEFINE package == Head(sentOn)
<1>1. sentOn # <<>> /\ package \in Package
  BY TheTypes DEF Receive, TakePackage, sentOn
<1>2. pc[Consumer] = "idle" /\ in[Consumer] = None
  BY TheTypes DEF Receive, OneWay, OneWayInv, OneWayUse, PeerInv, CallOK
<1>3. PICK label \in (IF package.shared THEN BufferReads(Producer) ELSE Memory(Consumer)) :
        in' = [in EXCEPT ![Consumer] = [shared |-> package.shared, body |-> package.body,
                                        sent |-> package.sent, seen |-> label]]
  BY DEF Receive, TakePackage, sentOn
<1>4. Routed(label)
  BY <1>1, <1>2, <1>3, ReadsRoute
<1>5. label \in Label
  BY TheTypes, BufferReadsType DEF OneWay
<1>6. [shared |-> package.shared, body |-> package.body,
       sent |-> package.sent, seen |-> label] \in Delivery
  BY <1>1, <1>5 DEF Package, Delivery
<1>7. /\ pc' = [pc EXCEPT ![Consumer] = "copying"]
      /\ op' = [op EXCEPT ![Consumer] = "service"]
      /\ UNCHANGED <<labelBuf, loaded, messageID, open, out, body>>
  BY <1>2 DEF Receive, TakePackage
<1>8. pipe' = [pipe EXCEPT ![Producer][Consumer] = Tail(sentOn)]
  BY TheTypes DEF Receive, TakePackage, sentOn
<1>9. sentOn' = Tail(sentOn)
  BY <1>8, TheTypes DEF sentOn
<1> HIDE DEF package
<1>10. package = Head(sentOn)
  BY DEF package
<1> QED
  BY <1>1, <1>2, <1>3, <1>4, <1>6, <1>7, <1>8, <1>9, <1>10

LEMMA ReceiveStep ==
  ASSUME OneWay, Receive(Consumer, Producer)
  PROVE  OneWayInv'
<1>1. PICK delivery \in Delivery :
           /\ in' = [in EXCEPT ![Consumer] = delivery]
           /\ delivery.sent = Head(sentOn).sent /\ delivery.body = Head(sentOn).body
           /\ Routed(delivery.seen)
           /\ pc[Consumer] = "idle" /\ in[Consumer] = None /\ sentOn # <<>>
           /\ pc' = [pc EXCEPT ![Consumer] = "copying"]
           /\ op' = [op EXCEPT ![Consumer] = "service"]
           /\ pipe' = [pipe EXCEPT ![Producer][Consumer] = Tail(sentOn)]
           /\ sentOn' = Tail(sentOn)
           /\ UNCHANGED <<labelBuf, loaded, messageID, open, out, body>>
  BY ReceiveFacts
<1>2. in'[Consumer] = delivery /\ delivery # None
  BY <1>1, TheTypes
<1>3. /\ Head(sentOn) = sentOn[1] /\ Len(sentOn) \in Nat /\ Len(sentOn) >= 1
      /\ DOMAIN sentOn = 1 .. Len(sentOn) /\ DOMAIN sentOn' = 1 .. Len(sentOn) - 1
      /\ Len(sentOn') = Len(sentOn) - 1
      /\ \A i \in 1 .. Len(sentOn) - 1 : sentOn'[i] = sentOn[i + 1]
      /\ sentOn' = <<>> <=> Len(sentOn) = 1
  <2>1. sentOn' \in Seq(Package) /\ Len(sentOn') = Len(sentOn) - 1
    BY <1>1, TheTypes, HeadTailProperties
  <2>2. sentOn' = <<>> <=> Len(sentOn') = 0
    BY <2>1, EmptySeq
  <2> QED
    BY <1>1, <2>1, <2>2, TheTypes, HeadTailProperties
<1>4. OneWayUse'
  <2>1. \A p, q \in Peers : pipe'[p][q] # <<>> => p = Producer /\ q = Consumer
    BY <1>1, TheTypes DEF OneWay, OneWayInv, OneWayUse
  <2> QED
    BY <1>1, <2>1, TheTypes DEF OneWay, OneWayInv, OneWayUse
<1>5. OneRoute'
  <2>1. Routed(delivery.sent) /\ delivery.body
    <3>1. 1 \in DOMAIN sentOn
      BY <1>3
    <3>2. Routed(sentOn[1].sent) /\ sentOn[1].body
      BY <3>1 DEF OneWay, OneWayInv, OneRoute
    <3> QED
      BY <1>1, <1>3, <3>2
  <2>2. \A i \in DOMAIN sentOn' : Routed(sentOn'[i].sent) /\ sentOn'[i].body
    <3> TAKE i \in DOMAIN sentOn'
    <3>1. i + 1 \in DOMAIN sentOn /\ sentOn'[i] = sentOn[i + 1]
      BY <1>3
    <3> QED
      BY <3>1 DEF OneWay, OneWayInv, OneRoute
  <2> QED
    BY <1>1, <1>2, <2>1, <2>2 DEF OneWay, OneWayInv, OneRoute
<1>6. LabelKept'
  BY <1>1, <1>2 DEF OneWay, OneWayInv, LabelKept
<1>7. Numbered'
  <2> DEFINE n == Len(sentOn)
  <2>1. pc'[Producer] = pc[Producer] /\ labelBuf' = labelBuf /\ messageID' = messageID
    BY <1>1, TheTypes
  <2>2. LastSent(Producer, sentOn[n].sent.messageID)
    BY <1>1 DEF OneWay, OneWayInv, Numbered
  <2>3. ASSUME NEW i \in DOMAIN sentOn', i + 1 \in DOMAIN sentOn'
        PROVE  sentOn'[i + 1].sent.messageID = NextID(sentOn'[i].sent.messageID)
    <3>1. i + 1 \in DOMAIN sentOn /\ (i + 1) + 1 \in DOMAIN sentOn
      BY <1>3, <2>3
    <3>2. sentOn[(i + 1) + 1].sent.messageID = NextID(sentOn[i + 1].sent.messageID)
      BY <3>1 DEF OneWay, OneWayInv, Numbered
    <3> QED
      BY <1>3, <2>3, <3>2
  <2>4. sentOn' # <<>> => LastSent(Producer, sentOn[Len(sentOn)].sent.messageID)'
    <3>1. sentOn' # <<>> => sentOn'[Len(sentOn')] = sentOn[n]
      BY <1>3
    <3> QED
      BY <2>1, <2>2, <3>1 DEF LastSent
  <2>5. IF sentOn' = <<>> THEN LastSent(Producer, delivery.sent.messageID)'
        ELSE sentOn'[1].sent.messageID = NextID(delivery.sent.messageID)
    <3>1. CASE sentOn' = <<>>
      <4>1. sentOn[n] = Head(sentOn)
        BY <1>3, <3>1
      <4> QED
        BY <1>1, <2>1, <2>2, <3>1, <4>1 DEF LastSent
    <3>2. CASE sentOn' # <<>>
      <4>1. 1 \in DOMAIN sentOn /\ 1 + 1 \in DOMAIN sentOn /\ sentOn'[1] = sentOn[1 + 1]
        BY <1>3, <3>2
      <4>2. sentOn[1 + 1].sent.messageID = NextID(sentOn[1].sent.messageID)
        BY <4>1 DEF OneWay, OneWayInv, Numbered
      <4> QED
        BY <1>1, <1>3, <3>2, <4>1, <4>2
    <3> QED
      BY <3>1, <3>2
  <2>6. pc'[Producer] = "sending" => labelBuf'[Producer].messageID = messageID'[Producer]
    BY <2>1 DEF OneWay, OneWayInv, Numbered
  <2> QED
    BY <1>2, <2>3, <2>4, <2>5, <2>6 DEF Numbered
<1> QED
  BY <1>4, <1>5, <1>6, <1>7 DEF OneWayInv

LEMMA HandleStep ==
  ASSUME OneWay, HandlePull(Consumer)
  PROVE  OneWayInv'
<1>1. /\ pc[Consumer] = "copying" /\ in[Consumer] \in Delivery
      /\ labelBuf' = [labelBuf EXCEPT ![Consumer] = in[Consumer].seen]
      /\ loaded' = [loaded EXCEPT ![Consumer] = in[Consumer].shared]
      /\ in' = [in EXCEPT ![Consumer] = None]
      /\ UNCHANGED <<messageID, pipe, open>>
  BY TheTypes, CopiedType DEF HandlePull, Copied, CopiedTo, OneWay
<1>2. /\ pc' = [pc EXCEPT ![Consumer] = "idle"] /\ op' = [op EXCEPT ![Consumer] = "none"]
      /\ out' = [out EXCEPT ![Consumer] = <<>>] /\ body' = [body EXCEPT ![Consumer] = FALSE]
  BY DEF HandlePull, EndCall
<1>3. Routed(in[Consumer].seen) /\ in[Consumer] # None /\ in[Consumer].seen # Uninit
  <2>1. in[Consumer].seen \in Label /\ in[Consumer] # None
    BY <1>1 DEF Delivery
  <2> QED
    BY <2>1 DEF OneWay, OneWayInv, OneRoute
<1>4. sentOn' = sentOn /\ in'[Consumer] = None /\ labelBuf'[Producer] = labelBuf[Producer]
      /\ loaded'[Producer] = loaded[Producer] /\ labelBuf'[Consumer] = in[Consumer].seen
      /\ pc'[Producer] = pc[Producer] /\ body'[Producer] = body[Producer]
      /\ out'[Producer] = out[Producer] /\ messageID' = messageID
  BY <1>1, <1>2, TheTypes DEF sentOn
<1>5. OneWayUse'
  BY <1>1, <1>2, <1>4, TheTypes DEF OneWay, OneWayInv, OneWayUse
<1>6. OneRoute'
  BY <1>4 DEF OneWay, OneWayInv, OneRoute
<1>7. LabelKept'
  BY <1>3, <1>4 DEF OneWay, OneWayInv, LabelKept
<1>8. Numbered'
  BY <1>4 DEF OneWay, OneWayInv, Numbered, LastSent
<1> QED
  BY <1>5, <1>6, <1>7, <1>8 DEF OneWayInv

-----------------------------------------------------------------------------
LEMMA OneWayNext ==
  ASSUME OneWay, [Next]_vars
  PROVE  OneWay'
<1>1. PeerInv'
  BY NextInv DEF OneWay
<1>2. CASE UNCHANGED vars
  BY <1>1, <1>2 DEF vars, OneWay, OneWayInv, OneWayUse, OneRoute, LabelKept, Numbered, sentOn,
     LastSent
<1>3. CASE Next
  BY <1>1, <1>3, OneWaySteps, PushStep, WriteStep, SendStep, ReceiveStep, HandleStep DEF OneWay
<1> QED
  BY <1>2, <1>3

LEMMA OneWayInit == Init => OneWay
<1> SUFFICES ASSUME Init PROVE OneWay
  OBVIOUS
<1>1. OneWayUse /\ OneRoute /\ LabelKept /\ Numbered
  BY DEF Init, OneWayUse, OneRoute, LabelKept, Numbered, sentOn
<1> QED
  BY <1>1, InitInv DEF OneWay, OneWayInv

(* One label buffer at either end serves a producer that pushes to one     *)
(* interface: what the buffers and the pipe hold stays as OneWayInv says,  *)
(* whatever is read while it is written.                                   *)
THEOREM BuffersHoldOneRoute == Spec => []OneWayInv
<1>1. Spec => []OneWay
  BY OneWayInit, OneWayNext, PTL DEF Spec
<1>2. OneWay => OneWayInv
  BY DEF OneWay
<1> QED
  BY <1>1, <1>2, PTL

(* A package that is pushed is handled by the interface it was sent to and *)
(* with the sender it came from, though all but the first come without a   *)
(* label and the buffer behind the first may be overwritten as it is read. *)
THEOREM PushKeepsRoute == Spec => []RouteIntact
<1>1. OneWay => RouteIntact
  <2> SUFFICES ASSUME OneWay, NEW p \in Peers, Dispatched(p)
               PROVE  Route(in[p].seen) = Route(in[p].sent)
    BY DEF RouteIntact
  <2>1. pc[p] = "copying" /\ in[p] # None
    BY DEF Dispatched, OneWay, PeerInv, CallOK
  <2>2. p = Consumer
    <3>1. pc[Producer] # "copying"
      BY DEF OneWay, OneWayInv, OneWayUse, PeerInv, CallOK
    <3> QED
      BY <2>1, <3>1 DEF OneWay, OneWayInv, OneWayUse
  <2> QED
    BY <2>1, <2>2 DEF OneWay, OneWayInv, OneRoute, Routed
<1>2. Spec => []OneWay
  BY OneWayInit, OneWayNext, PTL DEF Spec
<1> QED
  BY <1>1, <1>2, PTL

(* What the consumer has not handled yet is numbered one by one up to the  *)
(* last package pushed, also when the counter wraps: none is missing.      *)
THEOREM NoPushSkipped == Spec => []NothingSkipped
<1>1. OneWay => NothingSkipped
  <2> SUFFICES ASSUME OneWay, NEW p \in Peers, NEW q \in Peers
               PROVE  LET unread == Unread(p, q)
                      IN  /\ \A i \in DOMAIN unread : i > 1 =>
                               unread[i].messageID = NextID(unread[i - 1].messageID)
                          /\ pipe[p][q] # <<>> => LastSent(p, unread[Len(unread)].messageID)
    BY DEF NothingSkipped
  <2> DEFINE first == IF in[q] = None THEN <<>> ELSE <<in[q].sent>>
             rest  == [i \in DOMAIN pipe[p][q] |-> pipe[p][q][i].sent]
             both  == first \o rest
  <2>1. both = Unread(p, q)
    BY DEF Unread
  <2>2. pipe[p][q] \in Seq(Package)
    BY TheTypes
  <2>3. first \in Seq(Label) /\ (Len(first) = 0 \/ (Len(first) = 1 /\ first[1] = in[q].sent))
    <3>1. in[q] # None => in[q].sent \in Label
      BY TheTypes DEF Delivery
    <3> QED
      BY <3>1
  <2>4. rest \in Seq(Label) /\ Len(rest) = Len(pipe[p][q])
        /\ \A i \in 1 .. Len(rest) : rest[i] = pipe[p][q][i].sent
    <3>1. \A i \in DOMAIN pipe[p][q] : pipe[p][q][i].sent \in Label
      <4> TAKE i \in DOMAIN pipe[p][q]
      <4>1. pipe[p][q][i] \in Package
        BY <2>2
      <4> QED
        BY <4>1 DEF Package
    <3>2. DOMAIN pipe[p][q] = 1 .. Len(pipe[p][q]) /\ Len(pipe[p][q]) \in Nat
      BY <2>2
    <3>3. rest \in [1 .. Len(pipe[p][q]) -> Label]
      BY <3>1, <3>2
    <3> QED
      BY <3>2, <3>3
  <2>5. Len(first) = 1 <=> in[q] # None
    OBVIOUS
  <2> HIDE DEF first, rest
  <2>6. /\ Len(both) = Len(first) + Len(rest) /\ DOMAIN both = 1 .. Len(both)
        /\ \A i \in 1 .. Len(both) :
             both[i] = IF i <= Len(first) THEN first[i] ELSE rest[i - Len(first)]
    <3>1. first \in Seq(Label) /\ rest \in Seq(Label)
      BY <2>3, <2>4
    <3>2. both \in Seq(Label) /\ Len(both) = Len(first) + Len(rest)
      BY ONLY <3>1, ConcatProperties
    <3>3. \A i \in 1 .. Len(first) + Len(rest) :
             both[i] = IF i <= Len(first) THEN first[i] ELSE rest[i - Len(first)]
      BY ONLY <3>1, ConcatProperties
    <3> HIDE DEF both
    <3> QED
      BY <3>2, <3>3
  <2> HIDE DEF both
  <2>7. Len(rest) \in Nat /\ Len(first) \in Nat
    BY <2>3, <2>4
  <2>8. CASE pipe[p][q] = <<>>
    <3>1. Len(rest) = 0
      BY <2>4, <2>8
    <3>2. DOMAIN both \subseteq {1}
      BY <2>3, <2>6, <3>1
    <3> QED
      BY <2>1, <2>8, <3>2
  <2>9. CASE pipe[p][q] # <<>>
    <3>1. p = Producer /\ q = Consumer /\ sentOn = pipe[p][q]
      BY <2>9 DEF OneWay, OneWayInv, OneWayUse, sentOn
    <3>2. Len(rest) >= 1
      BY <2>2, <2>4, <2>9, EmptySeq
    <3>3. \A i \in 1 .. Len(rest) : i > 1 => rest[i].messageID = NextID(rest[i - 1].messageID)
      <4> TAKE i \in 1 .. Len(rest)
      <4> HAVE i > 1
      <4>1. i - 1 \in DOMAIN sentOn /\ (i - 1) + 1 \in DOMAIN sentOn /\ (i - 1) + 1 = i
            /\ i - 1 \in 1 .. Len(rest)
        BY <2>2, <2>4, <2>7, <3>1
      <4>2. sentOn[(i - 1) + 1].sent.messageID = NextID(sentOn[i - 1].sent.messageID)
        BY <4>1 DEF OneWay, OneWayInv, Numbered
      <4> QED
        BY <2>4, <3>1, <4>1, <4>2
    <3>4. Len(first) = 1 => rest[1].messageID = NextID(first[1].messageID)
      <4> SUFFICES ASSUME Len(first) = 1 PROVE rest[1].messageID = NextID(first[1].messageID)
        OBVIOUS
      <4>1. rest[1] = sentOn[1].sent /\ first[1] = in[Consumer].sent /\ in[Consumer] # None
        BY <2>3, <2>4, <2>5, <2>7, <3>1, <3>2
      <4> QED
        BY <2>9, <3>1, <4>1 DEF OneWay, OneWayInv, Numbered
    <3>5. ASSUME NEW i \in DOMAIN both, i > 1
          PROVE  both[i].messageID = NextID(both[i - 1].messageID)
      <4>1. i \in 1 .. Len(both) /\ i - 1 \in 1 .. Len(both) /\ i \in Nat
        BY <2>6, <2>7, <3>5
      <4>2. CASE Len(first) = 0
        <5>1. both[i] = rest[i] /\ both[i - 1] = rest[i - 1] /\ i \in 1 .. Len(rest)
          BY <2>6, <2>7, <4>1, <4>2
        <5> QED
          BY <3>3, <3>5, <5>1
      <4>3. CASE Len(first) = 1 /\ i = 2
        <5>1. both[i] = rest[1] /\ both[i - 1] = first[1]
          BY <2>6, <4>1, <4>3
        <5> QED
          BY <3>4, <4>3, <5>1
      <4>4. CASE Len(first) = 1 /\ i > 2
        <5>1. /\ both[i] = rest[i - 1] /\ both[i - 1] = rest[(i - 1) - 1]
              /\ i - 1 \in 1 .. Len(rest) /\ i - 1 > 1
          BY <2>6, <2>7, <4>1, <4>4
        <5> QED
          BY <3>3, <5>1
      <4>5. i = 2 \/ i > 2
        BY <3>5, <4>1
      <4> QED
        BY <2>3, <4>2, <4>3, <4>4, <4>5
    <3>6. LastSent(p, both[Len(both)].messageID)
      <4>1. both[Len(both)] = rest[Len(rest)]
        BY <2>3, <2>6, <2>7, <3>2
      <4>2. rest[Len(rest)] = sentOn[Len(sentOn)].sent
        BY <2>4, <2>7, <3>1, <3>2
      <4> QED
        BY <2>9, <3>1, <4>1, <4>2 DEF OneWay, OneWayInv, Numbered
    <3> QED
      BY <2>1, <3>5, <3>6
  <2> QED
    BY <2>8, <2>9
<1>2. Spec => []OneWay
  BY OneWayInit, OneWayNext, PTL DEF Spec
<1> QED
  BY <1>1, <1>2, PTL

-----------------------------------------------------------------------------
(* Pushing refines the mailbox.                                            *)

Messages == {Pushed(id, Inbox, TRUE) : id \in MessageIDs}

(* All packages on their way carry messages of the mailbox.                *)
LEMMA CarriedType ==
  ASSUME OneWay
  PROVE  /\ carried \in Seq(Messages) /\ Len(carried) = Len(sentOn)
         /\ \A i \in 1 .. Len(sentOn) : carried[i] = Carried(sentOn[i])
         /\ carried = <<>> <=> sentOn = <<>>
<1>1. sentOn \in Seq(Package)
  BY TheTypes
<1>2. \A i \in 1 .. Len(sentOn) : Carried(sentOn[i]) \in Messages
  <2> TAKE i \in 1 .. Len(sentOn)
  <2>1. sentOn[i] \in Package
    BY <1>1
  <2>2. sentOn[i].sent.messageID \in MessageIDs
    BY <2>1 DEF Package, Label
  <2>3. sentOn[i].sent.destInterface = Inbox
    BY <1>1 DEF OneWay, OneWayInv, OneRoute, Routed, Route
  <2>4. sentOn[i].body = TRUE
    BY <1>1, <2>1 DEF OneWay, OneWayInv, OneRoute, Package
  <2> QED
    BY <2>2, <2>3, <2>4 DEF Carried, Messages
<1>3. DOMAIN sentOn = 1 .. Len(sentOn) /\ Len(sentOn) \in Nat
  BY <1>1
<1>4. carried \in [1 .. Len(sentOn) -> Messages]
  BY <1>2, <1>3 DEF carried
<1>5. carried \in Seq(Messages) /\ Len(carried) = Len(sentOn)
  BY <1>3, <1>4
<1>6. carried = <<>> <=> sentOn = <<>>
  BY <1>1, <1>5, EmptySeq
<1> QED
  BY <1>3, <1>5, <1>6 DEF carried

(* The message of the call under way is one of the mailbox.                *)
LEMMA PostedIs ==
  ASSUME OneWay
  PROVE  /\ pc[Producer] = "idle" => posted = carried
         /\ pc[Producer] = "writing" =>
              /\ Pushed(NextID(messageID[Producer]), Inbox, TRUE) \in Messages
              /\ posted = Append(carried, Pushed(NextID(messageID[Producer]), Inbox, TRUE))
         /\ pc[Producer] = "sending" =>
              /\ Pushed(messageID[Producer], Inbox, TRUE) \in Messages
              /\ posted = Append(carried, Pushed(messageID[Producer], Inbox, TRUE))
<1>1. carried \in Seq(Messages)
  BY CarriedType
<1>2. messageID[Producer] \in MessageIDs /\ NextID(messageID[Producer]) \in MessageIDs
  BY TheTypes, NextIDType
<1>3. /\ Pushed(messageID[Producer], Inbox, TRUE) \in Messages
      /\ Pushed(NextID(messageID[Producer]), Inbox, TRUE) \in Messages
  BY <1>2 DEF Messages
<1>4. \A m \in Messages : carried \o <<m>> = Append(carried, m)
  BY <1>1, AppendIsConcat
<1>5. carried \o <<>> = carried
  BY <1>1, ConcatEmptySeq
<1>6. CASE pc[Producer] = "idle"
  BY <1>5, <1>6 DEF posted, underWay
<1>7. CASE pc[Producer] = "writing"
  BY <1>3, <1>4, <1>7 DEF posted, underWay
<1>8. CASE pc[Producer] = "sending"
  BY <1>3, <1>4, <1>8 DEF posted, underWay
<1> QED
  BY <1>6, <1>7, <1>8

LEMMA PostStep ==
  ASSUME OneWay, OneWay', Push(Producer)
  PROVE  \E m \in Messages : Box!Post(m)
<1>1. PICK label \in App[Producer].push : BeginSend(Producer, "push", <<label>>)
  BY DEF Push
<1>2. /\ pc[Producer] = "idle" /\ pc'[Producer] = "writing"
      /\ UNCHANGED <<messageID, pipe, in>>
  BY <1>1, TheTypes DEF Push, BeginSend
<1>3. carried' = carried /\ inHand' = inHand
  BY <1>2 DEF carried, sentOn, inHand
<1> DEFINE m == Pushed(NextID(messageID'[Producer]), Inbox, TRUE)
<1>4. (pc[Producer] = "writing" =>
         /\ Pushed(NextID(messageID[Producer]), Inbox, TRUE) \in Messages
         /\ posted = Append(carried, Pushed(NextID(messageID[Producer]), Inbox, TRUE)))'
  BY PostedIs, PTL
<1>5. m \in Messages /\ posted' = Append(carried', m)
  BY <1>2, <1>4 DEF Messages
<1>6. posted = carried
  BY <1>2, PostedIs
<1> HIDE DEF m
<1> QED
  BY <1>3, <1>5, <1>6 DEF Box!Post

LEMMA WriteStutters ==
  ASSUME OneWay, OneWay', WriteLabel(Producer)
  PROVE  UNCHANGED <<posted, inHand>>
<1>1. /\ pc[Producer] = "writing" /\ pc'[Producer] = "sending"
      /\ messageID'[Producer] = NextID(messageID[Producer])
      /\ UNCHANGED <<pipe, in>>
  BY TheTypes DEF WriteLabel
<1>2. UNCHANGED <<carried, inHand>>
  BY <1>1 DEF carried, sentOn, inHand
<1>3. underWay' = underWay
  BY <1>1 DEF underWay
<1> QED
  BY <1>2, <1>3 DEF posted

LEMMA SendStutters ==
  ASSUME OneWay, OneWay', SendPackage(Producer)
  PROVE  UNCHANGED <<posted, inHand>>
<1>1. PICK package \in Package :
           /\ package = [shared |-> loaded[Producer], body |-> TRUE, sent |-> labelBuf[Producer]]
           /\ pipe' = [pipe EXCEPT ![Producer][Consumer] = Append(sentOn, package)]
           /\ sentOn' = Append(sentOn, package)
           /\ loaded' = [loaded EXCEPT ![Producer] = FALSE]
           /\ pc[Producer] = "sending" /\ labelBuf[Producer] \in Label
           /\ EndCall(Producer) /\ UNCHANGED <<labelBuf, messageID, open, in>>
  BY SendFacts
<1> DEFINE m == Pushed(messageID[Producer], Inbox, TRUE)
<1>2. Carried(package) = m
  BY <1>1 DEF Carried, OneWay, OneWayInv, OneRoute, Numbered, Routed, Route
<1>3. pc'[Producer] = "idle" /\ inHand' = inHand
  BY <1>1, TheTypes DEF EndCall, inHand
<1>4. posted = Append(carried, m) /\ m \in Messages
  BY <1>1, PostedIs
<1>5. posted' = carried'
  <2>1. (pc[Producer] = "idle" => posted = carried)'
    BY PostedIs, PTL
  <2> QED
    BY <1>3, <2>1
<1> HIDE DEF m
<1>6. carried' = Append(carried, m)
  <2>1. /\ carried \in Seq(Messages) /\ Len(carried) = Len(sentOn)
        /\ \A i \in 1 .. Len(sentOn) : carried[i] = Carried(sentOn[i])
    BY CarriedType
  <2>2. (/\ carried \in Seq(Messages) /\ Len(carried) = Len(sentOn)
         /\ \A i \in 1 .. Len(sentOn) : carried[i] = Carried(sentOn[i]))'
    BY CarriedType, PTL
  <2>3. /\ carried' \in Seq(Messages) /\ Len(carried') = Len(sentOn')
        /\ \A i \in 1 .. Len(sentOn') : carried'[i] = Carried(sentOn'[i])
    BY <2>2 DEF Carried, Messages
  <2>4. /\ Len(sentOn') = Len(sentOn) + 1 /\ Len(sentOn) \in Nat
        /\ \A i \in 1 .. Len(sentOn) : sentOn'[i] = sentOn[i]
        /\ sentOn'[Len(sentOn) + 1] = package
    BY <1>1, TheTypes, AppendProperties
  <2>5. /\ Append(carried, m) \in Seq(Messages) /\ Len(Append(carried, m)) = Len(carried) + 1
        /\ \A i \in 1 .. Len(carried) : Append(carried, m)[i] = carried[i]
        /\ Append(carried, m)[Len(carried) + 1] = m
    BY <1>4, <2>1, AppendProperties
  <2>6. ASSUME NEW i \in 1 .. Len(carried') PROVE carried'[i] = Append(carried, m)[i]
    <3>1. CASE i \in 1 .. Len(sentOn)
      BY <2>1, <2>3, <2>4, <2>5, <3>1
    <3>2. CASE i = Len(sentOn) + 1
      <4>1. carried'[i] = Carried(sentOn'[Len(sentOn) + 1])
        BY <2>3, <3>2
      <4>2. Append(carried, m)[i] = m
        BY <2>1, <2>5, <3>2
      <4> QED
        BY <1>2, <2>4, <4>1, <4>2
    <3>3. Len(carried') = Len(sentOn) + 1 /\ Len(sentOn) \in Nat
      BY <2>3, <2>4
    <3>4. i \in 1 .. Len(sentOn) \/ i = Len(sentOn) + 1
      BY <3>3
    <3> QED
      BY <3>1, <3>2, <3>4
  <2>7. Len(carried') = Len(Append(carried, m))
    BY <2>1, <2>3, <2>4, <2>5
  <2> QED
    BY <2>3, <2>5, <2>6, <2>7, SeqEqual
<1> QED
  BY <1>3, <1>4, <1>5, <1>6

LEMMA TakeStep ==
  ASSUME OneWay, OneWay', Receive(Consumer, Producer)
  PROVE  Box!Take
<1>1. PICK delivery \in Delivery :
           /\ in' = [in EXCEPT ![Consumer] = delivery]
           /\ delivery.sent = Head(sentOn).sent /\ delivery.body = Head(sentOn).body
           /\ Routed(delivery.seen)
           /\ pc[Consumer] = "idle" /\ in[Consumer] = None /\ sentOn # <<>>
           /\ pc' = [pc EXCEPT ![Consumer] = "copying"]
           /\ op' = [op EXCEPT ![Consumer] = "service"]
           /\ pipe' = [pipe EXCEPT ![Producer][Consumer] = Tail(sentOn)]
           /\ sentOn' = Tail(sentOn)
           /\ UNCHANGED <<labelBuf, loaded, messageID, open, out, body>>
  BY ReceiveFacts
<1>2. /\ carried \in Seq(Messages) /\ Len(carried) = Len(sentOn) /\ carried # <<>>
      /\ \A i \in 1 .. Len(sentOn) : carried[i] = Carried(sentOn[i])
  BY <1>1, CarriedType
<1>3. Head(sentOn) = sentOn[1] /\ 1 \in 1 .. Len(sentOn) /\ Len(sentOn) \in Nat
      /\ Len(sentOn') = Len(sentOn) - 1
      /\ \A i \in 1 .. Len(sentOn) - 1 : sentOn'[i] = sentOn[i + 1]
  BY <1>1, TheTypes, HeadTailProperties
<1>4. inHand = None /\ inHand' = Head(carried)
  <2>1. in'[Consumer] = delivery /\ delivery # None
    BY <1>1, TheTypes
  <2>2. delivery.seen.destInterface = Inbox
    BY <1>1 DEF Routed, Route
  <2>3. Head(sentOn).sent.destInterface = Inbox
    <3>1. 1 \in DOMAIN sentOn
      BY <1>3, TheTypes
    <3>2. Routed(sentOn[1].sent)
      BY <3>1 DEF OneWay, OneWayInv, OneRoute
    <3> QED
      BY <1>3, <3>2 DEF Routed, Route
  <2>4. inHand' = Carried(Head(sentOn))
    BY <1>1, <2>1, <2>2, <2>3 DEF inHand, Carried
  <2>5. Head(carried) = carried[1]
    BY <1>2
  <2> QED
    BY <1>1, <1>2, <1>3, <2>4, <2>5 DEF inHand
<1>5. carried' = Tail(carried)
  <2>1. (/\ carried \in Seq(Messages) /\ Len(carried) = Len(sentOn)
         /\ \A i \in 1 .. Len(sentOn) : carried[i] = Carried(sentOn[i]))'
    BY CarriedType, PTL
  <2>2. /\ carried' \in Seq(Messages) /\ Len(carried') = Len(sentOn')
        /\ \A i \in 1 .. Len(sentOn') : carried'[i] = Carried(sentOn'[i])
    BY <2>1 DEF Carried, Messages
  <2>3. /\ Tail(carried) \in Seq(Messages) /\ Len(Tail(carried)) = Len(carried) - 1
        /\ \A i \in 1 .. Len(Tail(carried)) : Tail(carried)[i] = carried[i + 1]
    BY <1>2, HeadTailProperties
  <2>4. ASSUME NEW i \in 1 .. Len(carried') PROVE carried'[i] = Tail(carried)[i]
    <3>1. i \in 1 .. Len(sentOn) - 1 /\ i + 1 \in 1 .. Len(sentOn)
      BY <1>3, <2>2
    <3> QED
      BY <1>2, <1>3, <2>2, <2>3, <3>1
  <2>5. Len(carried') = Len(Tail(carried))
    BY <1>2, <1>3, <2>2, <2>3
  <2> QED
    BY <2>2, <2>3, <2>4, <2>5, SeqEqual
<1>6. underWay' = underWay
  <2>1. pc'[Producer] = pc[Producer] /\ messageID' = messageID
    BY <1>1, TheTypes
  <2> QED
    BY <2>1 DEF underWay
<1>7. posted # <<>> /\ Head(posted) = Head(carried) /\ posted' = Tail(posted)
  <2>1. pc[Producer] \in {"idle", "writing", "sending"}
    BY DEF OneWay, OneWayInv, OneWayUse, PeerInv, TypeOK, CallOK
  <2>2. CASE underWay = <<>>
    <3>1. posted = carried /\ posted' = carried'
      <4>1. \A s \in Seq(Messages) : s \o <<>> = s
        BY ConcatEmptySeq
      <4>2. Tail(carried) \in Seq(Messages)
        BY <1>2, HeadTailProperties
      <4> QED
        BY <1>2, <1>5, <1>6, <2>2, <4>1, <4>2 DEF posted
    <3> QED
      BY <1>2, <1>5, <3>1
  <2>3. ASSUME NEW m \in Messages, underWay = <<m>>
        PROVE  posted # <<>> /\ Head(posted) = Head(carried) /\ posted' = Tail(posted)
    <3>1. \A s \in Seq(Messages) : s \o <<m>> = Append(s, m)
      BY AppendIsConcat
    <3>2. Tail(carried) \in Seq(Messages)
      BY <1>2, HeadTailProperties
    <3>3. posted = Append(carried, m) /\ posted' = Append(Tail(carried), m)
      BY <1>2, <1>5, <1>6, <2>3, <3>1, <3>2 DEF posted
    <3>4. /\ Head(Append(carried, m)) = Head(carried)
          /\ Tail(Append(carried, m)) = Append(Tail(carried), m)
      BY <1>2, HeadTailAppend
    <3>5. Append(carried, m) # <<>>
      BY <1>2, AppendProperties
    <3> QED
      BY <3>3, <3>4, <3>5
  <2>4. underWay = <<>> \/ \E m \in Messages : underWay = <<m>>
    BY <2>1, PostedIs DEF underWay
  <2> QED
    BY <2>2, <2>3, <2>4
<1> QED
  BY <1>4, <1>7 DEF Box!Take

LEMMA HandledStep ==
  ASSUME OneWay, HandlePull(Consumer)
  PROVE  Box!Handled
<1>1. /\ in[Consumer] \in Delivery /\ in' = [in EXCEPT ![Consumer] = None]
      /\ pc'[Producer] = pc[Producer] /\ UNCHANGED <<messageID, pipe>>
  BY TheTypes, CopiedType DEF HandlePull, EndCall, OneWay
<1>2. inHand' = None
  BY <1>1, TheTypes DEF inHand
<1>3. inHand # None
  <2>1. in[Consumer] # None
    BY <1>1
  <2>2. inHand \in MessageIDs \X InterfaceIDs \X BOOLEAN
    BY <1>1, <2>1 DEF inHand, Pushed, Delivery, Label
  <2> QED
    BY <2>2
<1>4. posted' = posted
  BY <1>1 DEF posted, carried, sentOn, underWay
<1> QED
  BY <1>2, <1>3, <1>4 DEF Box!Handled

(* Pushes are the messages of a mailbox: each is handled once, in the      *)
(* order of the calls, by the interface and with the contents of its call. *)
THEOREM PushesAreMailed == Spec => PushedInOrder
<1>1. Init => Box!Init
  <2> SUFFICES ASSUME Init PROVE Box!Init
    OBVIOUS
  <2>1. OneWay /\ pc[Producer] = "idle" /\ in[Consumer] = None /\ sentOn = <<>>
    BY OneWayInit DEF Init, sentOn
  <2>2. posted = <<>>
    BY <2>1, CarriedType, PostedIs
  <2> QED
    BY <2>1, <2>2 DEF Box!Init, inHand
<1>2. ASSUME OneWay, [Next]_vars PROVE [Box!Next]_<<posted, inHand>>
  <2>1. OneWay'
    BY <1>2, OneWayNext
  <2>2. CASE UNCHANGED vars
    BY <2>2 DEF vars, posted, carried, sentOn, underWay, inHand
  <2>3. CASE Next
    BY <1>2, <2>1, <2>3, OneWaySteps, PostStep, WriteStutters, SendStutters, TakeStep, HandledStep
       DEF Box!Next, Messages
  <2> QED
    BY <1>2, <2>2, <2>3
<1>3. Spec => []OneWay
  BY OneWayInit, OneWayNext, PTL DEF Spec
<1> QED
  BY <1>1, <1>2, <1>3, PTL DEF Spec, PushedInOrder, Box!Spec

=============================================================================
