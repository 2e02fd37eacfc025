------------------------- MODULE TimedRequestProofs -------------------------
(***************************************************************************)
(* Requests end in time, and not before it, for any number of repliers and *)
(* any timeouts; with one replier that answers every request, none ends    *)
(* with the reply to an earlier one.                                       *)
(***************************************************************************)
EXTENDS TimedRequest, PeerProofs

LEMMA SmallModulo == \A n, d \in Nat : n < d => n % d = n
  BY Z3

USE LabelAssumption, PeerAssumption

-----------------------------------------------------------------------------
(* Requests with a timeout are requests: what is proved about peers holds. *)

LEMMA TimedStep ==
  ASSUME TimedAssumption, [TimedNext]_timedVars
  PROVE  [Next]_vars
<1>1. CASE TimedRequest \/ StartWaiting \/ Answered \/ PollAgain \/ GiveUp
  BY <1>1 DEF TimedAssumption, TimedRequest, StartWaiting, Answered, PollAgain, GiveUp,
     Next, Call, Handle
<1>2. CASE Tick \/ SetClock
  BY <1>2 DEF Tick, SetClock
<1>3. CASE \E p \in Peers \ {Client} : Serve(p)
  BY <1>3 DEF Serve, Next
<1>4. CASE \E p, q \in Peers : Take(p, q)
  BY <1>4 DEF Take, Next
<1>5. CASE UNCHANGED timedVars
  BY <1>5 DEF timedVars
<1> QED
  BY <1>1, <1>2, <1>3, <1>4, <1>5 DEF TimedNext

LEMMA TimedPeerInv == TimedSpec => []PeerInv
<1>1. TimedInit => PeerInv
  BY InitInv DEF TimedInit
<1>2. PeerInv /\ [TimedNext]_timedVars => PeerInv'
  BY TimedAssumption, TimedStep, NextInv
<1> QED
  BY <1>1, <1>2, PTL DEF TimedSpec

-----------------------------------------------------------------------------
(* Time                                                                    *)

LEMMA OpIsWaiting ==
  ASSUME PeerInv, pc[Client] = "waiting"
  PROVE  op[Client] = "request"
  BY TimedAssumption DEF PeerInv, CallOK

(* Only its own calls move the client from place to place.                 *)
LEMMA OthersLeaveClient ==
  ASSUME PeerInv, NEW p \in Peers \ {Client},
         \/ Send(p) \/ Handle(p) \/ \E q \in Peers : Receive(p, q)
  PROVE  pc'[Client] = pc[Client] /\ op'[Client] = op[Client] /\ messageID'[Client] = messageID[Client]
         /\ in'[Client] = in[Client] /\ out'[Client] = out[Client]
<1>1. Client \in Peers
  BY TimedAssumption
<1>2. CASE WriteLabel(p)
  BY <1>1, <1>2 DEF WriteLabel, calling, PeerInv, TypeOK
<1>3. CASE SendPackage(p) \/ SendLost(p) \/ SendThrows(p)
  BY <1>1, <1>3 DEF SendPackage, SendLost, SendThrows, PackageTaken, EndCall, PeerInv, TypeOK
<1>4. CASE \E q \in Peers : Receive(p, q)
  BY <1>1, <1>4 DEF Receive, TakePackage, PeerInv, TypeOK
<1>5. CASE Handle(p)
  <2>1. Copied(p) /\ (EndCall(p) \/ BeginSend(p, "service", <<Swap(in[p].seen)>>)
          \/ (pc' = [pc EXCEPT ![p] = "waiting"] /\ UNCHANGED calling))
    BY <1>5 DEF Handle, ReturnPackage, DropUnknown, HandlePull, HandleReply, HandleSubscription,
       AcceptReply, DropMismatch
  <2>2. in'[Client] = in[Client] /\ messageID'[Client] = messageID[Client]
    BY <1>1, <2>1 DEF Copied, CopiedTo, PeerInv, TypeOK
  <2> QED
    BY <1>1, <2>1, <2>2 DEF EndCall, BeginSend, calling, PeerInv, TypeOK
<1> QED
  BY <1>2, <1>3, <1>4, <1>5 DEF Send

LEMMA TimeStep ==
  ASSUME PeerInv, TimeInv, [TimedNext]_timedVars
  PROVE  TimeInv'
<1> USE TimedAssumption
<1>1. CASE TimedRequest
  <2>1. /\ timeout' \in Timeouts /\ pc'[Client] = "writing"
        /\ UNCHANGED <<currTimeout, waited, polled, drift>>
    BY <1>1 DEF TimedRequest, Request, BeginSend, PeerInv, TypeOK
  <2> QED
    BY <2>1 DEF TimeInv, PollInv
<1>2. CASE StartWaiting
  <2>1. CASE pc'[Client] = "waiting"
    <3>1. currTimeout' = timeout /\ waited' = 0 /\ polled' = 0 /\ drift' = 0 /\ timeout' = timeout
      BY <1>2, <2>1 DEF StartWaiting
    <3> QED
      BY <3>1 DEF TimeInv, PollInv
  <2>2. CASE pc'[Client] # "waiting"
    <3>1. UNCHANGED time
      BY <1>2, <2>2 DEF StartWaiting
    <3>2. pc'[Client] # "copying"
      BY <1>2 DEF StartWaiting, Send, WriteLabel, SendPackage, SendLost, SendThrows, PackageTaken,
         EndCall, PeerInv, TypeOK
    <3> QED
      BY <2>2, <3>1, <3>2 DEF TimeInv, PollInv, time
  <2> QED
    BY <2>1, <2>2
<1>3. CASE Answered \/ GiveUp
  <2>1. pc'[Client] = "idle" /\ UNCHANGED time
    BY <1>3 DEF Answered, GiveUp, AcceptReply, RequestTimeout, EndCall, PeerInv, TypeOK
  <2> QED
    BY <2>1 DEF TimeInv, PollInv, time
<1>4. CASE PollAgain
  <2>1. /\ pc'[Client] = "waiting" <=> elapsedTimeout <= timeout
        /\ currTimeout' = timeout - elapsedTimeout /\ polled' = 0
        /\ UNCHANGED <<timeout, waited, drift>>
    BY <1>4 DEF PollAgain
  <2>2. pc'[Client] # "copying"
    BY <1>4 DEF PollAgain, DropMismatch, EndCall, PeerInv, TypeOK
  <2> QED
    BY <2>1, <2>2 DEF TimeInv, PollInv, elapsedTimeout
<1>5. CASE Tick
  <2>1. /\ pc[Client] = "waiting" /\ (currTimeout < 0 \/ polled < currTimeout)
        /\ waited' = waited + 1 /\ polled' = polled + 1
        /\ UNCHANGED <<pc, op, timeout, currTimeout, drift>>
    BY <1>5 DEF Tick, vars, calling
  <2> QED
    BY <2>1, OpIsWaiting DEF TimeInv, PollInv
<1>6. CASE SetClock
  <2>1. drift' \in -MaxDrift .. MaxDrift
        /\ UNCHANGED <<pc, op, timeout, currTimeout, waited, polled>>
    BY <1>6 DEF SetClock, vars, calling
  <2> QED
    BY <2>1 DEF TimeInv, PollInv
<1>7. CASE \E p \in Peers \ {Client} : Serve(p)
  <2>1. pc'[Client] = pc[Client] /\ op'[Client] = op[Client] /\ UNCHANGED time
    BY <1>7, OthersLeaveClient DEF Serve
  <2> QED
    BY <2>1 DEF TimeInv, PollInv, time
<1>8. CASE \E p, q \in Peers : Take(p, q)
  <2>1. PICK p, q \in Peers : Take(p, q)
    BY <1>8
  <2>2. CASE p # Client
    <3>1. pc'[Client] = pc[Client] /\ op'[Client] = op[Client] /\ UNCHANGED time
      BY <2>1, <2>2, OthersLeaveClient DEF Take
    <3> QED
      BY <3>1 DEF TimeInv, PollInv, time
  <2>3. CASE p = Client
    <3>1. pc[Client] = "waiting" /\ UNCHANGED time
      BY <2>1, <2>3 DEF Take, Receive
    <3> QED
      BY <3>1, OpIsWaiting DEF TimeInv, PollInv, time
  <2> QED
    BY <2>2, <2>3
<1>9. CASE UNCHANGED timedVars
  BY <1>9 DEF timedVars, vars, calling, time, TimeInv, PollInv
<1> QED
  BY <1>1, <1>2, <1>3, <1>4, <1>5, <1>6, <1>7, <1>8, <1>9 DEF TimedNext

LEMMA TimeInit == TimedInit => TimeInv
  BY TimedAssumption DEF TimedInit, Init, TimeInv, PollInv

(* The times RequestImpl computes stay what PollInv says of them, however  *)
(* many packages it drops and however the clock is set.                    *)
THEOREM PollsInTime == TimedSpec => []TimeInv
  BY TimeInit, TimeStep, TimedPeerInv, PTL DEF TimedSpec

(* No request waits longer than its timeout, but for how far the clock was *)
(* set back: dropped packages never prolong the wait.                      *)
THEOREM RequestsKeepTime == TimedSpec => []TimeKept
<1>1. PeerInv /\ TimeInv => TimeKept
  BY TimedAssumption, OpIsWaiting DEF TimeInv, PollInv, TimeKept
<1> QED
  BY <1>1, PollsInTime, TimedPeerInv, PTL

-----------------------------------------------------------------------------
(* The client only makes requests, and no port is closed.                  *)
ClientUse ==
  /\ \A p \in Peers : open[p]
  /\ op[Client] \in {"none", "request"}
  /\ op[Client] = "request" => \E label \in App[Client].request : out[Client] = <<label>>

LEMMA OpenStays ==
  ASSUME NEW p \in Peers, Send(p) \/ Handle(p) \/ \E q \in Peers : Receive(p, q)
  PROVE  open' = open
  BY DEF Send, WriteLabel, SendPackage, SendLost, SendThrows, Handle, ReturnPackage, DropUnknown,
     HandlePull, HandleReply, HandleSubscription, AcceptReply, DropMismatch, Copied, CopiedTo,
     Receive

LEMMA ClientUseStep ==
  ASSUME PeerInv, ClientUse, [TimedNext]_timedVars
  PROVE  ClientUse'
<1> USE TimedAssumption
<1>1. CASE TimedRequest
  <2>1. PICK label \in App[Client].request : BeginSend(Client, "request", <<label>>)
    BY <1>1 DEF TimedRequest, Request
  <2>2. op'[Client] = "request" /\ out'[Client] = <<label>> /\ open' = open
    BY <1>1, <2>1 DEF TimedRequest, Request, BeginSend, PeerInv, TypeOK
  <2> QED
    BY <2>2 DEF ClientUse
<1>2. CASE StartWaiting
  <2>1. open' = open
    BY <1>2, OpenStays DEF StartWaiting
  <2>2. op[Client] = "request"
    BY <1>2 DEF StartWaiting, Send, WriteLabel, SendPackage, SendLost, SendThrows,
       ClientUse, PeerInv, CallOK
  <2>3. \/ op'[Client] = "none"
        \/ op'[Client] = "request" /\ out'[Client] = out[Client]
    BY <1>2, <2>2 DEF StartWaiting, Send, WriteLabel, SendPackage, SendLost, SendThrows,
       PackageTaken, EndCall, calling, PeerInv, TypeOK
  <2> QED
    BY <2>1, <2>2, <2>3 DEF ClientUse
<1>3. CASE Answered \/ GiveUp
  <2>1. op'[Client] = "none" /\ open' = open
    BY <1>3, OpenStays DEF Answered, GiveUp, AcceptReply, RequestTimeout, EndCall, Copied, CopiedTo,
       PeerInv, TypeOK
  <2> QED
    BY <2>1 DEF ClientUse
<1>4. CASE PollAgain
  <2>1. open' = open /\ (op'[Client] = "none" \/ (op' = op /\ out' = out))
    BY <1>4 DEF PollAgain, DropMismatch, Copied, CopiedTo, EndCall, calling, PeerInv, TypeOK
  <2> QED
    BY <2>1 DEF ClientUse
<1>5. CASE Tick \/ SetClock \/ UNCHANGED timedVars
  <2>1. op' = op /\ out' = out /\ open' = open
    BY <1>5 DEF Tick, SetClock, timedVars, vars, calling
  <2> QED
    BY <2>1 DEF ClientUse
<1>6. ASSUME NEW p \in Peers \ {Client}, Serve(p) \/ \E q \in Peers : Take(p, q)
      PROVE  ClientUse'
  <2>1. op'[Client] = op[Client] /\ out'[Client] = out[Client]
    BY <1>6, OthersLeaveClient DEF Serve, Take
  <2>2. open' = open
    BY <1>6, OpenStays DEF Serve, Take
  <2> QED
    BY <2>1, <2>2 DEF ClientUse
<1>7. CASE \E q \in Peers : Take(Client, q)
  <2>1. op'[Client] = op[Client] /\ out' = out /\ open' = open
    BY <1>7 DEF Take, Receive
  <2> QED
    BY <2>1 DEF ClientUse
<1> QED
  BY <1>1, <1>2, <1>3, <1>4, <1>5, <1>6, <1>7 DEF TimedNext

LEMMA ClientUseInit == TimedInit => ClientUse
  BY TimedAssumption DEF TimedInit, Init, ClientUse

LEMMA ClientUseInv == TimedSpec => []ClientUse
  BY ClientUseInit, ClientUseStep, TimedPeerInv, PTL DEF TimedSpec

(* A request that has no reply ends after its timeout, and not before it,  *)
(* but for how far the clock was set forward: the packages it drops do not *)
(* end it.                                                                 *)
THEOREM RequestsWaitTheirTime == TimedSpec => NotTooSoon
<1> DEFINE accepted == Answering(Client) /\ in[Client].seen.messageID = messageID[Client]
<1>1. ASSUME PeerInv, TimeInv, ClientUse, [TimedNext]_timedVars,
             op[Client] = "request", op'[Client] = "none", ~accepted
      PROVE  waited >= timeout - MaxDrift
  <2> USE TimedAssumption
  <2>1. CASE TimedRequest
    BY <1>1, <2>1 DEF TimedRequest, Request, PeerInv, CallOK
  <2>2. CASE StartWaiting
    <3>1. PICK label \in App[Client].request : out[Client] = <<label>>
      BY <1>1 DEF ClientUse
    <3>2. Dest(Client) # Client /\ Dest(Client) \in Peers
      <4>1. label \in Label /\ Dest(Client) = label.destPeer
        BY <3>1 DEF Dest, Application
      <4> QED
        BY <4>1 DEF Label
    <3>3. ~SendThrows(Client)
      BY <1>1, <3>2 DEF SendThrows, ClientUse
    <3>4. op'[Client] = "request"
      BY <1>1, <2>2, <3>3 DEF StartWaiting, Send, WriteLabel, SendPackage, SendLost, PackageTaken,
         calling
    <3> QED
      BY <1>1, <3>4
  <2>3. CASE Answered
    BY <1>1, <2>3 DEF Answered, AcceptReply, Answering
  <2>4. CASE GiveUp
    <3>1. pc[Client] = "waiting" /\ polled >= currTimeout
      BY <2>4 DEF GiveUp, RequestTimeout
    <3> QED
      BY <1>1, <3>1 DEF TimeInv, PollInv
  <2>5. CASE PollAgain
    <3>1. pc'[Client] # "waiting"
      <4>1. PeerInv'
        BY <1>1, TimedStep, NextInv
      <4> QED
        BY <1>1, <4>1 DEF PeerInv, CallOK
    <3>2. elapsedTimeout > timeout
      BY <1>1, <2>5, <3>1 DEF PollAgain, TimeInv, elapsedTimeout
    <3> QED
      BY <1>1, <3>2 DEF elapsedTimeout, TimeInv
  <2>6. CASE Tick \/ SetClock \/ UNCHANGED timedVars
    BY <1>1, <2>6 DEF Tick, SetClock, timedVars, vars, calling
  <2>7. CASE \E p \in Peers \ {Client} : Serve(p)
    BY <1>1, <2>7, OthersLeaveClient DEF Serve
  <2>8. CASE \E p, q \in Peers : Take(p, q)
    <3>1. PICK p, q \in Peers : Take(p, q)
      BY <2>8
    <3>2. op'[Client] = op[Client]
      <4>1. CASE p = Client
        BY <1>1, <3>1, <4>1 DEF Take, Receive, PeerInv, CallOK
      <4>2. CASE p # Client
        BY <1>1, <3>1, <4>2, OthersLeaveClient DEF Take
      <4> QED
        BY <4>1, <4>2
    <3> QED
      BY <1>1, <3>2
  <2> QED
    BY <1>1, <2>1, <2>2, <2>3, <2>4, <2>5, <2>6, <2>7, <2>8 DEF TimedNext
<1>2. PeerInv /\ TimeInv /\ ClientUse /\ [TimedNext]_timedVars
        => [(op[Client] = "request" /\ op'[Client] = "none" /\ ~accepted)
              => waited >= timeout - MaxDrift]_timedVars
  BY <1>1
<1> QED
  BY <1>2, PollsInTime, ClientUseInv, TimedPeerInv, PTL DEF NotTooSoon, TimedSpec

-----------------------------------------------------------------------------
(* One full label between client and replier                               *)

OneLabel == PeerInv /\ OneLabelInv

Phase ==
  \/ loaded[Client] /\ LabelAtHand
  \/ LabelSent \/ LabelReceived \/ LabelReturning \/ LabelReplied \/ LabelBack

LEMMA TheTwo ==
  Client \in Peers /\ Replier \in Peers /\ Client # Replier
  BY TimedAssumption, OneReplier

LEMMA TwoTypes ==
  ASSUME OneLabel
  PROVE  /\ toReplier \in Seq(Package) /\ toClient \in Seq(Package)
         /\ labelBuf \in [Peers -> Label \cup {Uninit}] /\ loaded \in [Peers -> BOOLEAN]
         /\ messageID \in [Peers -> MessageIDs] /\ open \in [Peers -> BOOLEAN]
         /\ pipe \in [Peers -> [Peers -> Seq(Package)]] /\ op \in [Peers -> Calls]
         /\ pc \in [Peers -> {"idle", "writing", "sending", "waiting", "copying"}]
         /\ out \in [Peers -> Seq(Label)] /\ in \in [Peers -> Delivery \cup {None}]
         /\ messageID[Client] \in Nat /\ messageID[Replier] \in Nat
         /\ body \in [Peers -> BOOLEAN]
  BY TheTwo DEF OneLabel, PeerInv, TypeOK, toReplier, toClient, MessageIDs

(* The IDs of the requests do not wrap.                                    *)
LEMMA CountsOn ==
  ASSUME OneLabel, NEW id \in Nat, id < MaxRequests
  PROVE  NextID(id) = id + 1
<1>1. MaxRequests \in Nat /\ MaxRequests <= IDRange - 1 /\ IDRange \in Nat \ {0}
  BY TimedAssumption
<1>2. id + 1 \in Nat /\ 0 <= id + 1 /\ id + 1 < IDRange
  BY <1>1
<1> QED
  BY <1>1, <1>2, SmallModulo DEF NextID

(* However a label is torn that the client writes, it is a request.        *)
LEMMA TornRequest ==
  ASSUME NEW labels, labels \subseteq Label, \A l \in labels : FromClient(l),
         NEW torn \in Torn(labels)
  PROVE  FromClient(torn)
<1>1. torn \in Label /\ \A f \in LabelFields : \E k \in labels : torn[f] = k[f]
  BY DEF Torn
<1>2. \A l \in Label : Swap(l).destInterface = l.srcInterface
  BY DEF Swap, Label
<1>3. \A l \in labels : /\ l.srcPeer = Client /\ l.destPeer = Replier
                        /\ interface_map_[Replier][l.destInterface] = "reply"
                        /\ interface_map_[Replier][l.srcInterface] # "reply"
  BY <1>2 DEF FromClient, IsReply
<1>4. \E k \in labels : torn.srcPeer = k.srcPeer
  BY <1>1 DEF LabelFields
<1>5. \E k \in labels : torn.destPeer = k.destPeer
  BY <1>1 DEF LabelFields
<1>6. \E k \in labels : torn.srcInterface = k.srcInterface
  BY <1>1 DEF LabelFields
<1>7. \E k \in labels : torn.destInterface = k.destInterface
  BY <1>1 DEF LabelFields
<1> QED
  BY <1>1, <1>2, <1>3, <1>4, <1>5, <1>6, <1>7 DEF FromClient, IsReply

(* What the client is writing is a request.                                *)
LEMMA WritesRequest ==
  ASSUME OneLabel, pc[Client] # "idle"
  PROVE  /\ op[Client] = "request" /\ Len(out[Client]) = 1 /\ out[Client] # <<>>
         /\ Dest(Client) = Replier
         /\ [Head(out[Client]) EXCEPT !.srcPeer = Client] \in Label
         /\ FromClient([Head(out[Client]) EXCEPT !.srcPeer = Client])
         /\ Stamped(Client) \in Label /\ FromClient(Stamped(Client))
         /\ Stamped(Client).messageID = NextID(messageID[Client])
<1> USE TheTwo
<1>1. PICK label \in App[Client].request : out[Client] = <<label>>
  BY DEF OneLabel, OneLabelInv, OneReplierUse
<1>2. label \in Label /\ Head(out[Client]) = label /\ Len(out[Client]) = 1 /\ out[Client] # <<>>
  BY <1>1 DEF Application
<1>3. op[Client] = "request"
  BY DEF OneLabel, OneLabelInv, OneReplierUse, PeerInv, CallOK
<1>4. Stamped(Client) \in Label
  BY <1>2, StampedType DEF OneLabel, PeerInv
<1>5. [label EXCEPT !.srcPeer = Client] \in Label
  BY <1>2 DEF Label
<1>6. FromClient([label EXCEPT !.srcPeer = Client])
  BY <1>1, <1>2, OneReplier DEF FromClient, IsReply, Swap, Label
<1>7. FromClient(Stamped(Client)) /\ Stamped(Client).messageID = NextID(messageID[Client])
  BY <1>1, <1>2, <1>4, OneReplier DEF Stamped, FromClient, IsReply, Swap, Label
<1>8. Dest(Client) = Replier
  BY <1>2, OneReplier DEF Dest
<1> QED
  BY <1>2, <1>3, <1>4, <1>5, <1>6, <1>7, <1>8

(* What the replier sends is a reply to the client.                        *)
LEMMA SendsReply ==
  ASSUME OneLabel, pc[Replier] \in {"writing", "sending"}
  PROVE  /\ LabelReturning /\ Dest(Replier) = Client
         /\ op[Replier] = "service" /\ Len(out[Replier]) = 1
         /\ Stamped(Replier) \in Label /\ ~IsReply(Stamped(Replier))
         /\ Stamped(Replier).messageID = NextID(messageID[Replier])
<1> USE TheTwo
<1>1. LabelReturning
  BY DEF OneLabel, OneLabelInv, LabelAtHand, LabelSent, LabelReceived, LabelReplied, LabelBack,
     Ignoring, PeerInv, CallOK
<1>2. PICK label \in Label :
        out[Replier] = <<label>> /\ label.destPeer = Client /\ ~IsReply(label)
  BY <1>1 DEF LabelReturning
<1>3. Head(out[Replier]) = label /\ Len(out[Replier]) = 1 /\ out[Replier] # <<>>
  BY <1>2
<1>4. op[Replier] = "service"
  BY DEF OneLabel, OneLabelInv, OneReplierUse, PeerInv, CallOK
<1>5. Stamped(Replier) \in Label
  BY <1>3, StampedType DEF OneLabel, PeerInv
<1>6. ~IsReply(Stamped(Replier)) /\ Stamped(Replier).messageID = NextID(messageID[Replier])
  BY <1>2, <1>3 DEF Stamped, IsReply, Label
<1> QED
  BY <1>1, <1>2, <1>3, <1>4, <1>5, <1>6 DEF Dest

(* What is noted along the pipes.                                          *)
LEMMA TrackFacts ==
  ASSUME OneLabel, PeerInv', Track
  PROVE  /\ answering'[Replier] = IF pc[Replier] = "copying" THEN in[Replier].sent.messageID
                                  ELSE answering[Replier]
         /\ toClient' = toClient => answers'[Replier][Client] = answers[Replier][Client]
         /\ Len(toClient') > Len(toClient) =>
              answers'[Replier][Client] = Append(answers[Replier][Client], answering[Replier])
         /\ Len(toClient') < Len(toClient) =>
              answers'[Replier][Client] = Tail(answers[Replier][Client])
         /\ (\A q \in Peers : pipe'[q][Client] = pipe[q][Client]) => answered' = answered
<1> USE TheTwo
<1>1. /\ answering'[Replier] = IF pc[Replier] = "copying" THEN in[Replier].sent.messageID
                               ELSE answering[Replier]
  BY DEF Track
<1>2. answers'[Replier][Client] =
       CASE Len(toClient') > Len(toClient) -> Append(answers[Replier][Client], answering[Replier])
         [] Len(toClient') < Len(toClient) -> Tail(answers[Replier][Client])
         [] OTHER -> answers[Replier][Client]
  BY DEF Track, toClient
<1>3. toClient \in Seq(Package) /\ toClient' \in Seq(Package)
  BY TwoTypes DEF PeerInv, TypeOK, toClient
<1>4. Len(toClient) \in Nat /\ Len(toClient') \in Nat
  BY <1>3
<1>5. Len(toClient') > Len(toClient) => ~(Len(toClient') < Len(toClient))
  BY <1>4
<1>6. toClient' = toClient => ~(Len(toClient') > Len(toClient)) /\ ~(Len(toClient') < Len(toClient))
  BY <1>4
<1>7. ASSUME \A q \in Peers : pipe'[q][Client] = pipe[q][Client] PROVE answered' = answered
  <2>1. \A q \in Peers : Len(pipe[q][Client]) \in Nat
    BY DEF OneLabel, PeerInv, TypeOK
  <2>2. \A q \in Peers : ~(Len(pipe'[q][Client]) < Len(pipe[q][Client]))
    BY <1>7, <2>1
  <2> QED
    BY <2>2 DEF Track
<1> QED
  BY <1>1, <1>2, <1>5, <1>6, <1>7

-----------------------------------------------------------------------------
(* The steps there are                                                     *)

ReplierDrops == DropUnknown(Replier) \/ HandlePull(Replier) \/ HandleSubscription(Replier)

LEMMA ReplierSteps ==
  ASSUME OneLabel, Send(Replier) \/ Handle(Replier)
  PROVE  \/ WriteLabel(Replier) \/ SendPackage(Replier)
         \/ LabelReceived /\ HandleReply(Replier)
         \/ Ignoring /\ ReplierDrops
<1> USE TheTwo
<1>1. op[Replier] \in {"none", "service"} /\ \A p \in Peers : open[p]
  BY DEF OneLabel, OneLabelInv, OneReplierUse
<1>2. CASE Send(Replier)
  <2>1. pc[Replier] = "sending" => Dest(Replier) = Client
    BY SendsReply
  <2> QED
    BY <1>1, <1>2, <2>1 DEF Send, SendLost, SendThrows
<1>3. CASE Handle(Replier)
  <2>1. HandleReply(Replier) \/ ReplierDrops
    BY <1>1, <1>3 DEF Handle, ReturnPackage, AcceptReply, DropMismatch, ReplierDrops
  <2>2. pc[Replier] = "copying" /\ in[Replier] # None
    BY <2>1 DEF HandleReply, ReplierDrops, DropUnknown, HandlePull, HandleSubscription, Dispatches,
       OneLabel, PeerInv, CallOK
  <2>3. LabelReceived \/ Ignoring
    BY <2>2 DEF OneLabel, OneLabelInv, LabelAtHand, LabelSent, LabelReturning, LabelReplied,
       LabelBack
  <2>4. LabelReceived => ~ReplierDrops
    BY DEF LabelReceived, FromClient, IsReply, ReplierDrops, DropUnknown, HandlePull,
       HandleSubscription, Dispatches
  <2>5. Ignoring => ~HandleReply(Replier)
    BY <2>2 DEF Ignoring, IsReply, HandleReply, Dispatches
  <2> QED
    BY <2>1, <2>3, <2>4, <2>5
<1> QED
  BY <1>2, <1>3

LEMMA OneReplierSteps ==
  ASSUME OneLabel, [TimedNext]_timedVars
  PROVE  \/ TimedRequest
         \/ Track /\ (WriteLabel(Client) \/ SendPackage(Client))
         \/ Track /\ (AcceptReply(Client) \/ DropMismatch(Client))
         \/ Track /\ RequestTimeout(Client)
         \/ Track /\ (Receive(Client, Replier) \/ Receive(Replier, Client))
         \/ Track /\ (WriteLabel(Replier) \/ SendPackage(Replier))
         \/ Track /\ LabelReceived /\ HandleReply(Replier)
         \/ Track /\ Ignoring /\ ReplierDrops
         \/ UNCHANGED <<vars, history>>
<1> USE TheTwo
<1>1. CASE TimedRequest \/ Answered \/ PollAgain \/ GiveUp \/ Tick \/ SetClock \/ UNCHANGED timedVars
  BY <1>1 DEF Answered, PollAgain, GiveUp, Tick, SetClock, timedVars
<1>2. CASE StartWaiting
  <2>1. Dest(Client) = Replier \/ pc[Client] # "sending"
    BY WritesRequest
  <2>2. \A p \in Peers : open[p]
    BY DEF OneLabel, OneLabelInv, OneReplierUse
  <2>3. ~SendLost(Client) /\ ~SendThrows(Client)
    BY <2>1, <2>2 DEF SendLost, SendThrows
  <2> QED
    BY <1>2, <2>3 DEF StartWaiting, Send
<1>3. CASE \E p \in Peers \ {Client} : Serve(p)
  <2>1. PICK p \in Peers \ {Client} : Serve(p)
    BY <1>3
  <2>2. CASE p = Replier
    BY <2>1, <2>2, ReplierSteps DEF Serve
  <2>3. CASE p # Replier
    <3>1. pc[p] = "idle" /\ op[p] = "none"
      BY <2>1, <2>3 DEF OneLabel, OneLabelInv, OneReplierUse, PeerInv, CallOK
    <3> QED
      BY <2>1, <3>1 DEF Serve, Send, WriteLabel, SendPackage, SendLost, SendThrows, Handle,
         ReturnPackage, DropUnknown, HandlePull, HandleReply, HandleSubscription, AcceptReply,
         DropMismatch, Dispatches
  <2> QED
    BY <2>2, <2>3
<1>4. CASE \E p, q \in Peers : Take(p, q)
  <2>1. PICK p, q \in Peers : Take(p, q)
    BY <1>4
  <2>2. pipe[q][p] # <<>>
    BY <2>1 DEF Take, Receive, TakePackage
  <2>3. (p = Client /\ q = Replier) \/ (p = Replier /\ q = Client)
    BY <2>2 DEF OneLabel, OneLabelInv, OneReplierUse
  <2> QED
    BY <2>1, <2>3 DEF Take
<1> QED
  BY <1>1, <1>2, <1>3, <1>4 DEF TimedNext

-----------------------------------------------------------------------------
(* Each step preserves the invariant.                                      *)

(* The steps of the client that neither send nor receive.                  *)
LEMMA PhaseKept ==
  ASSUME OneLabel,
         UNCHANGED <<loaded, pipe, in>>, UNCHANGED <<answers[Replier][Client], answered>>,
         UNCHANGED <<labelBuf[Replier], messageID[Replier], pc[Replier], out[Replier]>>,
         pc[Replier] # "copying" => answering'[Replier] = answering[Replier],
         messageID'[Client] \in Nat, messageID[Client] <= messageID'[Client],
         FromClient(labelBuf[Client]) => FromClient(labelBuf'[Client]),
         pc'[Client] = "sending" => \/ messageID[Client] < messageID'[Client]
                                    \/ pc[Client] = "sending"
  PROVE  Phase'
<1> USE TheTwo, TwoTypes
<1>1. toReplier' = toReplier /\ toClient' = toClient
  BY DEF toReplier, toClient
<1>2. (NotAtHand => NotAtHand') /\ (NoneSent => NoneSent') /\ (NoneBack => NoneBack')
      /\ (Ignoring => Ignoring')
  BY <1>1 DEF NotAtHand, NoneSent, NoneBack, Ignoring, IsReply
<1>3. CASE loaded[Client] /\ LabelAtHand
  BY <1>1, <1>2, <1>3 DEF LabelAtHand, Phase
<1>4. CASE LabelSent
  BY <1>1, <1>2, <1>4 DEF LabelSent, Phase, FromClient, IsReply
<1>5. CASE LabelReceived
  <2>1. in[Replier].sent.messageID \in Nat
    BY <1>5 DEF LabelReceived, Delivery, Label, MessageIDs
  <2> QED
    BY <1>1, <1>2, <1>5, <2>1 DEF LabelReceived, Phase, FromClient, IsReply
<1>6. CASE LabelReturning
  <2>1. answering'[Replier] = answering[Replier]
    BY <1>6 DEF LabelReturning
  <2> QED
    BY <1>1, <1>2, <1>6, <2>1 DEF LabelReturning, Phase, IsReply
<1>7. CASE LabelReplied
  BY <1>1, <1>2, <1>7 DEF LabelReplied, Phase
<1>8. CASE LabelBack
  BY <1>1, <1>2, <1>8 DEF LabelBack, Phase
<1> QED
  BY <1>3, <1>4, <1>5, <1>6, <1>7, <1>8 DEF OneLabel, OneLabelInv

LEMMA RequestStep ==
  ASSUME OneLabel, PeerInv', TimedRequest
  PROVE  OneLabelInv'
<1> USE TheTwo, TwoTypes
<1>1. PICK label \in App[Client].request : BeginSend(Client, "request", <<label>>)
  BY DEF TimedRequest, Request
<1>2. /\ pc' = [pc EXCEPT ![Client] = "writing"] /\ op' = [op EXCEPT ![Client] = "request"]
      /\ out' = [out EXCEPT ![Client] = <<label>>]
      /\ UNCHANGED <<labelBuf, loaded, messageID, pipe, open, in>>
      /\ messageID[Client] < MaxRequests /\ pc[Client] = "idle"
  BY <1>1 DEF TimedRequest, Request, BeginSend
<1>3. OneReplierUse'
  BY <1>2 DEF OneLabel, OneLabelInv, OneReplierUse, toReplier
<1>4. /\ UNCHANGED <<answers[Replier][Client], answered>>
      /\ pc[Replier] # "copying" => answering'[Replier] = answering[Replier]
  BY <1>2, TrackFacts DEF TimedRequest, toClient
<1>5. Phase'
  BY <1>2, <1>4, PhaseKept
<1> QED
  BY <1>3, <1>5 DEF OneLabelInv, Phase

LEMMA WriteStep ==
  ASSUME OneLabel, PeerInv', Track, WriteLabel(Client)
  PROVE  OneLabelInv'
<1> USE TheTwo, TwoTypes
<1>1. /\ pc[Client] = "writing" /\ pc' = [pc EXCEPT ![Client] = "sending"]
      /\ labelBuf' = [labelBuf EXCEPT ![Client] = Stamped(Client)]
      /\ messageID' = [messageID EXCEPT ![Client] = NextID(messageID[Client])]
      /\ UNCHANGED <<loaded, pipe, open, in, op, out>>
  BY DEF WriteLabel, calling
<1>2. /\ FromClient(Stamped(Client)) /\ Stamped(Client) \in Label
      /\ Stamped(Client).messageID = NextID(messageID[Client])
  BY <1>1, WritesRequest
<1>3. NextID(messageID[Client]) = messageID[Client] + 1 /\ messageID[Client] < MaxRequests
  BY <1>1, CountsOn DEF OneLabel, OneLabelInv, OneReplierUse
<1>4. OneReplierUse'
  <2>1. messageID'[Client] = messageID[Client] + 1 /\ messageID[Client] \in Nat
    BY <1>1, <1>3
  <2>2. \A i \in DOMAIN toReplier' : toReplier'[i].sent.messageID <= messageID'[Client]
    <3> TAKE i \in DOMAIN toReplier'
    <3>1. toReplier' = toReplier /\ toReplier[i] \in Package
      BY <1>1 DEF toReplier
    <3>2. toReplier[i].sent.messageID \in Nat
      BY <3>1 DEF Package, Label, MessageIDs
    <3>3. toReplier[i].sent.messageID <= messageID[Client]
      BY <3>1 DEF OneLabel, OneLabelInv, OneReplierUse
    <3> QED
      BY <2>1, <3>1, <3>2, <3>3
  <2>3. messageID'[Client] <= MaxRequests
    BY <1>3, <2>1, TimedAssumption
  <2>4. /\ FromClient(labelBuf[Client])'
        /\ labelBuf'[Client].messageID = messageID'[Client]
    BY <1>1, <1>2, <1>3, <2>1 DEF FromClient, IsReply
  <2>5. /\ pc'[Client] = "sending" /\ \A p \in Peers \ {Client} : pc'[p] = pc[p]
        /\ op' = op /\ out' = out /\ open' = open /\ pipe' = pipe /\ pc[Client] # "idle"
    BY <1>1
  <2> QED
    BY <2>2, <2>3, <2>4, <2>5 DEF OneLabel, OneLabelInv, OneReplierUse
<1>5. /\ UNCHANGED <<answers[Replier][Client], answered>>
      /\ pc[Replier] # "copying" => answering'[Replier] = answering[Replier]
  BY <1>1, TrackFacts DEF toClient
<1>6. Phase'
  <2>1. messageID'[Client] = messageID[Client] + 1 /\ FromClient(labelBuf'[Client])
    BY <1>1, <1>2, <1>3
  <2> QED
    BY <1>1, <1>5, <2>1, PhaseKept
<1> QED
  BY <1>4, <1>6 DEF OneLabelInv, Phase

LEMMA GiveUpStep ==
  ASSUME OneLabel, PeerInv', Track, RequestTimeout(Client)
  PROVE  OneLabelInv'
<1> USE TheTwo, TwoTypes
<1>1. /\ pc' = [pc EXCEPT ![Client] = "idle"] /\ op' = [op EXCEPT ![Client] = "none"]
      /\ out' = [out EXCEPT ![Client] = <<>>]
      /\ UNCHANGED <<labelBuf, loaded, messageID, pipe, open, in>>
  BY DEF RequestTimeout, EndCall
<1>2. OneReplierUse'
  BY <1>1 DEF OneLabel, OneLabelInv, OneReplierUse, toReplier
<1>3. /\ UNCHANGED <<answers[Replier][Client], answered>>
      /\ pc[Replier] # "copying" => answering'[Replier] = answering[Replier]
  BY <1>1, TrackFacts DEF toClient
<1>4. Phase'
  BY <1>1, <1>3, PhaseKept
<1> QED
  BY <1>2, <1>4 DEF OneLabelInv, Phase

LEMMA NoStep ==
  ASSUME OneLabel, UNCHANGED <<vars, history>>
  PROVE  OneLabelInv'
<1> USE TheTwo, TwoTypes
<1>1. UNCHANGED <<labelBuf, loaded, messageID, pipe, open, pc, op, out, in, answers, answering, answered>>
  BY DEF vars, calling, history
<1>2. OneReplierUse'
  BY <1>1 DEF OneLabel, OneLabelInv, OneReplierUse, toReplier, FromClient, IsReply
<1>3. FromClient(labelBuf[Client]) => FromClient(labelBuf'[Client])
  BY <1>1
<1>4. Phase'
  BY <1>1, <1>3, PhaseKept
<1> QED
  BY <1>2, <1>4 DEF OneLabelInv, Phase

(* The client sends its request.                                           *)
LEMMA SendStep ==
  ASSUME OneLabel, PeerInv', Track, SendPackage(Client)
  PROVE  OneLabelInv'
<1> USE TheTwo, TwoTypes
<1> DEFINE package == [shared |-> loaded[Client], body |-> body[Client], sent |-> labelBuf[Client]]
<1>1. pc[Client] = "sending" /\ pc[Client] # "idle" /\ in[Client] = None /\ labelBuf[Client] # Uninit
  BY DEF SendPackage, OneLabel, PeerInv, CallOK
<1>2. Dest(Client) = Replier /\ op[Client] = "request"
  BY <1>1, WritesRequest
<1>3. pipe' = [pipe EXCEPT ![Client][Replier] = Append(@, package)]
  BY <1>2 DEF SendPackage
<1>4. /\ loaded' = [loaded EXCEPT ![Client] = FALSE] /\ pc' = [pc EXCEPT ![Client] = "waiting"]
      /\ UNCHANGED <<labelBuf, messageID, open, in, op, out>>
  BY <1>2 DEF SendPackage, PackageTaken
<1>5. package \in Package /\ package.shared = loaded[Client]
      /\ package.sent.messageID = messageID[Client]
      /\ FromClient(labelBuf[Client]) /\ messageID[Client] \in Nat
  BY <1>1 DEF Package, OneLabel, OneLabelInv, OneReplierUse
<1>6. toReplier' = Append(toReplier, package) /\ toClient' = toClient
  BY <1>3 DEF toReplier, toClient
<1>7. /\ \A q \in Peers : pipe'[q][Client] = pipe[q][Client]
      /\ \A p, q \in Peers : pipe'[p][q] # pipe[p][q] => p = Client /\ q = Replier
  BY <1>3
<1>8. /\ UNCHANGED <<answers[Replier][Client], answered>>
      /\ pc[Replier] # "copying" => answering'[Replier] = answering[Replier]
  BY <1>6, <1>7, TrackFacts
<1> HIDE DEF package
<1>9. /\ DOMAIN toReplier' = 1 .. Len(toReplier) + 1 /\ DOMAIN toReplier = 1 .. Len(toReplier)
      /\ \A i \in DOMAIN toReplier : i \in DOMAIN toReplier' /\ toReplier'[i] = toReplier[i]
      /\ toReplier'[Len(toReplier) + 1] = package /\ Len(toReplier) + 1 \in DOMAIN toReplier'
      /\ Len(toReplier) \in Nat
  BY <1>5, <1>6, AppendProperties
<1>10. \A i \in DOMAIN toReplier' : i \in DOMAIN toReplier \/ i = Len(toReplier) + 1
  <2>1. \A n \in Nat : \A i \in 1 .. n + 1 : i \in 1 .. n \/ i = n + 1
    OBVIOUS
  <2> QED
    BY ONLY <1>9, <2>1
<1>11. OneReplierUse'
  <2>1. \A i \in DOMAIN toReplier' : toReplier'[i].sent.messageID <= messageID'[Client]
    <3>1. \A i \in DOMAIN toReplier : toReplier[i].sent.messageID <= messageID[Client]
      BY DEF OneLabel, OneLabelInv, OneReplierUse
    <3>2. messageID'[Client] = messageID[Client] /\ messageID[Client] <= messageID[Client]
      BY <1>4, <1>5
    <3> QED
      BY ONLY <1>5, <1>9, <1>10, <3>1, <3>2
  <2>2. \A p, q \in Peers : pipe'[p][q] # <<>> =>
          (p = Client /\ q = Replier) \/ (p = Replier /\ q = Client)
    <3>1. \A p, q \in Peers : pipe[p][q] # <<>> =>
            (p = Client /\ q = Replier) \/ (p = Replier /\ q = Client)
      BY DEF OneLabel, OneLabelInv, OneReplierUse
    <3> QED
      BY ONLY <1>7, <3>1
  <2>3. pc'[Client] = "waiting" /\ \A p \in Peers \ {Client} : pc'[p] = pc[p]
    BY <1>4
  <2> QED
    BY <1>1, <1>4, <2>1, <2>2, <2>3 DEF OneLabel, OneLabelInv, OneReplierUse
<1>12. Phase'
  <2>1. NotAtHand' /\ in' = in /\ labelBuf' = labelBuf /\ messageID' = messageID /\ out' = out
    BY <1>1, <1>4 DEF NotAtHand
  <2>2. loaded'[Replier] = loaded[Replier] /\ pc'[Replier] = pc[Replier]
    BY <1>4
  <2>3. (NoneBack => NoneBack') /\ (Ignoring => Ignoring')
    BY <1>4, <1>6, <1>8, <2>2 DEF NoneBack, Ignoring, IsReply
  <2>4. NoneSent /\ ~loaded[Client] => NoneSent'
    BY <1>5, <1>9, <1>10 DEF NoneSent
  <2>5. CASE loaded[Client] /\ LabelAtHand
    <3>1. \A i \in DOMAIN toReplier' : toReplier'[i].shared <=> i = Len(toReplier) + 1
      BY <1>5, <1>9, <1>10, <2>5 DEF LabelAtHand, NoneSent
    <3>2. labelBuf'[Replier] = Uninit => Len(toReplier) + 1 = 1
      BY <2>1, <2>5 DEF LabelAtHand
    <3>3. messageID'[Replier] < toReplier'[Len(toReplier) + 1].sent.messageID
      BY <1>1, <1>5, <1>9, <2>1, <2>5 DEF LabelAtHand
    <3>4. NoneBack' /\ Ignoring' /\ FromClient(labelBuf[Client])'
      BY <1>5, <2>1, <2>3, <2>5 DEF LabelAtHand, FromClient, IsReply
    <3> QED
      BY <1>9, <2>1, <3>1, <3>2, <3>3, <3>4 DEF LabelSent, Phase
  <2>6. CASE LabelSent
    <3>1. PICK j \in DOMAIN toReplier :
            /\ \A i \in DOMAIN toReplier : toReplier[i].shared <=> i = j
            /\ labelBuf[Replier] = Uninit => j = 1
            /\ messageID[Replier] < toReplier[j].sent.messageID
      BY <2>6 DEF LabelSent
    <3>2. ~package.shared /\ j # Len(toReplier) + 1
      BY <1>5, <1>9, <2>6 DEF LabelSent, NotAtHand
    <3>3. /\ \A i \in DOMAIN toReplier' : toReplier'[i].shared <=> i = j
          /\ labelBuf'[Replier] = Uninit => j = 1
          /\ messageID'[Replier] < toReplier'[j].sent.messageID
          /\ j \in DOMAIN toReplier'
      BY <1>9, <1>10, <2>1, <3>1, <3>2
    <3>4. NoneBack' /\ Ignoring' /\ FromClient(labelBuf[Client])'
      BY <1>5, <2>1, <2>3, <2>6 DEF LabelSent, FromClient, IsReply
    <3> QED
      BY <2>1, <3>3, <3>4 DEF LabelSent, Phase
  <2>7. CASE LabelReceived
    <3>1. NoneBack' /\ NoneSent'
      BY <2>3, <2>4, <2>7 DEF LabelReceived, NotAtHand
    <3> QED
      BY <2>1, <2>7, <3>1 DEF LabelReceived, Phase, FromClient, IsReply
  <2>8. CASE LabelReturning
    <3>1. NoneBack' /\ NoneSent' /\ answering'[Replier] = answering[Replier]
      BY <1>8, <2>3, <2>4, <2>8 DEF LabelReturning, NotAtHand
    <3> QED
      BY <2>1, <2>2, <2>8, <3>1 DEF LabelReturning, Phase, IsReply
  <2>9. CASE LabelReplied
    <3>1. Ignoring' /\ NoneSent'
      BY <2>3, <2>4, <2>9 DEF LabelReplied, NotAtHand
    <3> QED
      BY <1>6, <1>8, <2>1, <2>9, <3>1 DEF LabelReplied, Phase
  <2>10. ~LabelBack
    BY <1>1 DEF LabelBack
  <2> QED
    BY <2>5, <2>6, <2>7, <2>8, <2>9, <2>10 DEF OneLabel, OneLabelInv
<1> QED
  BY <1>11, <1>12 DEF OneLabelInv, Phase

(* The client has copied the package: it was the reply with the label.     *)
LEMMA EndStep ==
  ASSUME OneLabel, PeerInv', Track, AcceptReply(Client) \/ DropMismatch(Client)
  PROVE  OneLabelInv'
<1> USE TheTwo, TwoTypes
<1>1. pc[Client] = "copying" /\ in[Client] # None /\ pc[Client] # "idle"
  BY DEF AcceptReply, DropMismatch, OneLabel, PeerInv, CallOK
<1>2. LabelBack
  BY <1>1 DEF OneLabel, OneLabelInv, LabelAtHand, LabelSent, LabelReceived, LabelReturning,
     LabelReplied, NotAtHand
<1>3. /\ labelBuf' = [labelBuf EXCEPT ![Client] = in[Client].seen]
      /\ loaded' = [loaded EXCEPT ![Client] = in[Client].shared]
      /\ in' = [in EXCEPT ![Client] = None]
      /\ UNCHANGED <<messageID, pipe, open>>
  BY DEF AcceptReply, DropMismatch, Copied, CopiedTo
<1>4. /\ \A p \in Peers \ {Client} : pc'[p] = pc[p] /\ op'[p] = op[p] /\ out'[p] = out[p]
      /\ \/ pc'[Client] = "idle" /\ op'[Client] = "none"
         \/ pc'[Client] = "waiting" /\ op'[Client] = op[Client] /\ out'[Client] = out[Client]
  BY DEF AcceptReply, DropMismatch, EndCall, calling
<1>5. toReplier' = toReplier /\ toClient' = toClient /\ answers'[Replier][Client] = answers[Replier][Client]
  BY <1>3, TrackFacts DEF toReplier, toClient
<1>6. OneReplierUse'
  <2>1. pc'[Client] # "sending" /\ pc'[Client] # "writing"
    BY <1>4
  <2>2. op'[Client] \in {"none", "request"} /\ op'[Replier] \in {"none", "service"}
    BY <1>4 DEF OneLabel, OneLabelInv, OneReplierUse
  <2>3. pc'[Client] # "idle" => \E label \in App[Client].request : out'[Client] = <<label>>
    BY <1>1, <1>4 DEF OneLabel, OneLabelInv, OneReplierUse
  <2>4. \A p \in Peers \ {Client, Replier} : pc'[p] = "idle"
    BY <1>4 DEF OneLabel, OneLabelInv, OneReplierUse
  <2> QED
    BY <1>3, <1>5, <2>1, <2>2, <2>3, <2>4 DEF OneLabel, OneLabelInv, OneReplierUse
<1>7. loaded'[Client] /\ LabelAtHand'
  <2>1. in'[Client] = None /\ loaded'[Client] /\ pc'[Client] # "sending"
    BY <1>2, <1>3, <1>4 DEF LabelBack
  <2>2. in'[Replier] = in[Replier] /\ labelBuf'[Replier] = labelBuf[Replier] /\ pc'[Replier] = pc[Replier]
    BY <1>3, <1>4
  <2>3. Ignoring' /\ NoneSent' /\ NoneBack'
    BY <1>2, <1>5, <2>2 DEF LabelBack, Ignoring, NoneSent, NoneBack, IsReply
  <2> QED
    BY <1>2, <1>3, <2>1, <2>2, <2>3 DEF LabelBack, LabelAtHand
<1> QED
  BY <1>6, <1>7 DEF OneLabelInv

LEMMA TornAlone ==
  ASSUME NEW label \in Label, NEW torn \in Torn({label})
  PROVE  torn.messageID = label.messageID
  BY DEF Torn, LabelFields

LEMMA OneElement ==
  ASSUME NEW S, NEW s \in Seq(S), Len(s) = 1
  PROVE  Head(s) = s[1] /\ s[1] \in S /\ Tail(s) = <<>> /\ Len(Tail(s)) = 0
<1>1. s # <<>>
  <2>1. Len(<<>>) = 0
    BY ONLY EmptySeq
  <2> QED
    BY ONLY <2>1, Len(s) = 1
<1>2. Head(s) = s[1]
  OBVIOUS
<1>3. Tail(s) \in Seq(S) /\ Len(Tail(s)) = 0 /\ Head(s) \in S
  BY <1>1, HeadTailProperties
<1>4. Tail(s) = <<>>
  BY ONLY <1>3, EmptySeq
<1> QED
  BY <1>2, <1>3, <1>4

(* The client begins to receive the reply.                                 *)
LEMMA TakeReplyStep ==
  ASSUME OneLabel, PeerInv', Track, Receive(Client, Replier)
  PROVE  OneLabelInv'
<1> USE TheTwo, TwoTypes
<1>1. toClient # <<>> /\ pipe' = [pipe EXCEPT ![Replier][Client] = Tail(@)]
      /\ pc' = [pc EXCEPT ![Client] = "copying"]
  BY DEF Receive, TakePackage, toClient
<1>2. LabelReplied
  BY <1>1 DEF OneLabel, OneLabelInv, LabelAtHand, LabelSent, LabelReceived, LabelReturning,
     LabelBack, NoneBack
<1>3. pc[Client] = "waiting" /\ op' = op /\ UNCHANGED <<labelBuf, loaded, messageID, open, out>>
  BY TimedAssumption DEF Receive
<1>4. PICK id \in 0 .. messageID[Client] :
        /\ answers[Replier][Client] = <<id>>
        /\ labelBuf[Replier].messageID <= id /\ messageID[Replier] <= id
  BY <1>2 DEF LabelReplied
<1>5. Len(toClient) = 1 /\ Head(toClient) = toClient[1] /\ toClient[1].shared /\ toClient[1] \in Package
  <2>1. Len(toClient) = 1 /\ toClient[1].shared
    BY <1>2 DEF LabelReplied
  <2>2. Head(toClient) = toClient[1] /\ toClient[1] \in Package
    BY <2>1, OneElement
  <2> QED
    BY <2>1, <2>2
<1>6. PICK label \in BufferReads(Replier) :
        in' = [in EXCEPT ![Client] = [shared |-> toClient[1].shared, body |-> toClient[1].body,
                                      sent |-> toClient[1].sent, seen |-> label]]
  BY <1>5 DEF Receive, TakePackage, toClient
<1>7. label.messageID = labelBuf[Replier].messageID /\ label \in Label
  <2>1. labelBuf[Replier] \in Label /\ Memory(Replier) = {labelBuf[Replier]}
    BY <1>2 DEF LabelReplied, Memory
  <2>2. BeingWritten(Replier) \subseteq {labelBuf[Replier]}
    BY <1>2 DEF LabelReplied, Ignoring, BeingWritten, OneLabel, PeerInv, CallOK
  <2>3. BufferReads(Replier) = Torn({labelBuf[Replier]})
    <3>1. Memory(Replier) \cup BeingWritten(Replier) = {labelBuf[Replier]}
      BY <2>1, <2>2
    <3> QED
      BY <3>1 DEF BufferReads
  <2>4. label \in Torn({labelBuf[Replier]})
    BY <1>6, <2>3
  <2> QED
    BY ONLY <2>1, <2>4, TornAlone, TornType
<1>8. toReplier' = toReplier /\ toClient' = Tail(toClient) /\ Len(toClient') < Len(toClient) /\ toClient' = <<>>
  <2>1. toReplier' = toReplier /\ toClient' = Tail(toClient)
    BY <1>1 DEF toReplier, toClient
  <2>2. Tail(toClient) = <<>> /\ Len(Tail(toClient)) = 0
    BY <1>5, OneElement
  <2>3. Len(toClient') = 0
    BY <2>1, <2>2
  <2>4. 0 < Len(toClient)
    BY <1>5
  <2> QED
    BY ONLY <2>1, <2>2, <2>3, <2>4
<1>9. answers'[Replier][Client] = <<>>
  BY <1>4, <1>8, TrackFacts
<1>10. answered' = id
  <2>1. \A q \in Peers : Len(pipe'[q][Client]) < Len(pipe[q][Client]) <=> q = Replier
    <3>1. \A q \in Peers \ {Replier} : pipe'[q][Client] = pipe[q][Client] /\ Len(pipe[q][Client]) \in Nat
      BY <1>1
    <3>2. Len(pipe'[Replier][Client]) < Len(pipe[Replier][Client])
      BY <1>8 DEF toClient
    <3>3. \A n \in Nat : ~(n < n)
      OBVIOUS
    <3> QED
      BY ONLY <3>1, <3>2, <3>3
  <2>2. (CHOOSE q \in Peers : Len(pipe'[q][Client]) < Len(pipe[q][Client])) = Replier
    BY <2>1
  <2> QED
    BY <1>4, <2>1, <2>2 DEF Track
<1>11. OneReplierUse'
  <2>1. pc'[Client] = "copying" /\ \A p \in Peers \ {Client} : pc'[p] = pc[p]
    BY <1>1
  <2>2. \A p, q \in Peers : pipe'[p][q] # <<>> => pipe[p][q] # <<>>
    BY <1>1, <1>8 DEF toClient
  <2> QED
    BY <1>3, <1>8, <2>1, <2>2 DEF OneLabel, OneLabelInv, OneReplierUse
<1>12. LabelBack'
  <2>1. in'[Client].shared /\ in'[Client].seen = label /\ in'[Client] # None /\ in'[Replier] = in[Replier]
    BY <1>1, <1>5, <1>6 DEF PeerInv, CallOK
  <2>2. pc'[Replier] = pc[Replier]
    BY <1>1
  <2>3. Ignoring' /\ NoneSent' /\ NoneBack'
    BY <1>2, <1>3, <1>8, <1>9, <2>1, <2>2 DEF LabelReplied, Ignoring, NoneSent, NoneBack, IsReply
  <2>4. answered' \in 0 .. messageID'[Client] /\ in'[Client].seen.messageID <= answered'
        /\ messageID'[Replier] <= messageID'[Client]
    BY <1>3, <1>4, <1>7, <1>10, <2>1
  <2> QED
    BY <1>2, <1>3, <2>1, <2>3, <2>4 DEF LabelBack, LabelReplied
<1> QED
  BY <1>11, <1>12 DEF OneLabelInv

-----------------------------------------------------------------------------
(* The client stays as it is while the replier goes on.                    *)
LEMMA ReplierUse ==
  ASSUME OneLabel, PeerInv',
         \A p \in Peers \ {Replier} : pc'[p] = pc[p] /\ op'[p] = op[p] /\ out'[p] = out[p],
         op'[Replier] \in {"none", "service"}, UNCHANGED open,
         UNCHANGED <<labelBuf[Client], messageID[Client]>>,
         toReplier' = toReplier \/ (toReplier # <<>> /\ toReplier' = Tail(toReplier)),
         \A p, q \in Peers : \/ pipe'[p][q] = pipe[p][q]
                            \/ (p = Client /\ q = Replier) \/ (p = Replier /\ q = Client)
  PROVE  OneReplierUse'
<1> USE TheTwo, TwoTypes
<1>1. \A i \in DOMAIN toReplier' : toReplier'[i].sent.messageID <= messageID'[Client]
  <2>1. \A i \in DOMAIN toReplier : toReplier[i].sent.messageID <= messageID[Client]
    BY DEF OneLabel, OneLabelInv, OneReplierUse
  <2>2. CASE toReplier' = toReplier
    BY <2>1, <2>2
  <2>3. CASE toReplier # <<>> /\ toReplier' = Tail(toReplier)
    <3>1. \A i \in DOMAIN toReplier' : i + 1 \in DOMAIN toReplier /\ toReplier'[i] = toReplier[i + 1]
      BY <2>3
    <3> QED
      BY <2>1, <3>1
  <2> QED
    BY <2>2, <2>3
<1>2. \A p, q \in Peers : pipe'[p][q] # <<>> =>
        (p = Client /\ q = Replier) \/ (p = Replier /\ q = Client)
  <2>1. \A p, q \in Peers : pipe[p][q] # <<>> =>
          (p = Client /\ q = Replier) \/ (p = Replier /\ q = Client)
    BY DEF OneLabel, OneLabelInv, OneReplierUse
  <2>2. \A p, q \in Peers : \/ pipe'[p][q] = pipe[p][q]
                           \/ (p = Client /\ q = Replier) \/ (p = Replier /\ q = Client)
    OBVIOUS
  <2> QED
    BY ONLY <2>1, <2>2
<1>3. pc'[Client] = pc[Client] /\ op'[Client] = op[Client] /\ out'[Client] = out[Client]
  OBVIOUS
<1>4. FromClient(labelBuf[Client]) => FromClient(labelBuf[Client])'
  BY DEF FromClient, IsReply
<1> QED
  BY <1>1, <1>2, <1>3, <1>4 DEF OneLabel, OneLabelInv, OneReplierUse

(* The replier begins to receive a request: with its label, or by its own  *)
(* buffer.                                                                 *)
LEMMA TakeRequestStep ==
  ASSUME OneLabel, PeerInv', Track, Receive(Replier, Client)
  PROVE  OneLabelInv'
<1> USE TheTwo, TwoTypes
<1>1. toReplier # <<>> /\ pipe' = [pipe EXCEPT ![Client][Replier] = Tail(@)]
      /\ pc' = [pc EXCEPT ![Replier] = "copying"]
      /\ UNCHANGED <<labelBuf, loaded, messageID, open, out>>
  BY DEF Receive, TakePackage, toReplier
<1>2. pc[Replier] = "idle" /\ op' = [op EXCEPT ![Replier] = "service"]
  <2>1. pc[Replier] # "waiting"
    BY DEF OneLabel, OneLabelInv, OneReplierUse, PeerInv, CallOK
  <2> QED
    BY <2>1, OneReplier DEF Receive
<1>3. in[Replier] = None
  BY <1>2 DEF OneLabel, PeerInv, CallOK
<1> DEFINE first == Head(toReplier)
<1>4. PICK label \in (IF first.shared THEN BufferReads(Client) ELSE Memory(Replier)) :
        in' = [in EXCEPT ![Replier] = [shared |-> first.shared, body |-> first.body,
                                       sent |-> first.sent, seen |-> label]]
  BY DEF Receive, TakePackage, toReplier
<1>5. /\ toReplier' = Tail(toReplier) /\ toClient' = toClient
      /\ \A q \in Peers : pipe'[q][Client] = pipe[q][Client]
      /\ \A p, q \in Peers : pipe'[p][q] = pipe[p][q] \/ (p = Client /\ q = Replier)
  BY <1>1 DEF toReplier, toClient
<1>6. answers'[Replier][Client] = answers[Replier][Client] /\ answered' = answered
  BY <1>5, TrackFacts
<1>7. OneReplierUse'
  <2>1. \A p \in Peers \ {Replier} : pc'[p] = pc[p] /\ op'[p] = op[p] /\ out'[p] = out[p]
    BY <1>1, <1>2
  <2>2. op'[Replier] = "service"
    BY <1>2
  <2> QED
    BY <1>1, <1>5, <2>1, <2>2, ReplierUse
<1>8. /\ 1 \in DOMAIN toReplier /\ first = toReplier[1]
      /\ \A i \in DOMAIN toReplier' : i + 1 \in DOMAIN toReplier /\ toReplier'[i] = toReplier[i + 1]
      /\ \A i \in DOMAIN toReplier : i # 1 => i - 1 \in DOMAIN toReplier'
  <2>1. toReplier \in Seq(Package) /\ toReplier # <<>>
    BY <1>1
  <2> QED
    BY ONLY <1>5, <2>1
<1>9. DOMAIN toReplier \subseteq Nat /\ DOMAIN toReplier' \subseteq Nat /\ first \in Package
  BY <1>1, <1>5, <1>8
<1> HIDE DEF first
<1>10. /\ in'[Replier] # None /\ in'[Replier].shared = first.shared
       /\ in'[Replier].sent = first.sent /\ in'[Replier].seen = label
       /\ in'[Client] = in[Client] /\ pc'[Client] = pc[Client] /\ pc'[Replier] = "copying"
  BY <1>1, <1>4 DEF PeerInv, CallOK
<1>11. NotAtHand => NotAtHand'
  BY <1>1, <1>10 DEF NotAtHand
<1>12. (NoneBack => NoneBack') /\ (NoneSent => NoneSent')
  BY <1>5, <1>6, <1>8 DEF NoneBack, NoneSent
<1>13. Ignoring /\ ~first.shared /\ labelBuf[Replier] # Uninit => Ignoring'
  BY <1>1, <1>4, <1>10 DEF Ignoring, IsReply, Memory
<1>14. NoneSent => ~first.shared
  BY <1>8 DEF NoneSent
<1>15. Phase'
  <2>1. CASE loaded[Client] /\ LabelAtHand
    <3>1. labelBuf[Replier] # Uninit /\ Ignoring' /\ NoneSent' /\ NoneBack'
      BY <1>1, <1>12, <1>13, <1>14, <2>1 DEF LabelAtHand
    <3> QED
      BY <1>1, <1>10, <2>1, <3>1 DEF LabelAtHand, Phase
  <2>2. CASE LabelSent
    <3>1. PICK j \in DOMAIN toReplier :
            /\ \A i \in DOMAIN toReplier : toReplier[i].shared <=> i = j
            /\ labelBuf[Replier] = Uninit => j = 1
            /\ messageID[Replier] < toReplier[j].sent.messageID
      BY <2>2 DEF LabelSent
    <3>2. NotAtHand' /\ NoneBack'
      BY <1>11, <1>12, <2>2 DEF LabelSent
    <3>3. CASE j = 1
      <4>1. first.shared /\ label \in BufferReads(Client)
        BY <1>4, <1>8, <3>1, <3>3
      <4>2. FromClient(label)
        <5>1. Memory(Client) \subseteq Label /\ \A l \in Memory(Client) : FromClient(l)
          BY <2>2, LabelAssumption, PeerAssumption DEF LabelSent, Memory, FromClient
        <5>2. pc[Client] # "copying"
          BY <2>2 DEF LabelSent, NotAtHand, OneLabel, PeerInv, CallOK
        <5>3. BeingWritten(Client) \subseteq Label /\ \A l \in BeingWritten(Client) : FromClient(l)
          BY <5>2, WritesRequest DEF BeingWritten
        <5>4. label \in Torn(Memory(Client) \cup BeingWritten(Client))
          BY <4>1 DEF BufferReads
        <5> QED
          BY <5>1, <5>3, <5>4, TornRequest
      <4>3. NoneSent'
        <5> SUFFICES ASSUME NEW i \in DOMAIN toReplier'
                     PROVE  ~toReplier'[i].shared
          BY DEF NoneSent
        <5>1. i + 1 \in DOMAIN toReplier /\ toReplier'[i] = toReplier[i + 1]
          BY ONLY <1>8, i \in DOMAIN toReplier'
        <5>2. i \in 1 .. Len(toReplier')
          BY ONLY <1>5, <1>1, TwoTypes, OneLabel, HeadTailProperties, LenProperties
        <5>3. i + 1 # 1
          BY ONLY <5>2
        <5> QED
          BY <3>1, <3>3, <5>1, <5>3
      <4>4. /\ messageID[Replier] < first.sent.messageID
            /\ first.sent.messageID <= messageID[Client]
        BY <1>8, <3>1, <3>3 DEF OneLabel, OneLabelInv, OneReplierUse
      <4>5. FromClient(in[Replier].seen)'
        BY <1>10, <4>2 DEF FromClient, IsReply
      <4> QED
        BY <1>1, <1>10, <3>2, <4>1, <4>3, <4>4, <4>5 DEF LabelReceived, Phase
    <3>4. CASE j # 1
      <4>1. ~first.shared /\ Ignoring'
        BY <1>8, <1>13, <2>2, <3>1, <3>4 DEF LabelSent
      <4>2. j - 1 \in DOMAIN toReplier' /\ toReplier'[j - 1] = toReplier[j]
        <5>1. j \in Nat /\ j - 1 \in DOMAIN toReplier'
          BY <1>8, <1>9, <3>4
        <5>2. toReplier'[j - 1] = toReplier[(j - 1) + 1] /\ (j - 1) + 1 = j
          BY <1>8, <5>1
        <5> QED
          BY <5>1, <5>2
      <4>3. \A i \in DOMAIN toReplier' : toReplier'[i].shared <=> i = j - 1
        <5> TAKE i \in DOMAIN toReplier'
        <5>1. i \in Nat /\ j \in Nat
          BY <1>9
        <5>2. i + 1 = j <=> i = j - 1
          BY ONLY <5>1
        <5> QED
          BY <1>8, <3>1, <5>2
      <4>4. FromClient(labelBuf[Client])' /\ labelBuf'[Replier] # Uninit
            /\ messageID'[Replier] < toReplier'[j - 1].sent.messageID
        BY <1>1, <2>2, <3>1, <3>4, <4>2 DEF LabelSent, FromClient, IsReply
      <4> QED
        BY <3>2, <4>1, <4>2, <4>3, <4>4 DEF LabelSent, Phase
    <3> QED
      BY <3>3, <3>4
  <2>3. ~LabelReceived /\ ~LabelReturning
    BY <1>2, <1>3 DEF LabelReceived, LabelReturning
  <2>4. CASE LabelReplied
    <3>1. Ignoring' /\ NoneSent' /\ NotAtHand'
      BY <1>11, <1>12, <1>13, <1>14, <2>4 DEF LabelReplied
    <3> QED
      BY <1>1, <1>5, <1>6, <2>4, <3>1 DEF LabelReplied, Phase
  <2>5. CASE LabelBack
    <3>1. Ignoring' /\ NoneSent' /\ NoneBack'
      BY <1>12, <1>13, <1>14, <2>5 DEF LabelBack
    <3> QED
      BY <1>1, <1>6, <1>10, <2>5, <3>1 DEF LabelBack, Phase
  <2> QED
    BY <2>1, <2>2, <2>3, <2>4, <2>5 DEF OneLabel, OneLabelInv
<1> QED
  BY <1>7, <1>15 DEF OneLabelInv, Phase

(* The replier has no handler for what its own buffer names: it drops it.  *)
LEMMA DropStep ==
  ASSUME OneLabel, PeerInv', Track, Ignoring, ReplierDrops
  PROVE  OneLabelInv'
<1> USE TheTwo, TwoTypes
<1>1. pc[Replier] = "copying" /\ in[Replier] # None
  BY DEF ReplierDrops, DropUnknown, HandlePull, HandleSubscription, Dispatches, OneLabel, PeerInv,
     CallOK
<1>2. /\ labelBuf' = [labelBuf EXCEPT ![Replier] = in[Replier].seen]
      /\ loaded' = [loaded EXCEPT ![Replier] = in[Replier].shared]
      /\ in' = [in EXCEPT ![Replier] = None]
      /\ UNCHANGED <<messageID, pipe, open>>
  BY DEF ReplierDrops, DropUnknown, HandlePull, HandleSubscription, Copied, CopiedTo
<1>3. /\ pc' = [pc EXCEPT ![Replier] = "idle"] /\ op' = [op EXCEPT ![Replier] = "none"]
      /\ out' = [out EXCEPT ![Replier] = <<>>]
  BY DEF ReplierDrops, DropUnknown, HandlePull, HandleSubscription, EndCall
<1>4. labelBuf' = labelBuf /\ labelBuf[Replier] # Uninit
  BY <1>1, <1>2 DEF Ignoring
<1>5. toReplier' = toReplier /\ toClient' = toClient
  BY <1>2 DEF toReplier, toClient
<1>6. answers'[Replier][Client] = answers[Replier][Client] /\ answered' = answered
  BY <1>2, <1>5, TrackFacts
<1>7. OneReplierUse'
  BY <1>2, <1>3, <1>4, <1>5, ReplierUse
<1>8. Ignoring' /\ in'[Client] = in[Client] /\ loaded'[Client] = loaded[Client]
      /\ pc'[Client] = pc[Client]
  BY <1>2, <1>3, <1>4 DEF Ignoring, IsReply
<1>9. (NotAtHand => NotAtHand') /\ (NoneSent => NoneSent') /\ (NoneBack => NoneBack')
  BY <1>5, <1>6, <1>8 DEF NotAtHand, NoneSent, NoneBack
<1>10. Phase'
  <2>1. CASE loaded[Client] /\ LabelAtHand
    BY <1>2, <1>4, <1>5, <1>8, <1>9, <2>1 DEF LabelAtHand, Phase
  <2>2. CASE LabelSent
    BY <1>2, <1>4, <1>5, <1>8, <1>9, <2>2 DEF LabelSent, Phase, FromClient, IsReply
  <2>3. ~LabelReceived /\ ~LabelReturning
    BY <1>1 DEF LabelReceived, LabelReturning, Ignoring
  <2>4. CASE LabelReplied
    BY <1>2, <1>4, <1>5, <1>6, <1>8, <1>9, <2>4 DEF LabelReplied, Phase
  <2>5. CASE LabelBack
    BY <1>2, <1>4, <1>6, <1>8, <1>9, <2>5 DEF LabelBack, Phase
  <2> QED
    BY <2>1, <2>2, <2>3, <2>4, <2>5 DEF OneLabel, OneLabelInv
<1> QED
  BY <1>7, <1>10 DEF OneLabelInv, Phase

(* The replier answers the request that brought the label.                 *)
LEMMA ReplyStep ==
  ASSUME OneLabel, PeerInv', Track, LabelReceived, HandleReply(Replier)
  PROVE  OneLabelInv'
<1> USE TheTwo, TwoTypes
<1>1. pc[Replier] = "copying" /\ op[Replier] = "service"
  BY DEF HandleReply, Dispatches
<1> DEFINE reply == Swap(in[Replier].seen)
<1>2. /\ labelBuf' = [labelBuf EXCEPT ![Replier] = in[Replier].seen]
      /\ loaded' = [loaded EXCEPT ![Replier] = in[Replier].shared]
      /\ in' = [in EXCEPT ![Replier] = None]
      /\ UNCHANGED <<messageID, pipe, open>>
  BY DEF HandleReply, Copied, CopiedTo
<1>3. /\ pc' = [pc EXCEPT ![Replier] = "writing"] /\ op' = [op EXCEPT ![Replier] = "service"]
      /\ out' = [out EXCEPT ![Replier] = <<reply>>]
  BY OneReplier DEF HandleReply, BeginSend
<1>4. toReplier' = toReplier /\ toClient' = toClient
  BY <1>2 DEF toReplier, toClient
<1>5. answers'[Replier][Client] = answers[Replier][Client]
      /\ answering'[Replier] = in[Replier].sent.messageID
  BY <1>1, <1>4, TrackFacts
<1>6. OneReplierUse'
  BY <1>2, <1>3, <1>4, ReplierUse
<1>7. reply \in Label /\ reply.destPeer = Client /\ ~IsReply(reply)
  <2>1. FromClient(in[Replier].seen)
    BY DEF LabelReceived
  <2>2. reply.destPeer = in[Replier].seen.srcPeer
    BY <2>1 DEF FromClient, Swap, Label
  <2> QED
    BY <2>1, <2>2, SwapType DEF FromClient
<1> HIDE DEF reply
<1>8. answering'[Replier] \in 0 .. messageID'[Client] /\ messageID'[Replier] < answering'[Replier]
  <2>1. in[Replier] \in Delivery
    BY DEF LabelReceived
  <2>2. in[Replier].sent.messageID \in Nat
    BY <2>1 DEF Delivery, Label, MessageIDs
  <2> QED
    BY <1>2, <1>5, <2>2 DEF LabelReceived
<1>9. NotAtHand' /\ NoneSent' /\ NoneBack'
  BY <1>2, <1>4, <1>5 DEF LabelReceived, NotAtHand, NoneSent, NoneBack
<1>10. in'[Replier] = None /\ loaded'[Replier] /\ out'[Replier] = <<reply>> /\ pc'[Replier] = "writing"
  BY <1>2, <1>3 DEF LabelReceived
<1>11. LabelReturning'
  BY <1>7, <1>8, <1>9, <1>10 DEF LabelReturning, IsReply
<1> QED
  BY <1>6, <1>11 DEF OneLabelInv

LEMMA ReplierWritesStep ==
  ASSUME OneLabel, PeerInv', Track, WriteLabel(Replier)
  PROVE  OneLabelInv'
<1> USE TheTwo, TwoTypes
<1>1. /\ pc[Replier] = "writing" /\ pc' = [pc EXCEPT ![Replier] = "sending"]
      /\ labelBuf' = [labelBuf EXCEPT ![Replier] = Stamped(Replier)]
      /\ messageID' = [messageID EXCEPT ![Replier] = NextID(messageID[Replier])]
      /\ UNCHANGED <<loaded, pipe, open, in, op, out>>
  BY DEF WriteLabel, calling
<1>2. LabelReturning /\ op[Replier] = "service" /\ ~IsReply(Stamped(Replier))
      /\ Stamped(Replier).messageID = NextID(messageID[Replier])
  BY <1>1, SendsReply
<1>3. messageID[Replier] < answering[Replier] /\ answering[Replier] \in 0 .. messageID[Client]
  BY <1>1, <1>2 DEF LabelReturning
<1>4. NextID(messageID[Replier]) = messageID[Replier] + 1
  <2>1. messageID[Client] <= MaxRequests /\ MaxRequests \in Nat
    BY TimedAssumption DEF OneLabel, OneLabelInv, OneReplierUse
  <2>2. messageID[Replier] < MaxRequests
    BY <1>3, <2>1
  <2> QED
    BY <2>2, CountsOn
<1>5. toReplier' = toReplier /\ toClient' = toClient
  BY <1>1 DEF toReplier, toClient
<1>6. answers'[Replier][Client] = answers[Replier][Client] /\ answering'[Replier] = answering[Replier]
  BY <1>1, <1>5, TrackFacts
<1>7. OneReplierUse'
  BY <1>1, <1>2, <1>5, ReplierUse
<1>8. NotAtHand' /\ NoneSent' /\ NoneBack'
  BY <1>1, <1>2, <1>5, <1>6 DEF LabelReturning, NotAtHand, NoneSent, NoneBack
<1>9. messageID'[Replier] = messageID[Replier] + 1 /\ messageID'[Client] = messageID[Client]
      /\ labelBuf'[Replier] = Stamped(Replier) /\ pc'[Replier] = "sending"
  BY <1>1, <1>4
<1>10. messageID'[Replier] <= answering'[Replier]
  BY <1>3, <1>6, <1>9
<1>11. ~IsReply(labelBuf[Replier])' /\ labelBuf'[Replier].messageID = messageID'[Replier]
  BY <1>2, <1>4, <1>9 DEF IsReply
<1>12. LabelReturning'
  BY <1>1, <1>2, <1>3, <1>6, <1>8, <1>9, <1>10, <1>11 DEF LabelReturning, IsReply
<1> QED
  BY <1>7, <1>12 DEF OneLabelInv

LEMMA ReplierSendsStep ==
  ASSUME OneLabel, PeerInv', Track, SendPackage(Replier)
  PROVE  OneLabelInv'
<1> USE TheTwo, TwoTypes
<1> DEFINE package == [shared |-> loaded[Replier], body |-> body[Replier], sent |-> labelBuf[Replier]]
<1>1. pc[Replier] = "sending" /\ labelBuf[Replier] # Uninit
  BY DEF SendPackage, OneLabel, PeerInv, CallOK
<1>2. LabelReturning /\ Dest(Replier) = Client /\ op[Replier] = "service" /\ Len(out[Replier]) = 1
  BY <1>1, SendsReply
<1>3. pipe' = [pipe EXCEPT ![Replier][Client] = Append(@, package)]
  BY <1>2 DEF SendPackage
<1>4. /\ pc' = [pc EXCEPT ![Replier] = "idle"] /\ op' = [op EXCEPT ![Replier] = "none"]
      /\ out' = [out EXCEPT ![Replier] = <<>>] /\ loaded' = [loaded EXCEPT ![Replier] = FALSE]
      /\ UNCHANGED <<labelBuf, messageID, open, in>>
  BY <1>2 DEF SendPackage, PackageTaken, EndCall
<1>5. package.shared
  BY <1>2 DEF LabelReturning
<1>6. toReplier' = toReplier /\ toClient' = Append(toClient, package)
  BY <1>3 DEF toReplier, toClient
<1> HIDE DEF package
<1>7. toClient = <<>> /\ answers[Replier][Client] = <<>> /\ NoneSent /\ NotAtHand
  BY <1>2 DEF LabelReturning, NoneBack
<1>8. toClient' = <<package>>
  BY <1>6, <1>7
<1>9. Len(toClient') = 1 /\ toClient'[1] = package /\ Len(toClient') > Len(toClient)
  BY <1>7, <1>8
<1>10. answers'[Replier][Client] = <<answering[Replier]>>
  <2>1. answers'[Replier][Client] = Append(<<>>, answering[Replier])
    BY <1>7, <1>9, TrackFacts
  <2> QED
    BY <2>1
<1>11. OneReplierUse'
  BY <1>3, <1>4, <1>6, ReplierUse
<1>12. NotAtHand' /\ NoneSent' /\ Ignoring'
  BY <1>1, <1>2, <1>4, <1>6, <1>7 DEF LabelReturning, NotAtHand, NoneSent, Ignoring, IsReply
<1>13. /\ answering[Replier] \in 0 .. messageID'[Client]
       /\ labelBuf'[Replier].messageID <= answering[Replier]
       /\ messageID'[Replier] <= answering[Replier] /\ labelBuf'[Replier] # Uninit
  BY <1>1, <1>2, <1>4 DEF LabelReturning
<1>14. LabelReplied'
  BY <1>5, <1>9, <1>10, <1>12, <1>13 DEF LabelReplied
<1> QED
  BY <1>11, <1>14 DEF OneLabelInv

-----------------------------------------------------------------------------
LEMMA OneLabelInit == TimedInit => OneLabelInv
<1> USE TheTwo
<1> SUFFICES ASSUME TimedInit PROVE OneLabelInv
  OBVIOUS
<1>1. toReplier = <<>> /\ toClient = <<>> /\ messageID[Client] = 0 /\ messageID[Replier] = 0
  BY DEF TimedInit, Init, toReplier, toClient
<1>2. OneReplierUse
  BY <1>1, TimedAssumption DEF TimedInit, Init, OneReplierUse
<1>3. loaded[Client] /\ LabelAtHand
  BY <1>1 DEF TimedInit, Init, LabelAtHand, Ignoring, NoneSent, NoneBack
<1> QED
  BY <1>2, <1>3 DEF OneLabelInv

LEMMA OneLabelNext ==
  ASSUME PeerInv, OneLabelInv, [TimedNext]_timedVars
  PROVE  OneLabelInv'
<1>1. OneLabel
  BY DEF OneLabel
<1>2. PeerInv'
  BY TimedAssumption, TimedStep, NextInv
<1> QED
  BY <1>1, <1>2, OneReplierSteps, RequestStep, WriteStep, SendStep, EndStep, GiveUpStep,
     TakeReplyStep, TakeRequestStep, ReplierWritesStep, ReplierSendsStep, ReplyStep, DropStep, NoStep

(* Between a client and its replier there is one label: whatever was given *)
(* up and sent again meanwhile, it goes round as OneLabelInv says.         *)
THEOREM OneLabelGoesRound == TimedSpec => []OneLabelInv
  BY OneLabelInit, OneLabelNext, TimedPeerInv, PTL DEF TimedSpec

(* No request ends with the late reply to another (Peer.cpp:133), though   *)
(* the label of that reply may have been overwritten, and though requests  *)
(* and replies are counted by different peers.                             *)
THEOREM RequestsEndWithTheirReply == TimedSpec => []OwnReply
<1>1. ASSUME PeerInv, OneLabelInv, Answering(Client), in[Client].seen.messageID = messageID[Client]
      PROVE  answered = messageID[Client]
  <2>1. in[Client] # None
    BY <1>1, TheTwo DEF Answering, PeerInv, CallOK
  <2>2. LabelBack
    BY <1>1, <2>1 DEF OneLabelInv, LabelAtHand, LabelSent, LabelReceived, LabelReturning,
       LabelReplied, NotAtHand
  <2>3. messageID[Client] \in Nat
    BY <1>1, TwoTypes DEF OneLabel
  <2>4. answered \in Int /\ answered <= messageID[Client] /\ messageID[Client] <= answered
    <3>1. in[Client].seen.messageID <= answered /\ answered \in 0 .. messageID[Client]
      BY <2>2 DEF LabelBack
    <3>2. messageID[Client] <= answered
      BY <1>1, <3>1
    <3> QED
      BY ONLY <2>3, <3>1, <3>2
  <2> QED
    BY ONLY <2>3, <2>4
<1>2. PeerInv /\ OneLabelInv => OwnReply
  BY <1>1 DEF OwnReply
<1> QED
  BY <1>2, OneLabelGoesRound, TimedPeerInv, PTL

=============================================================================
