----------------------------- MODULE PeerProofs -----------------------------
(***************************************************************************)
(* Proofs about the peers, for any number of peers and interfaces, any     *)
(* pipe capacity and any use of the API.                                   *)
(***************************************************************************)
EXTENDS Promises, SequenceTheorems, FiniteSetTheorems, TLAPS

USE LabelAssumption, PeerAssumption

(* The counter stays in the width of its field.                            *)
LEMMA NextIDType == \A id \in MessageIDs : NextID(id) \in MessageIDs
  BY DEF NextID, MessageIDs

LEMMA MoreThanOne == \A n \in Nat : n > 1 => n # 1 /\ n - 1 # 0
  OBVIOUS

LEMMA SwapType == \A label \in Label : Swap(label) \in Label
  BY DEF Swap, Label

(* However a label is torn, what is read has the type of a label.          *)
LEMMA TornType == \A labels : Torn(labels) \subseteq Label
  BY DEF Torn

LEMMA StampedType ==
  ASSUME TypeOK, NEW p \in Peers, out[p] # <<>>
  PROVE  Stamped(p) \in Label
<1>1. Head(out[p]) \in Label
  BY DEF TypeOK
<1>2. NextID(messageID[p]) \in MessageIDs
  BY NextIDType DEF TypeOK
<1> QED
  BY <1>1, <1>2 DEF Stamped, Label

-----------------------------------------------------------------------------
(* Each action preserves PeerInv.                                          *)

LEMMA PushInv ==
  ASSUME PeerInv, NEW p \in Peers, Push(p)
  PROVE  PeerInv'
<1>1. PICK label \in App[p].push : BeginSend(p, "push", <<label>>)
  BY DEF Push
<1>2. label \in Label
  BY DEF Application
<1>3. TypeOK'
  BY <1>1, <1>2 DEF Push, PeerInv, TypeOK, BeginSend, Calls
<1>4. CallOK'
  BY <1>1, <1>2 DEF Push, PeerInv, TypeOK, CallOK, BeginSend
<1> QED
  BY <1>3, <1>4 DEF PeerInv

LEMMA RequestInv ==
  ASSUME PeerInv, NEW p \in Peers, Request(p)
  PROVE  PeerInv'
<1>1. PICK label \in App[p].request : BeginSend(p, "request", <<label>>)
  BY DEF Request
<1>2. label \in Label
  BY DEF Application
<1>3. TypeOK'
  BY <1>1, <1>2 DEF Request, PeerInv, TypeOK, BeginSend, Calls
<1>4. CallOK'
  BY <1>1, <1>2 DEF Request, PeerInv, TypeOK, CallOK, BeginSend
<1> QED
  BY <1>3, <1>4 DEF PeerInv

LEMMA PublishInv ==
  ASSUME PeerInv, NEW p \in Peers, Publish(p)
  PROVE  PeerInv'
<1>1. PICK topic \in App[p].publish :
        pub_map[p][topic] # <<>> /\ BeginSend(p, "publish", pub_map[p][topic])
  BY DEF Publish
<1>2. topic \in InterfaceIDs
  BY DEF Application
<1>3. pub_map[p][topic] \in Seq(Label)
  BY <1>2 DEF PeerInv, TypeOK
<1>4. TypeOK'
  BY <1>1, <1>3 DEF Publish, PeerInv, TypeOK, BeginSend, Calls
<1>5. CallOK'
  BY <1>1, <1>3 DEF Publish, PeerInv, TypeOK, CallOK, BeginSend
<1> QED
  BY <1>4, <1>5 DEF PeerInv

LEMMA WriteLabelInv ==
  ASSUME PeerInv, NEW p \in Peers, WriteLabel(p)
  PROVE  PeerInv'
<1>1. Stamped(p) \in Label
  BY StampedType DEF WriteLabel, PeerInv, CallOK
<1>2. NextID(messageID[p]) \in MessageIDs
  BY NextIDType DEF PeerInv, TypeOK
<1>3. TypeOK'
  BY <1>1, <1>2 DEF WriteLabel, PeerInv, TypeOK, calling
<1>4. CallOK'
  BY <1>1 DEF WriteLabel, PeerInv, TypeOK, CallOK, calling
<1> QED
  BY <1>3, <1>4 DEF PeerInv

LEMMA PackageTakenInv ==
  ASSUME PeerInv, NEW p \in Peers, pc[p] = "sending", PackageTaken(p),
         pipe' \in [Peers -> [Peers -> Seq(Package)]],
         UNCHANGED <<labelBuf, messageID, pub_map, open, in>>
  PROVE  PeerInv'
<1> DEFINE taken == UNCHANGED <<labelBuf, messageID, pub_map, open, in>>
                    /\ loaded' = [loaded EXCEPT ![p] = FALSE]
<1>1. taken
  BY DEF PackageTaken
<1>2. out[p] \in Seq(Label) /\ Len(out[p]) \in Nat
  BY DEF PeerInv, TypeOK
<1>3. CASE op[p] = "request"
  <2>1. /\ pc' = [pc EXCEPT ![p] = "waiting"] /\ body' = [body EXCEPT ![p] = FALSE]
        /\ op' = op /\ out' = out
    BY <1>3 DEF PackageTaken
  <2>2. TypeOK'
    BY <1>1, <2>1 DEF PeerInv, TypeOK
  <2>3. CallOK'
    BY <1>1, <1>3, <2>1 DEF PeerInv, TypeOK, CallOK
  <2> QED
    BY <2>2, <2>3 DEF PeerInv
<1>4. CASE op[p] # "request" /\ Len(out[p]) > 1
  <2>1. /\ pc' = [pc EXCEPT ![p] = "writing"] /\ body' = [body EXCEPT ![p] = FALSE]
        /\ op' = op /\ out' = [out EXCEPT ![p] = Tail(out[p])]
    <3>1. Len(out[p]) # 1
      BY <1>2, <1>4, MoreThanOne
    <3> QED
      BY <1>4, <3>1 DEF PackageTaken
  <2>2. out[p] # <<>>
    BY <1>4, EmptySeq
  <2>3. Tail(out[p]) \in Seq(Label) /\ Len(Tail(out[p])) = Len(out[p]) - 1
    BY <1>2, <2>2, HeadTailProperties
  <2>4. Tail(out[p]) # <<>>
    <3>1. Len(Tail(out[p])) # 0
      BY <1>2, <1>4, <2>3, MoreThanOne
    <3> QED
      BY <3>1, EmptySeq
  <2>5. TypeOK'
    BY <1>1, <2>1, <2>3 DEF PeerInv, TypeOK
  <2>6. CallOK'
    BY <1>1, <1>4, <2>1, <2>4 DEF PeerInv, TypeOK, CallOK
  <2> QED
    BY <2>5, <2>6 DEF PeerInv
<1>5. CASE op[p] # "request" /\ Len(out[p]) = 1
  <2>1. EndCall(p)
    BY <1>2, <1>5 DEF PackageTaken
  <2>2. TypeOK'
    BY <1>1, <2>1 DEF PeerInv, TypeOK, EndCall, Calls
  <2>3. CallOK'
    BY <1>1, <2>1 DEF PeerInv, TypeOK, CallOK, EndCall
  <2> QED
    BY <2>2, <2>3 DEF PeerInv
<1> QED
  BY <1>3, <1>4, <1>5 DEF PackageTaken

LEMMA SendPackageInv ==
  ASSUME PeerInv, NEW p \in Peers, SendPackage(p)
  PROVE  PeerInv'
<1>1. Dest(p) \in Peers
  <2>1. out[p] \in Seq(Label) /\ out[p] # <<>>
    BY DEF SendPackage, PeerInv, TypeOK, CallOK
  <2>2. Head(out[p]) \in Label
    BY <2>1, HeadTailProperties
  <2> QED
    BY <2>2 DEF Dest, Label
<1>2. [shared |-> loaded[p], body |-> body[p], sent |-> labelBuf[p]] \in Package
  BY DEF SendPackage, PeerInv, TypeOK, CallOK, Package
<1>3. pipe' \in [Peers -> [Peers -> Seq(Package)]]
  BY <1>1, <1>2 DEF SendPackage, PeerInv, TypeOK
<1> QED
  BY <1>3, PackageTakenInv DEF SendPackage

LEMMA SendLostInv ==
  ASSUME PeerInv, NEW p \in Peers, SendLost(p)
  PROVE  PeerInv'
<1>1. pipe' \in [Peers -> [Peers -> Seq(Package)]]
  BY DEF SendLost, PeerInv, TypeOK
<1> QED
  BY <1>1, PackageTakenInv DEF SendLost

(* A call that is not in the middle of a receive may end anywhere.         *)
LEMMA EndCallInv ==
  ASSUME PeerInv, NEW p \in Peers, pc[p] # "copying", EndCall(p),
         UNCHANGED <<labelBuf, loaded, messageID, pub_map, pipe, open, in>>
  PROVE  PeerInv'
<1>1. TypeOK'
  BY DEF PeerInv, TypeOK, EndCall, Calls
<1>2. CallOK'
  BY DEF PeerInv, TypeOK, CallOK, EndCall
<1> QED
  BY <1>1, <1>2 DEF PeerInv

LEMMA SendThrowsInv ==
  ASSUME PeerInv, NEW p \in Peers, SendThrows(p)
  PROVE  PeerInv'
  BY EndCallInv DEF SendThrows

LEMMA RequestTimeoutInv ==
  ASSUME PeerInv, NEW p \in Peers, RequestTimeout(p)
  PROVE  PeerInv'
  BY EndCallInv DEF RequestTimeout

LEMMA ClosePortInv ==
  ASSUME PeerInv, NEW p \in Peers, ClosePort(p)
  PROVE  PeerInv'
<1>1. pipe' \in [Peers -> [Peers -> Seq(Package)]]
  BY DEF ClosePort, PeerInv, TypeOK
<1>2. TypeOK'
  BY <1>1 DEF ClosePort, PeerInv, TypeOK, calling
<1>3. CallOK'
  BY DEF ClosePort, PeerInv, TypeOK, CallOK, calling
<1> QED
  BY <1>2, <1>3 DEF PeerInv

-----------------------------------------------------------------------------
(* Receiving                                                               *)

LEMMA BufferReadsType ==
  ASSUME PeerInv, NEW p \in Peers
  PROVE  BufferReads(p) \subseteq Label /\ Memory(p) \subseteq Label
  BY TornType DEF BufferReads, Memory, PeerInv, TypeOK

LEMMA ReceiveInv ==
  ASSUME PeerInv, NEW p \in Peers, NEW q \in Peers, Receive(p, q)
  PROVE  PeerInv'
<1> DEFINE package == Head(pipe[q][p])
<1>1. package \in Package
  BY DEF Receive, TakePackage, PeerInv, TypeOK
<1>2. PICK label \in (IF package.shared THEN BufferReads(q) ELSE Memory(p)) :
        in' = [in EXCEPT ![p] = [shared |-> package.shared, body |-> package.body,
                                 sent |-> package.sent, seen |-> label]]
  BY DEF Receive, TakePackage
<1>3. [shared |-> package.shared, body |-> package.body,
       sent |-> package.sent, seen |-> label] \in Delivery
  BY <1>1, BufferReadsType DEF Package, Delivery
<1>4. in' \in [Peers -> Delivery \cup {None}] /\ in'[p] # None /\ \A r \in Peers \ {p} : in'[r] = in[r]
  BY <1>2, <1>3 DEF PeerInv, TypeOK
<1>5. pipe' \in [Peers -> [Peers -> Seq(Package)]]
  BY DEF Receive, TakePackage, PeerInv, TypeOK
<1>6. /\ op' \in [Peers -> Calls] /\ op'[p] \in {"request", "service", "get"}
      /\ (op'[p] = "request" => op[p] = "request")
      /\ \A r \in Peers \ {p} : op'[r] = op[r]
  BY DEF Receive, PeerInv, TypeOK, CallOK, Calls
<1>7. pc' = [pc EXCEPT ![p] = "copying"]
  BY DEF Receive, TakePackage
<1>8. TypeOK'
  BY <1>4, <1>5, <1>6, <1>7 DEF Receive, PeerInv, TypeOK
<1>9. CallOK'
  BY <1>4, <1>6, <1>7 DEF Receive, PeerInv, TypeOK, CallOK
<1> QED
  BY <1>8, <1>9 DEF PeerInv

(* What the end of a receive leaves of PeerInv to the rest of the handler. *)
LEMMA CopiedType ==
  ASSUME PeerInv, NEW p \in Peers, Copied(p)
  PROVE  /\ pc[p] = "copying" /\ in[p] \in Delivery /\ in[p].seen \in Label
         /\ labelBuf' \in [Peers -> Label \cup {Uninit}]
         /\ \A r \in Peers : labelBuf[r] # Uninit => labelBuf'[r] # Uninit
         /\ loaded' \in [Peers -> BOOLEAN]
         /\ in' \in [Peers -> Delivery \cup {None}] /\ in' = [in EXCEPT ![p] = None]
         /\ UNCHANGED <<messageID, pipe, open>>
<1>1. pc[p] = "copying" /\ in[p] \in Delivery
  BY DEF Copied, CopiedTo, PeerInv, TypeOK, CallOK
<1>2. in[p].seen \in Label /\ in[p].shared \in BOOLEAN
  BY <1>1 DEF Delivery
<1>3. /\ labelBuf' = [labelBuf EXCEPT ![p] = in[p].seen]
      /\ loaded' = [loaded EXCEPT ![p] = in[p].shared]
      /\ in' = [in EXCEPT ![p] = None]
      /\ UNCHANGED <<messageID, pipe, open>>
  BY DEF Copied, CopiedTo
<1>4. in[p].seen # Uninit
  BY <1>2
<1> QED
  BY <1>1, <1>2, <1>3, <1>4 DEF PeerInv, TypeOK

LEMMA CopiedEndInv ==
  ASSUME PeerInv, NEW p \in Peers, Copied(p), EndCall(p),
         pub_map' \in [Peers -> [InterfaceIDs -> Seq(Label)]]
  PROVE  PeerInv'
<1>1. TypeOK'
  <2>1. /\ pc' \in [Peers -> {"idle", "writing", "sending", "waiting", "copying"}]
        /\ op' \in [Peers -> Calls] /\ out' \in [Peers -> Seq(Label)]
        /\ body' \in [Peers -> BOOLEAN]
    BY DEF PeerInv, TypeOK, EndCall, Calls
  <2>2. /\ messageID' \in [Peers -> MessageIDs] /\ open' \in [Peers -> BOOLEAN]
        /\ pipe' \in [Peers -> [Peers -> Seq(Package)]]
    BY CopiedType DEF PeerInv, TypeOK
  <2>3. /\ labelBuf' \in [Peers -> Label \cup {Uninit}] /\ loaded' \in [Peers -> BOOLEAN]
        /\ in' \in [Peers -> Delivery \cup {None}]
    BY CopiedType
  <2> QED
    BY <2>1, <2>2, <2>3 DEF TypeOK
<1>2. CallOK'
  BY CopiedType DEF PeerInv, TypeOK, CallOK, EndCall
<1> QED
  BY <1>1, <1>2 DEF PeerInv

LEMMA ReturnPackageInv ==
  ASSUME PeerInv, NEW p \in Peers, ReturnPackage(p) \/ DropUnknown(p) \/ HandlePull(p) \/ AcceptReply(p)
  PROVE  PeerInv'
<1>1. Copied(p) /\ EndCall(p) /\ UNCHANGED pub_map
  BY DEF ReturnPackage, DropUnknown, HandlePull, AcceptReply
<1>2. pub_map' \in [Peers -> [InterfaceIDs -> Seq(Label)]]
  BY <1>1 DEF PeerInv, TypeOK
<1> QED
  BY <1>1, <1>2, CopiedEndInv

LEMMA HandleReplyInv ==
  ASSUME PeerInv, NEW p \in Peers, HandleReply(p)
  PROVE  PeerInv'
<1>1. Copied(p) /\ op[p] = "service" /\ UNCHANGED pub_map
  BY DEF HandleReply, Dispatches
<1>2. CASE EndCall(p)
  <2>1. pub_map' \in [Peers -> [InterfaceIDs -> Seq(Label)]]
    BY <1>1 DEF PeerInv, TypeOK
  <2> QED
    BY <1>1, <1>2, <2>1, CopiedEndInv
<1>3. CASE BeginSend(p, "service", <<Swap(in[p].seen)>>)
  <2>1. <<Swap(in[p].seen)>> \in Seq(Label) /\ <<Swap(in[p].seen)>> # <<>>
    BY <1>1, CopiedType, SwapType
  <2>2. TypeOK'
    BY <1>1, <1>3, <2>1, CopiedType DEF PeerInv, TypeOK, BeginSend, Calls
  <2>3. CallOK'
    BY <1>1, <1>3, <2>1, CopiedType DEF PeerInv, TypeOK, CallOK, BeginSend
  <2> QED
    BY <2>2, <2>3 DEF PeerInv
<1> QED
  BY <1>2, <1>3 DEF HandleReply

LEMMA HandleSubscriptionInv ==
  ASSUME PeerInv, NEW p \in Peers, HandleSubscription(p)
  PROVE  PeerInv'
<1> DEFINE receipt == Swap(in[p].seen)
<1>1. Copied(p) /\ EndCall(p)
  BY DEF HandleSubscription
<1>2. receipt \in Label
  BY <1>1, CopiedType, SwapType
<1>3. receipt.srcInterface \in InterfaceIDs
  BY <1>2 DEF Label
<1>4. \/ UNCHANGED pub_map
      \/ pub_map' = [pub_map EXCEPT ![p][receipt.srcInterface] = Append(@, receipt)]
  BY DEF HandleSubscription
<1>5. pub_map' \in [Peers -> [InterfaceIDs -> Seq(Label)]]
  <2> HIDE DEF receipt
  <2>1. pub_map \in [Peers -> [InterfaceIDs -> Seq(Label)]]
    BY DEF PeerInv, TypeOK
  <2>2. Append(pub_map[p][receipt.srcInterface], receipt) \in Seq(Label)
    BY <1>2, <1>3, <2>1
  <2>3. CASE UNCHANGED pub_map
    BY <2>1, <2>3
  <2>4. CASE pub_map' = [pub_map EXCEPT ![p][receipt.srcInterface] = Append(@, receipt)]
    BY <1>3, <2>1, <2>2, <2>4
  <2> QED
    BY <1>4, <2>3, <2>4
<1> QED
  BY <1>1, <1>5, CopiedEndInv

LEMMA DropMismatchInv ==
  ASSUME PeerInv, NEW p \in Peers, DropMismatch(p)
  PROVE  PeerInv'
<1>1. Copied(p) /\ op[p] = "request" /\ UNCHANGED pub_map
  BY DEF DropMismatch
<1>2. CASE EndCall(p)
  <2>1. pub_map' \in [Peers -> [InterfaceIDs -> Seq(Label)]]
    BY <1>1 DEF PeerInv, TypeOK
  <2> QED
    BY <1>1, <1>2, <2>1, CopiedEndInv
<1>3. CASE pc' = [pc EXCEPT ![p] = "waiting"] /\ UNCHANGED calling
  <2>1. TypeOK'
    BY <1>1, <1>3, CopiedType DEF PeerInv, TypeOK, calling
  <2>2. CallOK'
    BY <1>1, <1>3, CopiedType DEF PeerInv, TypeOK, CallOK, calling
  <2> QED
    BY <2>1, <2>2 DEF PeerInv
<1> QED
  BY <1>2, <1>3 DEF DropMismatch

-----------------------------------------------------------------------------
LEMMA NextInv ==
  ASSUME PeerInv, [Next]_vars
  PROVE  PeerInv'
<1>1. CASE UNCHANGED vars
  BY <1>1 DEF vars, PeerInv, TypeOK, CallOK
<1>2. CASE Next
  <2>1. PICK p \in Peers :
          \/ Call(p) \/ Send(p) \/ Handle(p) \/ RequestTimeout(p)
          \/ \E q \in Peers : Receive(p, q)
    BY <1>2 DEF Next
  <2>2. CASE Call(p)
    BY <2>2, PushInv, RequestInv, PublishInv, ClosePortInv DEF Call
  <2>3. CASE Send(p)
    BY <2>3, WriteLabelInv, SendPackageInv, SendLostInv, SendThrowsInv DEF Send
  <2>4. CASE Handle(p)
    BY <2>4, ReturnPackageInv, HandleReplyInv, HandleSubscriptionInv, DropMismatchInv DEF Handle
  <2>5. CASE RequestTimeout(p)
    BY <2>5, RequestTimeoutInv
  <2>6. CASE \E q \in Peers : Receive(p, q)
    BY <2>6, ReceiveInv
  <2> QED
    BY <2>1, <2>2, <2>3, <2>4, <2>5, <2>6
<1> QED
  BY <1>1, <1>2

LEMMA InitInv == Init => PeerInv
<1> SUFFICES ASSUME Init PROVE PeerInv
  OBVIOUS
<1>1. 0 \in MessageIDs
  BY DEF MessageIDs
<1>2. TypeOK
  BY <1>1 DEF Init, TypeOK, Calls
<1>3. CallOK
  BY DEF Init, CallOK
<1> QED
  BY <1>2, <1>3 DEF PeerInv

(* The buffers, counters, receipts and pipes of Peer.cpp keep their types  *)
(* and each step of a call finds what it needs, whatever labels are read   *)
(* while another thread writes them: the ID counter wraps within its 32    *)
(* bits and no send is made without a label to send.                       *)
THEOREM PeerInvariant == Spec => []PeerInv
<1>1. Init => PeerInv
  BY InitInv
<1>2. PeerInv /\ [Next]_vars => PeerInv'
  BY NextInv
<1> QED
  BY <1>1, <1>2, PTL DEF Spec

-----------------------------------------------------------------------------
(* Receipts                                                                *)

(* A receipt filed under the topic of the interface that handles it.       *)
LEMMA FiledUnderItsTopic ==
  ASSUME PeerInv, SubscriptionsKeyed, NEW p \in Peers, HandleSubscription(p)
  PROVE  SubscriptionsKeyed'
<1> DEFINE receipt == Swap(in[p].seen)
           topic   == receipt.srcInterface
<1>1. Copied(p) /\ interface_map_[p][in[p].seen.destInterface] = "subscription"
  BY DEF HandleSubscription, Dispatches
<1>2. in[p].seen \in Label /\ receipt \in Label
  BY <1>1, CopiedType, SwapType
<1>3. topic = in[p].seen.destInterface
  BY <1>2 DEF Swap, Label
<1>4. topic \in InterfaceIDs
  BY <1>2 DEF Label
<1>5. pub_map \in [Peers -> [InterfaceIDs -> Seq(Label)]]
  BY DEF PeerInv, TypeOK
<1>6. CASE UNCHANGED pub_map
  BY <1>6 DEF SubscriptionsKeyed
<1>7. CASE pub_map' = [pub_map EXCEPT ![p][topic] = Append(@, receipt)]
  <2> SUFFICES ASSUME NEW r \in Peers, NEW t \in InterfaceIDs, NEW i \in DOMAIN pub_map'[r][t]
               PROVE  interface_map_[r][t] = "subscription" /\ pub_map'[r][t][i].srcInterface = t
    BY DEF SubscriptionsKeyed
  <2>0. topic = receipt.srcInterface
    OBVIOUS
  <2> HIDE DEF receipt, topic
  <2>1. CASE <<r, t>> = <<p, topic>>
    <3> DEFINE old == pub_map[p][topic]
    <3>1. old \in Seq(Label)
      BY <1>4, <1>5
    <3>2. pub_map'[r][t] = Append(old, receipt)
      BY <1>4, <1>5, <1>7, <2>1
    <3>3. \A k \in DOMAIN old : old[k].srcInterface = topic
      BY <1>4 DEF SubscriptionsKeyed
    <3> HIDE DEF old
    <3>4. \/ i \in DOMAIN old /\ Append(old, receipt)[i] = old[i]
          \/ Append(old, receipt)[i] = receipt
      BY <1>2, <3>1, <3>2, AppendProperties
    <3>5. Append(old, receipt)[i].srcInterface = topic
      BY <2>0, <3>3, <3>4
    <3> QED
      BY <1>1, <1>3, <2>1, <3>2, <3>5
  <2>2. CASE <<r, t>> # <<p, topic>>
    <3>1. pub_map'[r][t] = pub_map[r][t]
      BY <1>4, <1>5, <1>7, <2>2
    <3> QED
      BY <3>1 DEF SubscriptionsKeyed
  <2> QED
    BY <2>1, <2>2
<1> QED
  BY <1>6, <1>7 DEF HandleSubscription

LEMMA OthersKeepReceipts ==
  ASSUME NEW p \in Peers, NEW q \in Peers,
         \/ Call(p) \/ Send(p) \/ RequestTimeout(p) \/ Receive(p, q)
         \/ ReturnPackage(p) \/ DropUnknown(p) \/ HandlePull(p) \/ HandleReply(p)
         \/ AcceptReply(p) \/ DropMismatch(p)
  PROVE  UNCHANGED pub_map
  BY DEF Call, Push, Request, Publish, ClosePort, Send, WriteLabel, SendPackage, SendLost,
         SendThrows, RequestTimeout, Receive, ReturnPackage, DropUnknown, HandlePull,
         HandleReply, AcceptReply, DropMismatch

(* Every receipt a peer keeps is filed under the topic it came for, which  *)
(* a subscription interface of that peer handles, even when the label that *)
(* subscribed was torn or stale: Publish never sends on another topic.     *)
THEOREM ReceiptsKeyed == Spec => []SubscriptionsKeyed
<1>1. Init => SubscriptionsKeyed
  BY DEF Init, SubscriptionsKeyed
<1>2. ASSUME PeerInv, SubscriptionsKeyed, [Next]_vars PROVE SubscriptionsKeyed'
  <2>1. CASE UNCHANGED pub_map
    BY <1>2, <2>1 DEF SubscriptionsKeyed
  <2>2. CASE \E p \in Peers : HandleSubscription(p)
    BY <1>2, <2>2, FiledUnderItsTopic
  <2> QED
    BY <1>2, <2>1, <2>2, OthersKeepReceipts DEF Next, Handle, vars
<1> QED
  BY <1>1, <1>2, PeerInvariant, PTL DEF Spec

-----------------------------------------------------------------------------
(* The labels of a network: no call makes a full label.                    *)

AtPeer(p) == IF in[p] = None THEN loaded[p] ELSE in[p].shared

LEMMA Places ==
  /\ \A x, y, a, b, i, j : <<x, a, i>> = <<y, b, j>> <=> (x = y /\ a = b /\ i = j)
  /\ \A x, y : <<x>> = <<y>> <=> x = y
  /\ \A x, y, b, j : <<x>> # <<y, b, j>>
  OBVIOUS

IsPlace(e) ==
  \/ \E p \in Peers : e = <<p>> /\ AtPeer(p)
  \/ \E p, q \in Peers : \E i \in DOMAIN pipe[p][q] :
       e = <<p, q, i>> /\ pipe[p][q][i].shared

LEMMA FullLabelsAre == \A e : e \in FullLabels <=> IsPlace(e)
<1> TAKE e
<1>1. e \in FullLabels => IsPlace(e)
  BY DEF FullLabels, AtPeer, IsPlace
<1>2. ASSUME NEW p \in Peers, e = <<p>>, AtPeer(p) PROVE e \in FullLabels
  BY <1>2 DEF FullLabels, AtPeer
<1>3. ASSUME NEW p \in Peers, NEW q \in Peers, NEW i \in DOMAIN pipe[p][q],
             e = <<p, q, i>>, pipe[p][q][i].shared
      PROVE  e \in FullLabels
  <2> DEFINE places(r, s) == {<<r, s, k>> : k \in {j \in DOMAIN pipe[r][s] : pipe[r][s][j].shared}}
  <2>1. e \in places(p, q)
    BY <1>3
  <2> HIDE DEF places
  <2>2. places(p, q) \in {places(r, s) : r \in Peers, s \in Peers}
    OBVIOUS
  <2>3. e \in UNION {places(r, s) : r \in Peers, s \in Peers}
    BY ONLY <2>1, <2>2
  <2> QED
    BY <2>3 DEF FullLabels, places
<1> QED
  BY <1>1, <1>2, <1>3 DEF IsPlace

LEMMA FullLabelsWillBe == \A e : e \in FullLabels' <=> IsPlace(e)'
<1>1. (\A e : e \in FullLabels <=> IsPlace(e))'
  BY FullLabelsAre, PTL
<1> QED
  BY <1>1

(* One set is no larger than another that it is mapped into.               *)
LEMMA NoMoreThan ==
  ASSUME NEW S, NEW T, IsFiniteSet(T), NEW f \in [S -> T],
         \A a, b \in S : f[a] = f[b] => a = b
  PROVE  IsFiniteSet(S) /\ Cardinality(S) <= Cardinality(T)
<1>1. f \in Injection(S, T)
  BY DEF Injection, IsInjective
<1> QED
  BY <1>1, FS_Injection

Fewer == IsFiniteSet(FullLabels') /\ Cardinality(FullLabels') <= Cardinality(FullLabels)

(* No label moves.                                                         *)
LEMMA LabelsStay ==
  ASSUME IsFiniteSet(FullLabels), \A p \in Peers : AtPeer(p)' => AtPeer(p),
         \A p, q \in Peers : pipe'[p][q] = pipe[p][q] \/ pipe'[p][q] = <<>>
  PROVE  Fewer
<1>1. FullLabels' \subseteq FullLabels
  <2> SUFFICES ASSUME NEW e \in FullLabels' PROVE e \in FullLabels
    OBVIOUS
  <2>1. IsPlace(e)'
    BY FullLabelsWillBe
  <2>2. IsPlace(e)
    BY <2>1 DEF IsPlace
  <2> QED
    BY <2>2, FullLabelsAre
<1> QED
  BY <1>1, FS_Subset DEF Fewer

(* A send gives a full label away, and an empty one makes none.            *)
LEMMA SendMoves ==
  ASSUME PeerInv, IsFiniteSet(FullLabels), NEW p \in Peers, SendPackage(p)
  PROVE  Fewer
<1> DEFINE q == Dest(p)
           n == Len(pipe[p][q]) + 1
           package == [shared |-> loaded[p], body |-> body[p], sent |-> labelBuf[p]]
           f == [e \in FullLabels' |-> IF e = <<p, q, n>> THEN <<p>> ELSE e]
<1>1. pc[p] = "sending" /\ in[p] = None /\ q \in Peers
  <2>1. pc[p] = "sending" /\ in[p] = None /\ out[p] # <<>>
    BY DEF SendPackage, PeerInv, CallOK
  <2>2. Head(out[p]) \in Label
    BY <2>1 DEF PeerInv, TypeOK
  <2> QED
    BY <2>1, <2>2 DEF Dest, Label
<1>2. /\ pipe' = [pipe EXCEPT ![p][q] = Append(@, package)]
      /\ loaded' = [loaded EXCEPT ![p] = FALSE] /\ in' = in
  BY DEF SendPackage, PackageTaken
<1>3. /\ pipe[p][q] \in Seq(Package) /\ package \in Package
  <2>1. labelBuf[p] \in Label /\ loaded[p] \in BOOLEAN /\ body[p] \in BOOLEAN
    BY <1>1 DEF PeerInv, TypeOK, CallOK
  <2>2. package \in Package
    BY <2>1 DEF Package
  <2> HIDE DEF q
  <2> QED
    BY <1>1, <2>2 DEF PeerInv, TypeOK
<1>4. /\ \A r, s \in Peers : (r = p /\ s = q) \/ pipe'[r][s] = pipe[r][s]
      /\ pipe'[p][q] = Append(pipe[p][q], package)
  BY <1>1, <1>2 DEF PeerInv, TypeOK
<1>5. package.shared = loaded[p]
  OBVIOUS
<1> HIDE DEF q, package
<1>6. /\ \A i \in DOMAIN pipe'[p][q] : i # n => i \in DOMAIN pipe[p][q] /\ pipe'[p][q][i] = pipe[p][q][i]
      /\ n \in DOMAIN pipe'[p][q] => pipe'[p][q][n] = package
      /\ n \notin DOMAIN pipe[p][q]
  BY ONLY <1>3, <1>4
<1> HIDE DEF n
<1>7. (\A r \in Peers : AtPeer(r)' => r # p /\ AtPeer(r)) /\ (loaded[p] => AtPeer(p))
  BY <1>1, <1>2 DEF AtPeer, PeerInv, TypeOK
<1>8. ASSUME NEW e \in FullLabels' PROVE IF e = <<p, q, n>> THEN loaded[p] ELSE e \in FullLabels
  <2>1. IsPlace(e)'
    BY FullLabelsWillBe
  <2>2. CASE \E r \in Peers : e = <<r>> /\ AtPeer(r)'
    <3>1. IsPlace(e) /\ e # <<p, q, n>>
      BY <1>7, <2>2, Places DEF IsPlace
    <3> QED
      BY <3>1, FullLabelsAre
  <2>3. ASSUME NEW r \in Peers, NEW s \in Peers, NEW i \in DOMAIN pipe'[r][s],
               e = <<r, s, i>>, pipe'[r][s][i].shared
        PROVE  IF e = <<p, q, n>> THEN loaded[p] ELSE e \in FullLabels
    <3>1. CASE e = <<p, q, n>>
      <4>1. r = p /\ s = q /\ i = n
        BY <2>3, <3>1, Places
      <4> QED
        BY <1>5, <1>6, <2>3, <3>1, <4>1
    <3>2. CASE e # <<p, q, n>>
      <4>1. i \in DOMAIN pipe[r][s] /\ pipe[r][s][i].shared
        BY <1>4, <1>6, <2>3, <3>2
      <4>2. IsPlace(e)
        BY <2>3, <4>1 DEF IsPlace
      <4> QED
        BY <3>2, <4>2, FullLabelsAre
    <3> QED
      BY <3>1, <3>2
  <2> QED
    BY <2>1, <2>2, <2>3 DEF IsPlace
<1>9. f \in [FullLabels' -> FullLabels]
  <2>1. loaded[p] => <<p>> \in FullLabels
    BY <1>7, FullLabelsAre DEF IsPlace
  <2> QED
    BY <1>8, <2>1
<1>10. \A a, b \in FullLabels' : f[a] = f[b] => a = b
  <2>1. <<p>> \notin FullLabels'
    <3>1. ~IsPlace(<<p>>)'
      BY <1>7, Places DEF IsPlace
    <3> QED
      BY <3>1, FullLabelsWillBe
  <2> QED
    BY <2>1
<1> HIDE DEF f
<1> QED
  BY <1>9, <1>10, NoMoreThan DEF Fewer

(* Whoever receives a full label has it from the pipe; those behind it     *)
(* move up.                                                                *)
LEMMA ReceiveMoves ==
  ASSUME PeerInv, PeerInv', IsFiniteSet(FullLabels),
         NEW p \in Peers, NEW q \in Peers, Receive(p, q)
  PROVE  Fewer
<1> DEFINE first == Head(pipe[q][p])
           InPipe(e) == \E i \in Nat : e = <<q, p, i>>
           f == [e \in FullLabels' |-> CASE e = <<p>>  -> <<q, p, 1>>
                                         [] InPipe(e)  -> <<q, p, e[3] + 1>>
                                         [] OTHER      -> e]
<1>1. pipe[q][p] \in Seq(Package) /\ pipe[q][p] # <<>>
  BY DEF Receive, TakePackage, PeerInv, TypeOK
<1>2. /\ \A r, s \in Peers : (r = q /\ s = p) \/ pipe'[r][s] = pipe[r][s]
      /\ pipe'[q][p] = Tail(pipe[q][p]) /\ loaded' = loaded
  BY DEF Receive, TakePackage, PeerInv, TypeOK
<1>3. /\ \A i \in DOMAIN pipe'[q][p] : /\ i \in Nat \ {0} /\ i + 1 \in DOMAIN pipe[q][p]
                                      /\ pipe'[q][p][i] = pipe[q][p][i + 1]
      /\ 1 \in DOMAIN pipe[q][p] /\ pipe[q][p][1] = first
  BY ONLY <1>1, <1>2
<1>4. /\ in'[p] # None /\ in'[p].shared = first.shared
      /\ \A r \in Peers \ {p} : in'[r] = in[r]
  <2>1. pc'[p] = "copying"
    BY DEF Receive, TakePackage, PeerInv, TypeOK
  <2> QED
    BY <2>1 DEF Receive, TakePackage, PeerInv, TypeOK, CallOK
<1> HIDE DEF first
<1>5. \A r \in Peers : AtPeer(r)' => IF r = p THEN first.shared ELSE AtPeer(r)
  BY <1>2, <1>4 DEF AtPeer
<1>6. ASSUME NEW e \in FullLabels', e = <<p>> PROVE f[e] = <<q, p, 1>> /\ f[e] \in FullLabels
  <2>1. AtPeer(p)'
    <3>1. IsPlace(e)'
      BY FullLabelsWillBe
    <3> QED
      BY <1>6, <3>1, Places DEF IsPlace
  <2>2. pipe[q][p][1].shared
    BY <1>3, <1>5, <2>1
  <2>3. IsPlace(<<q, p, 1>>)
    BY <1>3, <2>2 DEF IsPlace
  <2> QED
    BY <1>6, <2>3, FullLabelsAre
<1>7. ASSUME NEW e \in FullLabels', NEW i \in Nat, e = <<q, p, i>>
      PROVE  f[e] = <<q, p, i + 1>> /\ f[e] \in FullLabels /\ i # 0
  <2>1. i \in DOMAIN pipe'[q][p] /\ pipe'[q][p][i].shared
    <3>1. IsPlace(e)'
      BY FullLabelsWillBe
    <3> QED
      BY <1>7, <3>1, Places DEF IsPlace
  <2>2. IsPlace(<<q, p, i + 1>>)
    BY <1>3, <2>1 DEF IsPlace
  <2>3. InPipe(e) /\ e # <<p>> /\ e[3] = i
    BY <1>7, Places
  <2> QED
    BY <1>3, <2>1, <2>2, <2>3, FullLabelsAre
<1>8. ASSUME NEW e \in FullLabels', e # <<p>>, ~InPipe(e)
      PROVE  f[e] = e /\ f[e] \in FullLabels
  <2>1. IsPlace(e)'
    BY FullLabelsWillBe
  <2>2. CASE \E r \in Peers : e = <<r>> /\ AtPeer(r)'
    BY <1>5, <1>8, <2>2, FullLabelsAre DEF IsPlace
  <2>3. ASSUME NEW r \in Peers, NEW s \in Peers, NEW i \in DOMAIN pipe'[r][s],
               e = <<r, s, i>>, pipe'[r][s][i].shared
        PROVE  e \in FullLabels
    <3>1. pipe'[r][s] = pipe[r][s]
      BY <1>2, <1>3, <1>8, <2>3
    <3>2. IsPlace(e)
      BY <2>3, <3>1 DEF IsPlace
    <3> QED
      BY <3>2, FullLabelsAre
  <2> QED
    BY <1>8, <2>1, <2>2, <2>3 DEF IsPlace
<1>9. f \in [FullLabels' -> FullLabels]
  <2>1. \A e \in FullLabels' : f[e] \in FullLabels
    BY <1>6, <1>7, <1>8
  <2>2. f = [e \in FullLabels' |-> f[e]]
    OBVIOUS
  <2> HIDE DEF f
  <2> QED
    BY <2>1, <2>2
<1> HIDE DEF f
<1>10. ASSUME NEW e \in FullLabels', e # <<p>> PROVE f[e] # <<q, p, 1>>
  <2>1. CASE InPipe(e)
    <3>1. PICK i \in Nat : e = <<q, p, i>>
      BY <2>1
    <3>2. f[e] = <<q, p, i + 1>> /\ i + 1 # 1
      BY <1>7, <3>1
    <3> QED
      BY <3>2, Places
  <2>2. CASE ~InPipe(e)
    BY <1>8, <1>10, <2>2
  <2> QED
    BY <2>1, <2>2
<1>11. ASSUME NEW a \in FullLabels', NEW b \in FullLabels', f[a] = f[b] PROVE a = b
  <2>1. CASE a = <<p>> \/ b = <<p>>
    BY <1>6, <1>10, <1>11, <2>1
  <2>2. CASE a # <<p>> /\ b # <<p>>
    BY <1>7, <1>8, <1>11, <2>2, Places
  <2> QED
    BY <2>1, <2>2
<1> QED
  BY <1>9, <1>11, NoMoreThan DEF Fewer

(* A copy is complete: the buffer has the label that came with the package.*)
LEMMA HandleKeeps ==
  ASSUME PeerInv, IsFiniteSet(FullLabels), NEW p \in Peers, Handle(p)
  PROVE  Fewer
<1>1. pc[p] = "copying" /\ in[p] # None
  BY DEF Handle, ReturnPackage, DropUnknown, HandlePull, HandleReply, HandleSubscription,
     AcceptReply, DropMismatch, Copied, CopiedTo, PeerInv, CallOK
<1>2. /\ loaded' = [loaded EXCEPT ![p] = in[p].shared] /\ in' = [in EXCEPT ![p] = None]
      /\ pipe' = pipe
  BY DEF Handle, ReturnPackage, DropUnknown, HandlePull, HandleReply, HandleSubscription,
     AcceptReply, DropMismatch, Copied, CopiedTo
<1>3. \A r \in Peers : AtPeer(r)' => AtPeer(r)
  BY <1>1, <1>2 DEF AtPeer, PeerInv, TypeOK
<1> QED
  BY <1>2, <1>3, LabelsStay

LEMMA OthersKeep ==
  ASSUME PeerInv, IsFiniteSet(FullLabels), NEW p \in Peers,
         Call(p) \/ WriteLabel(p) \/ SendLost(p) \/ SendThrows(p) \/ RequestTimeout(p)
  PROVE  Fewer
<1>1. /\ in' = in
      /\ loaded' = loaded \/ (pc[p] = "sending" /\ loaded' = [loaded EXCEPT ![p] = FALSE])
  BY DEF Call, Push, Request, Publish, ClosePort, WriteLabel, SendLost, SendThrows, PackageTaken,
     RequestTimeout
<1>2. \A r, s \in Peers : pipe'[r][s] = pipe[r][s] \/ pipe'[r][s] = <<>>
  BY DEF Call, Push, Request, Publish, ClosePort, WriteLabel, SendLost, SendThrows,
     RequestTimeout, PeerInv, TypeOK
<1>3. pc[p] = "sending" => in[p] = None
  BY DEF PeerInv, CallOK
<1>4. \A r \in Peers : AtPeer(r)' => AtPeer(r)
  BY <1>1, <1>3 DEF AtPeer, PeerInv, TypeOK
<1> QED
  BY <1>2, <1>4, LabelsStay

(* No step of any thread makes a full label.                               *)
LEMMA NoStepMakesOne ==
  ASSUME PeerInv, IsFiniteSet(FullLabels), [Next]_vars
  PROVE  Fewer
<1>1. CASE UNCHANGED vars
  <2>1. loaded' = loaded /\ in' = in /\ pipe' = pipe
    BY <1>1 DEF vars
  <2>2. \A r \in Peers : AtPeer(r)' => AtPeer(r)
    BY <2>1 DEF AtPeer
  <2> QED
    BY <2>1, <2>2, LabelsStay
<1>2. ASSUME NEW p \in Peers, NEW q \in Peers, Receive(p, q) PROVE Fewer
  <2>1. PeerInv'
    BY <1>2, NextInv DEF Next
  <2> QED
    BY <1>2, <2>1, ReceiveMoves
<1>3. ASSUME NEW p \in Peers, Call(p) \/ Send(p) \/ Handle(p) \/ RequestTimeout(p) PROVE Fewer
  BY <1>3, OthersKeep, SendMoves, HandleKeeps DEF Send
<1> QED
  BY <1>1, <1>2, <1>3 DEF Next

LEMMA OneEach ==
  ASSUME Init
  PROVE  IsFiniteSet(FullLabels) /\ LabelTokens
<1> DEFINE f == [e \in FullLabels |-> e[1]]
<1>1. \A e \in FullLabels : \E p \in Peers : e = <<p>>
  BY FullLabelsAre DEF IsPlace, Init
<1>2. f \in [FullLabels -> Peers]
  BY <1>1
<1>3. \A a, b \in FullLabels : f[a] = f[b] => a = b
  BY <1>1
<1> HIDE DEF f
<1> QED
  BY <1>2, <1>3, FinitePeers, NoMoreThan DEF LabelTokens

(* However many peers there are and whatever they call: there are never    *)
(* more full labels than peers (Port.cpp:269, 335).                        *)
THEOREM NoLabelIsMade == Spec => []LabelTokens
<1> DEFINE Tokens == IsFiniteSet(FullLabels) /\ LabelTokens
<1>1. Init => Tokens
  BY OneEach
<1>2. PeerInv /\ Tokens /\ [Next]_vars => Tokens'
  <2> SUFFICES ASSUME PeerInv, Tokens, [Next]_vars PROVE Tokens'
    OBVIOUS
  <2>1. IsFiniteSet(FullLabels') /\ Cardinality(FullLabels') <= Cardinality(FullLabels)
    BY NoStepMakesOne DEF Fewer
  <2>2. /\ Cardinality(FullLabels) \in Nat /\ Cardinality(FullLabels') \in Nat
        /\ Cardinality(Peers) \in Nat
    BY <2>1, FinitePeers, FS_CardinalityType
  <2> QED
    BY <2>1, <2>2 DEF LabelTokens
<1>3. Tokens => LabelTokens
  OBVIOUS
<1> QED
  BY <1>1, <1>2, <1>3, PeerInvariant, PTL DEF Spec

-----------------------------------------------------------------------------
(* Cycles of peers that wait for room to send to one another.              *)

Acts(p) ==
  \/ Call(p) \/ Send(p) \/ Handle(p) \/ RequestTimeout(p)
  \/ \E q \in Peers : Receive(p, q)

(* A peer that waits takes no step of its own.                             *)
LEMMA WaitingTakesNoStep ==
  ASSUME PeerInv, NEW p \in Peers, NEW q \in Peers, Waits(p, q)
  PROVE  ~Acts(p)
<1>1. /\ pc[p] = "sending" /\ Dest(p) = q /\ q # p /\ open[p] /\ open[q]
      /\ Len(pipe[p][Dest(p)]) = HWM /\ ~(HWM < HWM)
  BY DEF Waits
<1>2. ~Call(p)
  BY <1>1 DEF Call, Push, Request, Publish, ClosePort
<1>3. ~Send(p)
  BY <1>1 DEF Send, WriteLabel, SendPackage, SendLost, SendThrows
<1>4. ~Handle(p)
  BY <1>1 DEF Handle, ReturnPackage, DropUnknown, HandlePull, HandleReply, HandleSubscription,
     AcceptReply, DropMismatch, Dispatches, Copied, CopiedTo
<1>5. ~RequestTimeout(p) /\ \A r \in Peers : ~Receive(p, r)
  BY <1>1 DEF RequestTimeout, Receive
<1> QED
  BY <1>2, <1>3, <1>4, <1>5 DEF Acts

(* What a peer that sends needs in order to go on waiting.                 *)
Still(p, q) ==
  /\ pc'[p] = pc[p] /\ out'[p] = out[p] /\ open'[p] = open[p] /\ open'[q] = open[q]
  /\ pipe'[p][q] = pipe[p][q]

LEMMA StillWaits ==
  ASSUME NEW p \in Peers, NEW q \in Peers, Waits(p, q), Still(p, q)
  PROVE  Waits(p, q)'
BY DEF Waits, Still, Dest

(* A step of another peer leaves the two as they are.                      *)
LEMMA OthersStandStill ==
  ASSUME PeerInv, NEW a \in Peers, Acts(a),
         NEW p \in Peers \ {a}, NEW q \in Peers \ {a}
  PROVE  Still(p, q)
<1>0. TypeOK
  BY DEF PeerInv
<1>1. CASE Call(a)
  <2>1. CASE Push(a) \/ Request(a) \/ Publish(a)
    BY <1>0, <2>1 DEF Push, Request, Publish, BeginSend, Still, TypeOK
  <2>2. CASE ClosePort(a)
    BY <1>0, <2>2 DEF ClosePort, calling, Still, TypeOK
  <2> QED
    BY <1>1, <2>1, <2>2 DEF Call
<1>2. CASE Send(a)
  <2>1. CASE WriteLabel(a)
    BY <1>0, <2>1 DEF WriteLabel, calling, Still, TypeOK
  <2>2. CASE SendPackage(a) \/ SendLost(a)
    <3>1. pc'[p] = pc[p] /\ out'[p] = out[p]
      BY <1>0, <2>2 DEF SendPackage, SendLost, PackageTaken, EndCall, TypeOK
    <3>2. open' = open /\ pipe'[p][q] = pipe[p][q]
      BY <1>0, <2>2 DEF SendPackage, SendLost, TypeOK
    <3> QED
      BY <3>1, <3>2 DEF Still
  <2>3. CASE SendThrows(a)
    BY <1>0, <2>3 DEF SendThrows, EndCall, Still, TypeOK
  <2> QED
    BY <1>2, <2>1, <2>2, <2>3 DEF Send
<1>3. CASE Handle(a)
  <2>1. open' = open /\ pipe' = pipe
    BY <1>3 DEF Handle, ReturnPackage, DropUnknown, HandlePull, HandleReply, HandleSubscription,
       AcceptReply, DropMismatch, Copied, CopiedTo
  <2>2. pc'[p] = pc[p] /\ out'[p] = out[p]
    <3>1. CASE DropMismatch(a)
      BY <1>0, <3>1 DEF DropMismatch, EndCall, calling, TypeOK
    <3>2. CASE HandleReply(a)
      BY <1>0, <3>2 DEF HandleReply, BeginSend, EndCall, TypeOK
    <3>3. CASE ~DropMismatch(a) /\ ~HandleReply(a)
      BY <1>0, <1>3, <3>3 DEF Handle, ReturnPackage, DropUnknown, HandlePull, HandleSubscription,
         AcceptReply, EndCall, TypeOK
    <3> QED
      BY <3>1, <3>2, <3>3
  <2> QED
    BY <2>1, <2>2 DEF Still
<1>4. CASE RequestTimeout(a)
  BY <1>0, <1>4 DEF RequestTimeout, EndCall, Still, TypeOK
<1>5. CASE \E r \in Peers : Receive(a, r)
  <2> PICK r \in Peers : Receive(a, r)
    BY <1>5
  <2>1. pipe'[p][q] = pipe[p][q]
    BY <1>0 DEF Receive, TakePackage, TypeOK
  <2>2. pc'[p] = pc[p]
    BY <1>0 DEF Receive, TakePackage, TypeOK
  <2>3. open' = open /\ out' = out
    BY DEF Receive
  <2> QED
    BY <2>1, <2>2, <2>3 DEF Still
<1> QED
  BY <1>1, <1>2, <1>3, <1>4, <1>5 DEF Acts

(* However many peers there are and whatever they call: peers that wait    *)
(* round a cycle, and those that wait for one of them, do so for ever      *)
(* (Port.cpp:335).                                                         *)
THEOREM CyclesAreForEver == Spec => BlockedForEver
<1>1. ASSUME PeerInv, Next, NEW p \in Peers, Blocked(p)
      PROVE  Blocked(p)'
  <2> PICK S \in SUBSET Peers : p \in S /\ \A q \in S : \E r \in S : Waits(q, r)
    BY <1>1 DEF Blocked
  <2> PICK a \in Peers : Acts(a)
    BY <1>1 DEF Next, Acts
  <2>1. a \notin S
    BY <1>1, WaitingTakesNoStep
  <2>2. ASSUME NEW q \in S PROVE \E r \in S : Waits(q, r)'
    <3> PICK r \in S : Waits(q, r)
      OBVIOUS
    <3>1. q \in Peers \ {a} /\ r \in Peers \ {a}
      BY <2>1
    <3> QED
      BY <1>1, <3>1, OthersStandStill, StillWaits
  <2> QED
    BY <2>2 DEF Blocked
<1>2. PeerInv /\ [Next]_vars => [\A p \in Peers : Blocked(p) => Blocked(p)']_vars
  BY <1>1
<1> QED
  BY <1>2, PeerInvariant, PTL DEF Spec, BlockedForEver

=============================================================================
