------------------------------- MODULE Peer -------------------------------
(***************************************************************************)
(* The peers of a DPN network (dpn/peer/src/Peer.cpp, the interfaces of    *)
(* dpn/interface/inc), each run by one application thread, connected       *)
(* pairwise through their default ports over inproc.                       *)
(*                                                                         *)
(* A peer owns ONE label buffer (labelMessage_).  It is filled with the    *)
(* label of every package the peer sends, overwritten with the label of    *)
(* every package it receives, and compared by Request with the ID awaited. *)
(* What travels is a zmq message that points at this buffer: over inproc   *)
(* the receiver copies the label out of the memory of the sender, whatever *)
(* it holds by then.  A send also takes the zmq message away (loaded[p]    *)
(* becomes FALSE); only receiving a full label rebuilds it (Port.cpp:269). *)
(* A peer that sends without it sends an empty label frame, and a peer     *)
(* that receives an empty frame goes by what its own buffer still holds.   *)
(*                                                                         *)
(* The body of a package is reduced to whether it is there: a caller sizes *)
(* its messages before each call, and a send takes their contents as well. *)
(***************************************************************************)
EXTENDS Label, Sequences, FiniteSets

CONSTANTS
  HWM,              (* packages a pipe holds before a send blocks          *)
  MaxReceipts,      (* bound: receipts the model keeps under one topic     *)
  interface_map_,   (* the interfaces each peer added, by ID               *)
  App,              (* what the application of each peer may call          *)
  Uninit,           (* label buffer never written                          *)
  None              (* no package being received                           *)

InterfaceKinds == {"pull", "reply", "subscription", "absent"}

Application ==
  [ push : SUBSET Label, request : SUBSET Label, publish : SUBSET InterfaceIDs,
    service : BOOLEAN, get : BOOLEAN, close : BOOLEAN,
    patient : BOOLEAN,                 (* requests never reach their timeout *)
    status  : SUBSET {"Pass", "Fail"} ]      (* what its handlers may return *)

Package == [ shared : BOOLEAN,         (* the label frame points at a buffer *)
             body   : BOOLEAN,         (* the body frame is not empty        *)
             sent   : Label ]          (* history: what the sender wrote     *)

Delivery == [ shared : BOOLEAN, body : BOOLEAN, sent : Label, seen : Label ]

ASSUME PeerAssumption ==
  /\ HWM \in Nat \ {0} /\ MaxReceipts \in Nat
  /\ interface_map_ \in [Peers -> [InterfaceIDs -> InterfaceKinds]]
  /\ App \in [Peers -> Application]
  /\ Uninit \notin Label /\ None \notin Delivery

ASSUME FinitePeers == IsFiniteSet(Peers)

VARIABLES
  labelBuf,     (* labelBuf[p]: the contents of the label buffer of p      *)
  loaded,       (* loaded[p]: labelMessage_ still has its zmq message      *)
  messageID,    (* messageID[p]: the counter of packages sent              *)
  pub_map,      (* pub_map[p][topic]: the receipts of the subscribers      *)
  pipe,         (* pipe[p][q]: packages from p not yet received by q       *)
  open,         (* open[p]: the port of p is not closed                    *)
  pc,           (* where the thread of p is                                *)
  op,           (* the call of the API it is in                            *)
  out,          (* the labels that call sends; a request keeps its label   *)
  body,         (* whether the package of that call still has its contents *)
  in            (* the package being received                              *)

vars == <<labelBuf, loaded, messageID, pub_map, pipe, open, pc, op, out, body, in>>

calling == <<op, out, body>>

Init ==
  /\ labelBuf  = [p \in Peers |-> Uninit]
  /\ loaded    = [p \in Peers |-> TRUE]
  /\ messageID = [p \in Peers |-> 0]
  /\ pub_map   = [p \in Peers |-> [i \in InterfaceIDs |-> <<>>]]
  /\ pipe      = [p \in Peers |-> [q \in Peers |-> <<>>]]
  /\ open      = [p \in Peers |-> TRUE]
  /\ pc        = [p \in Peers |-> "idle"]
  /\ op        = [p \in Peers |-> "none"]
  /\ out       = [p \in Peers |-> <<>>]
  /\ body      = [p \in Peers |-> FALSE]
  /\ in        = [p \in Peers |-> None]

-----------------------------------------------------------------------------
(* The label buffer                                                        *)

(* Mutant: the label is stamped before the counter moves on.               *)
StampedOldID(p) == [ Head(out[p]) EXCEPT !.srcPeer = p, !.messageID = messageID[p] ]

(* The label SendMessages puts into the buffer for the next package.       *)
Stamped(p) == [ Head(out[p]) EXCEPT !.srcPeer = p, !.messageID = NextID(messageID[p]) ]

(* What the buffer may hold as far as its last complete write goes.        *)
Memory(p) == IF labelBuf[p] = Uninit THEN Label ELSE {labelBuf[p]}

(* What the thread of p is writing into the buffer just now: the label of  *)
(* the caller and then its ID, or the label it is receiving.               *)
BeingWritten(p) ==
  CASE pc[p] = "writing" -> {[Head(out[p]) EXCEPT !.srcPeer = p], Stamped(p)}
    [] pc[p] = "copying" -> {in[p].seen}
    [] OTHER             -> {}

(* What another thread may read from the buffer of p.                      *)
BufferReads(p) == Torn(Memory(p) \cup BeingWritten(p))

-----------------------------------------------------------------------------
(* Calls of the application                                                *)

BeginSend(p, call, labels) ==
  /\ pc'   = [pc   EXCEPT ![p] = "writing"]
  /\ op'   = [op   EXCEPT ![p] = call]
  /\ out'  = [out  EXCEPT ![p] = labels]
  /\ body' = [body EXCEPT ![p] = TRUE]

EndCall(p) ==
  /\ pc'   = [pc   EXCEPT ![p] = "idle"]
  /\ op'   = [op   EXCEPT ![p] = "none"]
  /\ out'  = [out  EXCEPT ![p] = <<>>]
  /\ body' = [body EXCEPT ![p] = FALSE]

Push(p) ==
  /\ pc[p] = "idle"
  /\ \E label \in App[p].push : BeginSend(p, "push", <<label>>)
  /\ UNCHANGED <<labelBuf, loaded, messageID, pub_map, pipe, open, in>>

Request(p) ==
  /\ pc[p] = "idle"
  /\ \E label \in App[p].request : BeginSend(p, "request", <<label>>)
  /\ UNCHANGED <<labelBuf, loaded, messageID, pub_map, pipe, open, in>>

(* One package for all the receipts of the topic, in the order they came.  *)
(* Publishing to a topic without receipts only warns.                      *)
Publish(p) ==
  /\ pc[p] = "idle"
  /\ \E topic \in App[p].publish :
       /\ pub_map[p][topic] # <<>>
       /\ BeginSend(p, "publish", pub_map[p][topic])
  /\ UNCHANGED <<labelBuf, loaded, messageID, pub_map, pipe, open, in>>

ClosePort(p) ==
  /\ pc[p] = "idle" /\ App[p].close /\ open[p]
  /\ open' = [open EXCEPT ![p] = FALSE]
  /\ pipe' = [q \in Peers |-> [pipe[q] EXCEPT ![p] = <<>>]]
  /\ UNCHANGED <<labelBuf, loaded, messageID, pub_map, pc, calling, in>>

-----------------------------------------------------------------------------
(* SendMessages, for each label of the call                                *)

(* Mutant: only a request counts its package.                              *)
WriteLabelUncounted(p) ==
  /\ pc[p] = "writing"
  /\ labelBuf'  = [labelBuf EXCEPT ![p] = Stamped(p)]
  /\ messageID' = [messageID EXCEPT ![p] = IF op[p] = "request" THEN NextID(@) ELSE @]
  /\ pc'        = [pc       EXCEPT ![p] = "sending"]
  /\ UNCHANGED <<loaded, pub_map, pipe, open, calling, in>>

WriteLabel(p) ==
  /\ pc[p] = "writing"
  /\ labelBuf'  = [labelBuf  EXCEPT ![p] = Stamped(p)]
  /\ messageID' = [messageID EXCEPT ![p] = NextID(messageID[p])]
  /\ pc'        = [pc        EXCEPT ![p] = "sending"]
  /\ UNCHANGED <<loaded, pub_map, pipe, open, calling, in>>

Dest(p) == Head(out[p]).destPeer

(* Mutant: a request does not wait for its reply.                          *)
PackageTakenNoWait(p) ==
  /\ loaded' = [loaded EXCEPT ![p] = FALSE]
  /\ EndCall(p)

(* zmq has taken the frames: on to the next receipt, to waiting for the    *)
(* reply, or back to the application.                                      *)
PackageTaken(p) ==
  /\ loaded' = [loaded EXCEPT ![p] = FALSE]
  /\ \/ /\ op[p] = "request"
        /\ pc'   = [pc   EXCEPT ![p] = "waiting"]
        /\ body' = [body EXCEPT ![p] = FALSE]
        /\ UNCHANGED <<op, out>>
     \/ /\ op[p] # "request" /\ Len(out[p]) > 1
        /\ pc'   = [pc   EXCEPT ![p] = "writing"]
        /\ out'  = [out  EXCEPT ![p] = Tail(@)]
        /\ body' = [body EXCEPT ![p] = FALSE]
        /\ UNCHANGED op
     \/ /\ op[p] # "request" /\ Len(out[p]) = 1
        /\ EndCall(p)

(* Mutant: a package for a full pipe is dropped (dontwait).                *)
SendPackageNoWait(p) ==
  /\ pc[p] = "sending"
  /\ open[p] /\ Dest(p) # p /\ open[Dest(p)]
  /\ pipe' = IF Len(pipe[p][Dest(p)]) = HWM THEN pipe
             ELSE [pipe EXCEPT ![p][Dest(p)] =
                Append(@, [shared |-> loaded[p], body |-> body[p], sent |-> labelBuf[p]])]
  /\ PackageTaken(p)
  /\ UNCHANGED <<labelBuf, messageID, pub_map, open, in>>

(* The send goes through when the pipe has room, and blocks until then.    *)
SendPackage(p) ==
  /\ pc[p] = "sending"
  /\ open[p] /\ Dest(p) # p /\ open[Dest(p)]
  /\ Len(pipe[p][Dest(p)]) < HWM
  /\ pipe' = [pipe EXCEPT ![p][Dest(p)] =
                Append(@, [shared |-> loaded[p], body |-> body[p], sent |-> labelBuf[p]])]
  /\ PackageTaken(p)
  /\ UNCHANGED <<labelBuf, messageID, pub_map, open, in>>

(* The receiver has closed its port and the sender is yet to learn of it.  *)
SendLost(p) ==
  /\ pc[p] = "sending"
  /\ open[p] /\ Dest(p) # p /\ ~open[Dest(p)]
  /\ PackageTaken(p)
  /\ UNCHANGED <<labelBuf, messageID, pub_map, pipe, open, in>>

(* No route to the receiver, or the own socket is closed: the first frame  *)
(* throws, every frame keeps its contents, the other receipts are skipped. *)
SendThrows(p) ==
  /\ pc[p] = "sending"
  /\ ~open[p] \/ Dest(p) = p \/ ~open[Dest(p)]
  /\ EndCall(p)
  /\ UNCHANGED <<labelBuf, loaded, messageID, pub_map, pipe, open, in>>

-----------------------------------------------------------------------------
(* ReceiveMessages, from a port the poller reports                         *)

(* Mutant: the package stays in the pipe.                                 *)
TakePackageAgain(p, q) ==
  /\ open[p] /\ pipe[q][p] # <<>>
  /\ LET package == Head(pipe[q][p]) IN
       in' = [in EXCEPT ![p] = [shared |-> package.shared, body |-> package.body,
                                sent |-> package.sent, seen |-> package.sent]]
  /\ pc' = [pc EXCEPT ![p] = "copying"]
  /\ UNCHANGED pipe

(* The package leaves the pipe and its label frame is read: out of the     *)
(* buffer of the sender if the frame points there, else nothing is copied. *)
TakePackage(p, q) ==
  /\ open[p] /\ pipe[q][p] # <<>>
  /\ LET package == Head(pipe[q][p]) IN
       \E label \in (IF package.shared THEN BufferReads(q) ELSE Memory(p)) :
         in' = [in EXCEPT ![p] = [shared |-> package.shared, body |-> package.body,
                                  sent |-> package.sent, seen |-> label]]
  /\ pipe' = [pipe EXCEPT ![q][p] = Tail(@)]
  /\ pc'   = [pc   EXCEPT ![p] = "copying"]

(* RequestImpl polls again while it waits; ServiceInterfaces and           *)
(* GetPendingPackage receive one package per call.  A call that finds none *)
(* before its timeout changes nothing.                                     *)
Receive(p, q) ==
  /\ \/ pc[p] = "waiting" /\ UNCHANGED op
     \/ pc[p] = "idle" /\ App[p].service /\ op' = [op EXCEPT ![p] = "service"]
     \/ pc[p] = "idle" /\ App[p].get     /\ op' = [op EXCEPT ![p] = "get"]
  /\ TakePackage(p, q)
  /\ UNCHANGED <<labelBuf, loaded, messageID, pub_map, open, out, body>>

(* The label buffer is written and resize rebuilds its zmq message.        *)
CopiedTo(p, label, isLoaded) ==
  /\ pc[p] = "copying"
  /\ labelBuf' = [labelBuf EXCEPT ![p] = label]
  /\ loaded'   = [loaded   EXCEPT ![p] = isLoaded]
  /\ in'       = [in       EXCEPT ![p] = None]
  /\ UNCHANGED <<messageID, pipe, open>>

(* Mutants: the label is sized for its capacity whatever came, is not      *)
(* sized again, or is copied somewhere else.                               *)
CopiedFullSize(p)  == CopiedTo(p, in[p].seen, TRUE)
CopiedNotSized(p)  == CopiedTo(p, in[p].seen, FALSE)
CopiedElsewhere(p) == CopiedTo(p, labelBuf[p], in[p].shared)

(* The copy is complete, and the label sized as the frame that came.       *)
Copied(p) == CopiedTo(p, in[p].seen, in[p].shared)

ReturnPackage(p) ==
  /\ op[p] = "get"
  /\ Copied(p) /\ EndCall(p)
  /\ UNCHANGED pub_map

(* ServiceInterfaces looks up the interface the label names.               *)
Dispatches(p, kind) ==
  /\ pc[p] = "copying" /\ op[p] = "service"
  /\ interface_map_[p][in[p].seen.destInterface] = kind

(* No such interface, or a pull interface: its handler is application code.*)
DropUnknown(p) ==
  /\ Dispatches(p, "absent")
  /\ Copied(p) /\ EndCall(p)
  /\ UNCHANGED pub_map

HandlePull(p) ==
  /\ Dispatches(p, "pull")
  /\ Copied(p) /\ EndCall(p)
  /\ UNCHANGED pub_map

HandleReply(p) ==
  /\ Dispatches(p, "reply")
  /\ Copied(p)
  /\ \/ "Pass" \in App[p].status /\ BeginSend(p, "service", <<Swap(in[p].seen)>>)
     \/ "Fail" \in App[p].status /\ EndCall(p)
  /\ UNCHANGED pub_map

(* Subscribe files the swapped label under its source interface.           *)
HandleSubscription(p) ==
  /\ Dispatches(p, "subscription")
  /\ Copied(p) /\ EndCall(p)
  /\ \/ /\ "Pass" \in App[p].status
        /\ LET receipt == Swap(in[p].seen) IN
             /\ Len(pub_map[p][receipt.srcInterface]) < MaxReceipts
             /\ pub_map' = [pub_map EXCEPT ![p][receipt.srcInterface] = Append(@, receipt)]
     \/ /\ "Fail" \in App[p].status
        /\ UNCHANGED pub_map

(* RequestImpl compares the ID in the label buffer with the ID of the last *)
(* package this peer sent.                                                 *)
AcceptReply(p) ==
  /\ pc[p] = "copying" /\ op[p] = "request"
  /\ in[p].seen.messageID = messageID[p]
  /\ Copied(p) /\ EndCall(p)
  /\ UNCHANGED pub_map

DropMismatch(p) ==
  /\ pc[p] = "copying" /\ op[p] = "request"
  /\ in[p].seen.messageID # messageID[p]
  /\ Copied(p)
  /\ \/ pc' = [pc EXCEPT ![p] = "waiting"] /\ UNCHANGED calling
     \/ ~App[p].patient /\ EndCall(p)
  /\ UNCHANGED pub_map

(* The poll throws: its time is up with nothing to receive.  RequestImpl   *)
(* returns as it does when a reply has come.                               *)
RequestTimeout(p) ==
  /\ pc[p] = "waiting" /\ ~App[p].patient
  /\ \A q \in Peers : pipe[q][p] = <<>>
  /\ EndCall(p)
  /\ UNCHANGED <<labelBuf, loaded, messageID, pub_map, pipe, open, in>>

-----------------------------------------------------------------------------
Call(p) == Push(p) \/ Request(p) \/ Publish(p) \/ ClosePort(p)

Send(p) == WriteLabel(p) \/ SendPackage(p) \/ SendLost(p) \/ SendThrows(p)

Handle(p) ==
  \/ ReturnPackage(p) \/ DropUnknown(p) \/ HandlePull(p) \/ HandleReply(p)
  \/ HandleSubscription(p) \/ AcceptReply(p) \/ DropMismatch(p)

Next == \E p \in Peers :
  \/ Call(p) \/ Send(p) \/ Handle(p) \/ RequestTimeout(p)
  \/ \E q \in Peers : Receive(p, q)

Spec == Init /\ [][Next]_vars

(* A thread inside a call goes on, and an application that services its    *)
(* interfaces does so again and again.  No application has to make a call. *)
Fairness == \A p \in Peers :
  /\ WF_vars(Send(p)) /\ WF_vars(Handle(p)) /\ WF_vars(RequestTimeout(p))
  /\ \A q \in Peers : WF_vars(Receive(p, q))

FairSpec == Spec /\ Fairness

(* A ROUTER takes from its pipes in turn, and an application services its  *)
(* interfaces whatever else it calls in between: no sender is passed over  *)
(* for ever because another one, or a call, comes first.                   *)
InTurn == \A p \in Peers : \A q \in Peers \ {p} : SF_vars(Receive(p, q))

InTurnSpec == FairSpec /\ InTurn

-----------------------------------------------------------------------------
Calls == {"none", "push", "publish", "request", "service", "get"}

TypeOK ==
  /\ labelBuf  \in [Peers -> Label \cup {Uninit}]
  /\ loaded    \in [Peers -> BOOLEAN]
  /\ messageID \in [Peers -> MessageIDs]
  /\ pub_map   \in [Peers -> [InterfaceIDs -> Seq(Label)]]
  /\ pipe      \in [Peers -> [Peers -> Seq(Package)]]
  /\ open      \in [Peers -> BOOLEAN]
  /\ pc        \in [Peers -> {"idle", "writing", "sending", "waiting", "copying"}]
  /\ op        \in [Peers -> Calls]
  /\ out       \in [Peers -> Seq(Label)]
  /\ body      \in [Peers -> BOOLEAN]
  /\ in        \in [Peers -> Delivery \cup {None}]

(* What each place of a call relies on: a thread that writes or sends has  *)
(* a label to send, one that sends has its buffer written, one that copies *)
(* has a package, a request keeps exactly its own label.                   *)
CallOK == \A p \in Peers :
  /\ op[p] = "none" <=> pc[p] = "idle"
  /\ pc[p] \in {"writing", "sending"} => out[p] # <<>> /\ op[p] # "get"
  /\ pc[p] = "sending" => labelBuf[p] # Uninit
  /\ pc[p] = "copying" <=> in[p] # None
  /\ pc[p] = "copying" => op[p] \in {"request", "service", "get"}
  /\ pc[p] = "waiting" => op[p] = "request"
  /\ op[p] = "request" => Len(out[p]) = 1

(* Type correctness: every buffer, counter, receipt, pipe and call of      *)
(* Peer.cpp keeps its type, whatever was read from memory that another     *)
(* thread was writing, and each call has what its next step needs.         *)
PeerInv == TypeOK /\ CallOK

(* Where a zmq message that holds a label is: with the peer that may send  *)
(* it, or on its way to the peer that will.                                *)
FullLabels ==
  {<<p>> : p \in {q \in Peers : loaded[q] /\ in[q] = None}}
    \cup {<<p>> : p \in {q \in Peers : in[q] # None /\ in[q].shared}}
    \cup UNION { {<<p, q, i>> : i \in {j \in DOMAIN pipe[p][q] : pipe[p][q][j].shared}}
                  : p \in Peers, q \in Peers }

(* There are never more full labels than peers, each starting with one: a  *)
(* send gives the label away (Port.cpp:335) and only receiving a full one  *)
(* brings it back (Port.cpp:269), so a network loses labels and never      *)
(* makes one.  This is why every second send in a row carries no label.    *)
LabelTokens == Cardinality(FullLabels) <= Cardinality(Peers)

(* Publishing on a topic sends packages of that topic only, and only on    *)
(* behalf of a subscription interface, even when the label that subscribed *)
(* was stale or torn (Peer.cpp:32-43, SubscriptionInterface.hpp:24-32).    *)
SubscriptionsKeyed ==
  \A p \in Peers : \A topic \in InterfaceIDs : \A i \in DOMAIN pub_map[p][topic] :
    /\ interface_map_[p][topic] = "subscription"
    /\ pub_map[p][topic][i].srcInterface = topic

=============================================================================
