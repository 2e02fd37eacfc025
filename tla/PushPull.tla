------------------------------ MODULE PushPull ------------------------------
(***************************************************************************)
(* Push as the test of the repository uses it (peer/test/test.cpp:155-192):*)
(* one peer pushes to one interface of another, which does nothing but     *)
(* service its interfaces.  Used so, one label buffer that is written anew *)
(* for each package and read by reference is enough.                       *)
(***************************************************************************)
EXTENDS Promises

CONSTANTS Producer, Consumer,   (* the two peers                            *)
          Inbox,                (* the interface pushed to                  *)
          Outbox                (* the interface the pushes name as theirs  *)

ASSUME PushPullAssumption ==
  /\ Producer \in Peers /\ Consumer \in Peers \ {Producer}
  /\ Inbox \in InterfaceIDs /\ Outbox \in InterfaceIDs
  /\ interface_map_[Consumer][Inbox] = "pull"
  /\ \A p \in Peers : /\ App[p].request = {} /\ App[p].publish = {}
                      /\ ~App[p].get /\ ~App[p].close
                      /\ p # Producer => App[p].push = {}
                      /\ App[p].service <=> p = Consumer
  /\ \A label \in App[Producer].push :
       label.srcInterface = Outbox /\ label.destPeer = Consumer /\ label.destInterface = Inbox
  /\ None \notin MessageIDs \X InterfaceIDs \X BOOLEAN

-----------------------------------------------------------------------------
(* Why one label buffer is enough: all it ever holds, at either end, is    *)
(* one route.                                                              *)
Routed(label) == Route(label) = <<Producer, Outbox, Consumer, Inbox>>

sentOn == pipe[Producer][Consumer]

(* Only pushes of the producer travel, and the consumer only takes them.   *)
OneWayUse ==
  /\ \A p \in Peers : open[p]
  /\ \A p, q \in Peers : pipe[p][q] # <<>> => p = Producer /\ q = Consumer
  /\ \A p \in Peers \ {Producer, Consumer} : pc[p] = "idle"
  /\ op[Producer] \in {"none", "push"} /\ op[Consumer] \in {"none", "service"}
  /\ pc[Consumer] \in {"idle", "copying"}
  /\ pc[Producer] # "idle" =>
       body[Producer] /\ \E label \in App[Producer].push : out[Producer] = <<label>>

(* Every label written, sent or received has the route.                    *)
OneRoute ==
  /\ labelBuf[Producer] # Uninit => Routed(labelBuf[Producer])
  /\ \A i \in DOMAIN sentOn : Routed(sentOn[i].sent) /\ sentOn[i].body
  /\ in[Consumer] # None =>
       Routed(in[Consumer].sent) /\ Routed(in[Consumer].seen) /\ in[Consumer].body

(* The first package has the only full label; without it the consumer goes *)
(* by its own buffer, which by then holds the label of the package before. *)
LabelKept ==
  IF loaded[Producer] THEN sentOn = <<>> /\ in[Consumer] = None
  ELSE /\ labelBuf[Producer] # Uninit
       /\ \/ labelBuf[Consumer] # Uninit /\ Routed(labelBuf[Consumer])
          \/ in[Consumer] # None
          \/ sentOn # <<>> /\ Head(sentOn).shared

(* The packages unread are numbered one by one up to the last one sent.    *)
Numbered ==
  /\ pc[Producer] = "sending" => labelBuf[Producer].messageID = messageID[Producer]
  /\ \A i \in DOMAIN sentOn : i + 1 \in DOMAIN sentOn =>
       sentOn[i + 1].sent.messageID = NextID(sentOn[i].sent.messageID)
  /\ sentOn # <<>> => LastSent(Producer, sentOn[Len(sentOn)].sent.messageID)
  /\ in[Consumer] # None =>
       IF sentOn = <<>> THEN LastSent(Producer, in[Consumer].sent.messageID)
       ELSE sentOn[1].sent.messageID = NextID(in[Consumer].sent.messageID)

(* The state of the two buffers along the way of a push (Peer.cpp:210-233, *)
(* Port.cpp:255-271): from it follow the promises of this use.             *)
OneWayInv == OneWayUse /\ OneRoute /\ LabelKept /\ Numbered

-----------------------------------------------------------------------------
(* A message as the caller pushed it, and as the receiver handles it: by   *)
(* the interface its own buffer names.                                     *)
Pushed(id, interface, contents) == <<id, interface, contents>>

(* A message that is on its way to the receiver.                           *)
Carried(package) ==
  Pushed(package.sent.messageID, package.sent.destInterface, package.body)

carried == [i \in DOMAIN sentOn |-> Carried(sentOn[i])]

(* The message of the call under way.                                      *)
underWay ==
  CASE pc[Producer] = "writing" -> <<Pushed(NextID(messageID[Producer]), Inbox, TRUE)>>
    [] pc[Producer] = "sending" -> <<Pushed(messageID[Producer], Inbox, TRUE)>>
    [] OTHER -> <<>>

posted == carried \o underWay

inHand ==
  IF in[Consumer] = None THEN None
  ELSE Pushed(in[Consumer].sent.messageID, in[Consumer].seen.destInterface, in[Consumer].body)

Box == INSTANCE Mailbox WITH
  Messages <- {Pushed(id, Inbox, TRUE) : id \in MessageIDs}, Nothing <- None

(* What is pushed is handled once, in order, by the interface and with the *)
(* contents of the call (Peer.hpp:89-91): the pushes of a peer and the     *)
(* receives of the other, step by step, are those of a mailbox.            *)
PushedInOrder == Box!Spec

(* ... and, if the threads keep running, all of it is handled in the end.  *)
PushesDelivered == Box!FairSpec

=============================================================================
