------------------------------ MODULE Promises ------------------------------
(***************************************************************************)
(* What the comments of Peer.hpp promise to the callers of a peer, stated  *)
(* over the packages that arrive.  The code keeps these promises in some   *)
(* uses of the API only: which ones is what the runs of this module show.  *)
(***************************************************************************)
EXTENDS Peer

Dispatched(p) == pc[p] = "copying" /\ op[p] \in {"service", "get"}

(* A package is handled by the interface it was sent to and answered to    *)
(* the peer and interface it came from (Peer.hpp:89-91): the label the     *)
(* receiver goes by names the ends the sender wrote, though the sender may *)
(* have reused its buffer, or sent no label at all, in the meantime.       *)
RouteIntact == \A p \in Peers :
  Dispatched(p) => Route(in[p].seen) = Route(in[p].sent)

(* The contents the caller set are sent with every package of the call, to *)
(* each subscriber too (Peer.hpp:74).                                      *)
BodyIntact == \A p, q \in Peers : \A i \in DOMAIN pipe[p][q] : pipe[p][q][i].body

(* The labels q has not handled of the packages p has sent, oldest first.  *)
Unread(p, q) == (IF in[q] = None THEN <<>> ELSE <<in[q].sent>>)
                  \o [i \in DOMAIN pipe[p][q] |-> pipe[p][q][i].sent]

(* id is the last ID that p has sent.                                      *)
LastSent(p, id) == IF pc[p] = "sending" THEN messageID[p] = NextID(id) ELSE messageID[p] = id

(* The packages of a sender reach the receiver in the order sent, with     *)
(* none missing: those in the pipe end with the last one sent and have     *)
(* consecutive IDs (Peer.cpp:223-224, Hub.cpp:172-191).                    *)
NothingSkipped == \A p, q \in Peers :
  LET unread == Unread(p, q)
  IN  /\ \A i \in DOMAIN unread : i > 1 =>
           unread[i].messageID = NextID(unread[i - 1].messageID)
      /\ pipe[p][q] # <<>> => LastSent(p, unread[Len(unread)].messageID)

(* Push and Publish return, whatever else goes on (Peer.hpp:77, 93), where *)
(* the peer they send to does nothing but service its interfaces.          *)
PushReturns == \A p \in Peers : op[p] \in {"push", "publish"} ~> pc[p] = "idle"

(* p cannot send before q receives something.                              *)
Waits(p, q) ==
  /\ pc[p] = "sending" /\ Dest(p) = q /\ q # p /\ open[p] /\ open[q]
  /\ Len(pipe[p][q]) = HWM

(* p waits for a peer that waits in turn, and so on round a cycle, of which*)
(* p may or may not be one.                                                *)
Blocked(p) == \E S \in SUBSET Peers :
  p \in S /\ \A q \in S : \E r \in S : Waits(q, r)

(* Where every peer services its interfaces, a Push or Publish that does   *)
(* not return waits in the end on a cycle of peers that wait for room to   *)
(* send to one another (Port.cpp:335 sends without a limit of time): no    *)
(* closed port, failed handler, timeout or lost label leaves a sender      *)
(* waiting, however the peers interleave their calls.                      *)
OnlyCyclesBlock == (\A q \in Peers : App[q].service) =>
  \A p \in Peers : op[p] \in {"push", "publish"} ~> (pc[p] = "idle" \/ Blocked(p))

(* ... and such a cycle is never left: no timeout of any of the peers runs *)
(* while it sends, no call of another peer makes room in a pipe of the     *)
(* cycle, and no port of the cycle can be closed (Port.cpp:335, Peer.cpp:  *)
(* 226-232).                                                               *)
BlockedForEver == [][\A p \in Peers : Blocked(p) => Blocked(p)']_vars

-----------------------------------------------------------------------------
(* Requests                                                                *)

(* The package being received by a request comes from the interface the    *)
(* request was sent to.                                                    *)
FromRequested(p) ==
  LET asked == Head(out[p]) IN
    /\ in[p].sent.srcPeer = asked.destPeer
    /\ in[p].sent.srcInterface = asked.destInterface
    /\ in[p].sent.destInterface = asked.srcInterface

Answering(p) == pc[p] = "copying" /\ op[p] = "request"

(* Request blocks until a reply is received by the requested interface or  *)
(* the timeout expires (Peer.hpp:49): when that reply comes in time it     *)
(* ends the request (Peer.cpp:131-143).                                    *)
ReplyNotDropped == \A p \in Peers :
  Answering(p) /\ FromRequested(p) => in[p].seen.messageID = messageID[p]

(* Only a reply of the requested interface is returned as the reply        *)
(* (Peer.hpp:49, Peer.cpp:131-135).                                        *)
OnlyReplyAccepted == \A p \in Peers :
  Answering(p) /\ in[p].seen.messageID = messageID[p] => FromRequested(p)

=============================================================================
