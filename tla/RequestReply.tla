---------------------------- MODULE RequestReply ----------------------------
(***************************************************************************)
(* Request and reply as the test of the repository uses them               *)
(* (peer/test/test.cpp:288-348): each client has a replier of its own that *)
(* does nothing but service its interfaces, and its requests never time    *)
(* out.  Used so, the one label buffer of each peer and the two message    *)
(* counters that Request compares are enough: the calls are remote calls.  *)
(***************************************************************************)
EXTENDS Promises

CONSTANTS Clients,      (* the peers that make requests                     *)
          Server        (* Server[c]: the replier of client c               *)

ASSUME PairAssumption ==
  /\ Clients \subseteq Peers
  /\ Server \in [Clients -> Peers \ Clients]
  /\ \A c, d \in Clients : Server[c] = Server[d] => c = d

ASSUME UseAssumption ==
  /\ \A p \in Peers : /\ App[p].push = {} /\ App[p].publish = {}
                      /\ ~App[p].get /\ ~App[p].close
  /\ \A c \in Clients :
       /\ ~App[c].service /\ App[c].patient
       /\ \A label \in App[c].request :
            /\ label.destPeer = Server[c]
            /\ interface_map_[Server[c]][label.destInterface] = "reply"
  /\ \A s \in Peers \ Clients : App[s].service /\ App[s].request = {} /\ App[s].status = {"Pass"}

-----------------------------------------------------------------------------
(* Nobody overwrites a label that a frame on its way still points at: the  *)
(* zero-copy frames are never read while they are written (Peer.cpp:216-   *)
(* 224, Message.cpp:33).                                                   *)
NoOverwriteInFlight == \A p, q \in Peers : \A i \in DOMAIN pipe[p][q] :
  pipe[p][q][i].shared =>
    pc[p] \notin {"writing", "copying"} /\ labelBuf[p] = pipe[p][q][i].sent

(* Every label arrives, and arrives as it was written, the ID included.    *)
LabelsIntact == \A p \in Peers :
  pc[p] = "copying" => in[p].shared /\ in[p].seen = in[p].sent

-----------------------------------------------------------------------------
(* The inductive invariant: where a call of client c is, and what its two  *)
(* peers hold there.  The two counters are equal between calls.            *)

Ahead(c) == messageID[c] = NextID(messageID[Server[c]])
Level(c) == messageID[c] = messageID[Server[c]]
Quiet(c) == pipe[c][Server[c]] = <<>> /\ pipe[Server[c]][c] = <<>>

FullPackage(label) == [shared |-> TRUE, body |-> TRUE, sent |-> label]

AtClient(c) ==          (* no call, or a request not sent yet               *)
  /\ pc[c] \in {"idle", "writing", "sending"} /\ pc[Server[c]] = "idle"
  /\ loaded[c] /\ Quiet(c)
  /\ IF pc[c] = "sending"
     THEN /\ Ahead(c) /\ body[c]
          /\ labelBuf[c] = [Head(out[c]) EXCEPT !.srcPeer = c, !.messageID = messageID[c]]
     ELSE Level(c) /\ (pc[c] = "writing" => body[c])

Requested(c) ==         (* the request is on its way or at the server       *)
  LET s == Server[c] IN
    /\ pc[c] = "waiting" /\ Ahead(c) /\ ~loaded[c]
    /\ labelBuf[c] = [Head(out[c]) EXCEPT !.srcPeer = c, !.messageID = messageID[c]]
    /\ pipe[s][c] = <<>>
    /\ \/ pc[s] = "idle" /\ pipe[c][s] = <<FullPackage(labelBuf[c])>>
       \/ /\ pc[s] = "copying" /\ pipe[c][s] = <<>>
          /\ in[s] = [shared |-> TRUE, body |-> TRUE, sent |-> labelBuf[c], seen |-> labelBuf[c]]

ReplyLabel(c) ==        (* the label of the reply to the request of c       *)
  Swap([Head(out[c]) EXCEPT !.srcPeer = c, !.messageID = messageID[c]])

Replying(c) ==          (* the server has run the handler                   *)
  LET s == Server[c] IN
    /\ pc[c] = "waiting" /\ ~loaded[c] /\ loaded[s] /\ body[s] /\ Quiet(c)
    /\ out[s] = <<ReplyLabel(c)>>
    /\ \/ pc[s] = "writing" /\ Ahead(c)
       \/ pc[s] = "sending" /\ Level(c) /\ labelBuf[s] = ReplyLabel(c)

Replied(c) ==           (* the reply is on its way or at the client         *)
  LET s == Server[c] IN
    /\ Level(c) /\ pc[s] = "idle" /\ labelBuf[s] = ReplyLabel(c)
    /\ pipe[c][s] = <<>>
    /\ \/ pc[c] = "waiting" /\ pipe[s][c] = <<FullPackage(labelBuf[s])>>
       \/ /\ pc[c] = "copying" /\ pipe[s][c] = <<>>
          /\ in[c] = [shared |-> TRUE, body |-> TRUE, sent |-> labelBuf[s], seen |-> labelBuf[s]]

Partners(p, q) == (p \in Clients /\ q = Server[p]) \/ (q \in Clients /\ p = Server[q])

LockstepInv ==
  /\ \A p, q \in Peers : ~Partners(p, q) => pipe[p][q] = <<>>
  /\ \A p \in Peers : open[p]
  /\ \A c \in Clients : /\ op[c] \in {"none", "request"}
                        /\ out[c] # <<>> => out[c][1] \in App[c].request
                        /\ AtClient(c) \/ Requested(c) \/ Replying(c) \/ Replied(c)
  /\ \A s \in Peers \ Clients : /\ op[s] \in {"none", "service"}
                                /\ pc[s] # "idle" => \E c \in Clients : s = Server[c]

-----------------------------------------------------------------------------
(* Requests are remote calls: an exchange is a call once the client has    *)
(* begun it, and is executed once the handler of the server has run.       *)
progress == [c \in Clients |->
  IF pc[c] = "idle" THEN "none"
  ELSE IF Replying(c) \/ Replied(c) THEN "executed" ELSE "called"]

Remote == INSTANCE RemoteCall WITH call <- progress

(* Each request is executed exactly once and its reply ends it.            *)
ExactlyOnce == Remote!Spec

(* ... and, if the threads keep running, every request does return.        *)
RequestsReturn == Remote!FairSpec

=============================================================================
