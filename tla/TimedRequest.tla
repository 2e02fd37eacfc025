---------------------------- MODULE TimedRequest ----------------------------
(***************************************************************************)
(* Requests with a timeout, in time (Peer::RequestImpl, Peer.cpp:107-152): *)
(* one client that gives up and tries again, repliers that take as long as *)
(* they like, and replies that come too late.                              *)
(*                                                                         *)
(* RequestImpl takes the time from system_clock, which may be set while it *)
(* waits; a poll measures its own time.  Time passes while the client      *)
(* polls: what it does between two polls takes no time.  A poll whose time *)
(* is less than zero lasts until a package comes.                          *)
(***************************************************************************)
EXTENDS Promises, Integers

CONSTANTS
  Client,           (* the peer that makes the requests                    *)
  Replier,          (* the peer it makes them to                           *)
  Timeouts,         (* the timeouts it gives, in milliseconds              *)
  MaxDrift,         (* bound: how far the clock is set during a request    *)
  MaxWait,          (* bound: the longest a request is watched             *)
  MaxRequests       (* bound: requests made, fewer than the counter counts *)

ASSUME TimedAssumption ==
  /\ Client \in Peers /\ Timeouts \subseteq Nat
  /\ MaxDrift \in Nat /\ \A t \in Timeouts : t + MaxDrift < MaxWait
  /\ MaxWait \in Nat /\ MaxRequests \in 0 .. IDRange - 1
  /\ ~App[Client].patient /\ ~App[Client].service /\ ~App[Client].get
  /\ \A p \in Peers : App[p].push = {} /\ App[p].publish = {} /\ ~App[p].close
  /\ \A p \in Peers \ {Client} : App[p].request = {}
  /\ \A label \in App[Client].request : label.destPeer # Client

(* What a request needs in order to end with no reply but its own: one     *)
(* replier, which services its interfaces and answers every request, and a *)
(* source interface whose ID is not that of an interface of the replier    *)
(* that replies.                                                           *)
ASSUME OneReplier ==
  /\ Replier \in Peers \ {Client}
  /\ \A label \in App[Client].request :
       /\ label.destPeer = Replier
       /\ interface_map_[Replier][label.destInterface] = "reply"
       /\ interface_map_[Replier][label.srcInterface] # "reply"
  /\ ~App[Replier].get /\ "Fail" \notin App[Replier].status

VARIABLES
  timeout,          (* the timeout of the request                          *)
  currTimeout,      (* the time the poll was given                         *)
  waited,           (* the time since RequestImpl read the clock first     *)
  polled,           (* the time since the poll began                       *)
  drift,            (* how far the clock has been set since startTime      *)
  answering,        (* history: the request each peer received last        *)
  answers,          (* history: the requests the packages of a pipe answer *)
  answered          (* history: the request the last package answers       *)

time == <<timeout, currTimeout, waited, polled, drift>>
history == <<answering, answers, answered>>
timedVars == <<vars, time, history>>

TimedInit ==
  /\ Init
  /\ timeout = 0 /\ currTimeout = 0 /\ waited = 0 /\ polled = 0 /\ drift = 0
  /\ answering = [p \in Peers |-> 0] /\ answered = 0
  /\ answers = [p \in Peers |-> [q \in Peers |-> <<>>]]

-----------------------------------------------------------------------------
(* A package a peer sends answers the one it received last; that is noted  *)
(* along the pipes.                                                        *)
Track ==
  /\ answering' = [p \in Peers |->
       IF pc[p] = "copying" THEN in[p].sent.messageID ELSE answering[p]]
  /\ answers' = [p \in Peers |-> [q \in Peers |->
       CASE Len(pipe'[p][q]) > Len(pipe[p][q]) -> Append(answers[p][q], answering[p])
         [] Len(pipe'[p][q]) < Len(pipe[p][q]) -> Tail(answers[p][q])
         [] OTHER -> answers[p][q]]]
  /\ answered' = IF \E q \in Peers : Len(pipe'[q][Client]) < Len(pipe[q][Client])
                 THEN Head(answers[CHOOSE q \in Peers :
                        Len(pipe'[q][Client]) < Len(pipe[q][Client])][Client])
                 ELSE answered

TimedRequest ==
  /\ messageID[Client] < MaxRequests
  /\ Request(Client) /\ Track
  /\ timeout' \in Timeouts
  /\ UNCHANGED <<currTimeout, waited, polled, drift>>

(* The request is written and sent; startTime is read, and the first poll  *)
(* begins.                                                                 *)
StartWaiting ==
  /\ Send(Client) /\ Track
  /\ IF pc'[Client] = "waiting"
     THEN /\ currTimeout' = timeout
          /\ waited' = 0 /\ polled' = 0 /\ drift' = 0
          /\ UNCHANGED timeout
     ELSE UNCHANGED time

Answered == AcceptReply(Client) /\ Track /\ UNCHANGED time

(* currTime - startTime, as system_clock has it.                           *)
elapsedTimeout == waited + drift

(* Mutant: the loop goes on whatever the time.                             *)
PollAgainAlways ==
  /\ DropMismatch(Client) /\ Track
  /\ pc'[Client] = "waiting"
  /\ currTimeout' = timeout - elapsedTimeout /\ polled' = 0
  /\ UNCHANGED <<timeout, waited, drift>>

(* Mutant: every poll is given the whole time.                             *)
PollAgainInFull ==
  /\ DropMismatch(Client) /\ Track
  /\ pc'[Client] = "waiting" <=> elapsedTimeout <= timeout
  /\ currTimeout' = timeout /\ polled' = 0
  /\ UNCHANGED <<timeout, waited, drift>>

(* Mutant: the loop ends with the first package.                           *)
PollOnce ==
  /\ DropMismatch(Client) /\ Track
  /\ pc'[Client] = "idle"
  /\ UNCHANGED time

(* Not the reply: poll again for the rest of the time, if any is left.     *)
PollAgain ==
  /\ DropMismatch(Client) /\ Track
  /\ pc'[Client] = "waiting" <=> elapsedTimeout <= timeout
  /\ currTimeout' = timeout - elapsedTimeout /\ polled' = 0
  /\ UNCHANGED <<timeout, waited, drift>>

(* The poll finds nothing before its time is up and throws.                *)
GiveUp ==
  /\ currTimeout >= 0 /\ polled >= currTimeout
  /\ RequestTimeout(Client) /\ Track
  /\ UNCHANGED time

Take(p, q) == Receive(p, q) /\ Track /\ UNCHANGED time

Serve(p) == (Send(p) \/ Handle(p)) /\ Track /\ UNCHANGED time

Tick ==
  /\ pc[Client] = "waiting" /\ waited < MaxWait
  /\ currTimeout < 0 \/ polled < currTimeout
  /\ waited' = waited + 1 /\ polled' = polled + 1
  /\ UNCHANGED <<vars, history, timeout, currTimeout, drift>>

SetClock ==
  /\ pc[Client] = "waiting"
  /\ drift' \in -MaxDrift .. MaxDrift
  /\ UNCHANGED <<vars, history, timeout, currTimeout, waited, polled>>

TimedNext ==
  \/ TimedRequest \/ StartWaiting \/ Answered \/ PollAgain \/ GiveUp \/ Tick \/ SetClock
  \/ \E p \in Peers \ {Client} : Serve(p)
  \/ \E p, q \in Peers : Take(p, q)

TimedSpec == TimedInit /\ [][TimedNext]_timedVars

(* Time passes and the thread of the client goes on.  Nothing is assumed of*)
(* the other peers: they need not answer, nor even read what is sent.      *)
FairTimedSpec ==
  /\ TimedSpec
  /\ WF_timedVars(StartWaiting) /\ WF_timedVars(Answered) /\ WF_timedVars(PollAgain)
  /\ WF_timedVars(GiveUp) /\ WF_timedVars(Tick)
  /\ \A q \in Peers : WF_timedVars(Take(Client, q))

-----------------------------------------------------------------------------
(* While a request waits or looks at a package, its poll was given no      *)
(* longer than it has, and when that time is over so is the timeout, but   *)
(* for how far the clock was set.                                          *)
PollInv ==
  op[Client] = "request" /\ pc[Client] \in {"waiting", "copying"} =>
    /\ polled <= currTimeout /\ polled <= waited
    /\ timeout - MaxDrift <= (waited - polled) + currTimeout
    /\ (waited - polled) + currTimeout <= timeout + MaxDrift

TimeInv ==
  /\ timeout \in Nat /\ currTimeout \in Int /\ waited \in Nat /\ polled \in Nat
  /\ drift \in -MaxDrift .. MaxDrift
  /\ PollInv

(* Request waits no longer than the timeout it was given (Peer.hpp:49-50), *)
(* but for what the clock was set back meanwhile: dropping packages does   *)
(* not prolong the wait, and no poll is begun with less than no time,      *)
(* which would last for ever (Peer.cpp:119-151).                           *)
TimeKept == pc[Client] = "waiting" => waited <= timeout + MaxDrift

(* Without a reply Request does not return before its timeout has expired, *)
(* but for what the clock was set forward meanwhile, however many packages *)
(* that are no reply come in between (Peer.hpp:49-50).                     *)
NotTooSoon == [][
  (op[Client] = "request" /\ op'[Client] = "none"
    /\ ~(Answering(Client) /\ in[Client].seen.messageID = messageID[Client]))
      => waited >= timeout - MaxDrift ]_timedVars

-----------------------------------------------------------------------------
(* Why no request ends with the reply to an earlier one: there is one full *)
(* label between client and replier.  While it is on its way back with a   *)
(* late reply, the packages of later requests carry none, the replier does *)
(* not answer them, and its buffer keeps an ID no later than the request   *)
(* it answered.                                                            *)
toReplier == pipe[Client][Replier]
toClient  == pipe[Replier][Client]

IsReply(label) == interface_map_[Replier][label.destInterface] = "reply"

FromClient(label) ==
  /\ label \in Label
  /\ label.srcPeer = Client /\ label.destPeer = Replier
  /\ IsReply(label) /\ ~IsReply(Swap(label))

(* Only requests of the client and replies to it are on their way.         *)
OneReplierUse ==
  /\ \A p \in Peers : open[p]
  /\ \A p, q \in Peers : pipe[p][q] # <<>> =>
       (p = Client /\ q = Replier) \/ (p = Replier /\ q = Client)
  /\ \A p \in Peers \ {Client, Replier} : pc[p] = "idle"
  /\ op[Client] \in {"none", "request"} /\ op[Replier] \in {"none", "service"}
  /\ pc[Client] # "idle" => \E label \in App[Client].request : out[Client] = <<label>>
  /\ messageID[Client] <= MaxRequests
  /\ pc[Client] = "writing" => messageID[Client] < MaxRequests
  /\ pc[Client] = "sending" => /\ FromClient(labelBuf[Client])
                               /\ labelBuf[Client].messageID = messageID[Client]
  /\ \A i \in DOMAIN toReplier : toReplier[i].sent.messageID <= messageID[Client]

(* Without a label the replier goes by its own buffer, and drops requests. *)
Ignoring ==
  /\ pc[Replier] \in {"idle", "copying"}
  /\ in[Replier] # None => /\ ~in[Replier].shared /\ labelBuf[Replier] # Uninit
                           /\ in[Replier].seen = labelBuf[Replier]
  /\ labelBuf[Replier] # Uninit => ~IsReply(labelBuf[Replier])

NoneSent  == \A i \in DOMAIN toReplier : ~toReplier[i].shared
NoneBack  == toClient = <<>> /\ answers[Replier][Client] = <<>>
NotAtHand == ~loaded[Client] /\ in[Client] = None

LabelAtHand ==
  /\ in[Client] = None /\ Ignoring /\ NoneSent /\ NoneBack
  /\ labelBuf[Replier] = Uninit => toReplier = <<>>
  /\ messageID[Replier] <= messageID[Client]
  /\ pc[Client] = "sending" => messageID[Replier] < messageID[Client]

LabelSent ==
  /\ NotAtHand /\ Ignoring /\ NoneBack /\ FromClient(labelBuf[Client])
  /\ \E j \in DOMAIN toReplier :
       /\ \A i \in DOMAIN toReplier : toReplier[i].shared <=> i = j
       /\ labelBuf[Replier] = Uninit => j = 1
       /\ messageID[Replier] < toReplier[j].sent.messageID

LabelReceived ==
  /\ NotAtHand /\ NoneSent /\ NoneBack
  /\ in[Replier] # None
  /\ in[Replier].shared /\ FromClient(in[Replier].seen)
  /\ messageID[Replier] < in[Replier].sent.messageID
  /\ in[Replier].sent.messageID <= messageID[Client]

LabelReturning ==
  /\ NotAtHand /\ NoneSent /\ NoneBack
  /\ in[Replier] = None /\ loaded[Replier]
  /\ \E label \in Label :
       /\ out[Replier] = <<label>> /\ label.destPeer = Client /\ ~IsReply(label)
  /\ answering[Replier] \in 0 .. messageID[Client]
  /\ \/ pc[Replier] = "writing" /\ messageID[Replier] < answering[Replier]
     \/ /\ pc[Replier] = "sending" /\ messageID[Replier] <= answering[Replier]
        /\ ~IsReply(labelBuf[Replier]) /\ labelBuf[Replier].messageID = messageID[Replier]

LabelReplied ==
  /\ NotAtHand /\ NoneSent /\ Ignoring
  /\ Len(toClient) = 1 /\ toClient[1].shared
  /\ labelBuf[Replier] # Uninit
  /\ \E id \in 0 .. messageID[Client] :
       /\ answers[Replier][Client] = <<id>>
       /\ labelBuf[Replier].messageID <= id /\ messageID[Replier] <= id

LabelBack ==
  /\ NoneSent /\ NoneBack /\ Ignoring
  /\ in[Client] # None /\ in[Client].shared
  /\ labelBuf[Replier] # Uninit
  /\ answered \in 0 .. messageID[Client] /\ in[Client].seen.messageID <= answered
  /\ messageID[Replier] <= messageID[Client]

OneLabelInv ==
  /\ OneReplierUse
  /\ \/ loaded[Client] /\ LabelAtHand
     \/ LabelSent \/ LabelReceived \/ LabelReturning \/ LabelReplied \/ LabelBack

(* The correct message of Peer.cpp:133: the reply that ends a request is   *)
(* the answer to this request.  The late reply to one that was given up    *)
(* never ends a later one, though its label is read from a buffer the      *)
(* replier may have overwritten, and though the counters of the two peers  *)
(* are compared.                                                           *)
OwnReply ==
  Answering(Client) /\ in[Client].seen.messageID = messageID[Client] =>
    answered = messageID[Client]

(* Request blocks until a reply is received or its timeout expires        *)
(* (Peer.hpp:49-50): that holds of its wait, whatever comes and however    *)
(* the clock is set, and with a replier that stops at any point.  It does  *)
(* not hold of its send, to which no timeout applies (Peer.cpp:160,        *)
(* Port.cpp:335): a request that does not return waits there for room.     *)
RequestEnds ==
  op[Client] = "request" ~>
    (op[Client] = "none" \/ \E q \in Peers : Waits(Client, q))

=============================================================================
