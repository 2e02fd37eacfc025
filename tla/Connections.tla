---------------------------- MODULE Connections ----------------------------
(***************************************************************************)
(* How the default ports of two peers come to be connected and come apart  *)
(* (Port.cpp:8-14, 30-69).  Connecting makes a pipe with an end at either  *)
(* port.  The connecting port owns its end at once; the other end reaches  *)
(* its port as a command, which zmq handles when that port is next used.   *)
(* A ROUTER sends by the name of the port at the other end, and ignores a  *)
(* pipe whose name it has already: what comes over an ignored pipe is      *)
(* never received as from its sender.  An end that is cut keeps its name   *)
(* until the other port has let go of the pipe too.                        *)
(*                                                                         *)
(* The ports stay open, and no one disconnects from a port not yet added.  *)
(***************************************************************************)
EXTENDS Naturals, FiniteSets, SequencesExt

CONSTANTS
  Peers,
  MaxPipes,         (* bound: connections that are made                    *)
  None              (* no peer                                             *)

ASSUME ConnectionsAssumption == MaxPipes \in Nat /\ None \notin Peers

Pipes == 1 .. MaxPipes

VARIABLES
  bound,            (* the peers that have added their port                *)
  connections_,     (* connections_[p]: the peers p is connected to        *)
  pipe,             (* pipe[c]: the peers that connected, and were         *)
                    (* connected to, by the pipe                           *)
  end,              (* end[c][p]: what p makes of its end of the pipe      *)
  mailbox,          (* mailbox[p]: the commands p has not handled          *)
  connecting,       (* connecting[p]: the peer p is connecting to          *)
  spoilt            (* history: why a pair of peers may be cut off         *)

vars == <<bound, connections_, pipe, end, mailbox, connecting, spoilt>>

Init ==
  /\ bound        = {}
  /\ connections_ = [p \in Peers |-> <<>>]
  /\ pipe         = [c \in Pipes |-> <<None, None>>]
  /\ end          = [c \in Pipes |-> [p \in Peers |-> "none"]]
  /\ mailbox      = [p \in Peers |-> <<>>]
  /\ connecting   = [p \in Peers |-> None]
  /\ spoilt       = [pair \in SUBSET Peers |-> {}]

-----------------------------------------------------------------------------
Between(p, q) == {c \in Pipes : pipe[c] \in {<<p, q>>, <<q, p>>}}

Lists(p, q) == Contains(connections_[p], q)

(* An end that a port sends by, and one that still keeps the name.         *)
Routed(p, q) == \E c \in Between(p, q) : end[c][p] = "routed"
HasName(c, p) == end[c][p] \in {"routed", "cut", "ending", "ended"}
Named(p, q)  == \E c \in Between(p, q) : HasName(c, p)

(* A port looks at an end: the first pipe of a name is the one.            *)
Seen(p, q) == IF Named(p, q) THEN "ignored" ELSE "routed"

Command(what, c) == [what |-> what, pipe |-> c]

(* One for each of the pipes, in their order.                              *)
Rank(c, cs) == Cardinality({d \in cs : d <= c})
Commands(what, cs) ==
  [i \in 1 .. Cardinality(cs) |-> Command(what, CHOOSE c \in cs : Rank(c, cs) = i)]

(* The pipes still to be made.                                             *)
Free == {c \in Pipes : pipe[c] = <<None, None>>}

Spoil(pair, reasons) == spoilt' = [spoilt EXCEPT ![pair] = @ \cup reasons]

Drained(p) == connecting[p] = None /\ mailbox[p] = <<>>

-----------------------------------------------------------------------------
(* Calls: each first handles the commands that have come                   *)

(* Mutant: the port is bound before it is given its name, so that those    *)
(* who connected before do not get to know it.                             *)
AddPortUnnamed(p) ==
  /\ p \notin bound
  /\ bound' = bound \cup {p}
  /\ end' = [c \in Pipes |->
       IF pipe[c][2] # p THEN end[c]
       ELSE [q \in Peers |-> CASE q = p -> "routed" [] q = pipe[c][1] -> "ignored"
                                [] OTHER -> end[c][q]]]
  /\ UNCHANGED <<connections_, pipe, mailbox, connecting, spoilt>>

(* Mutant: the port is not bound.                                          *)
AddPortUnbound(p) ==
  /\ p \notin bound
  /\ bound' = bound \cup {p}
  /\ UNCHANGED <<connections_, pipe, end, mailbox, connecting, spoilt>>

(* Binding attaches the pipes of those who connected before: of each peer  *)
(* the first is the one, and the peers get to know the name of this port.  *)
AddPort(p) ==
  /\ p \notin bound
  /\ bound' = bound \cup {p}
  /\ LET waiting(q) == {c \in Pipes : pipe[c] = <<q, p>>} IN
       /\ end' = [c \in Pipes |->
            IF pipe[c][2] # p THEN end[c]
            ELSE [end[c] EXCEPT ![p] =
                   IF \E d \in waiting(pipe[c][1]) : d < c THEN "ignored" ELSE "routed"]]
       /\ mailbox' = [q \in Peers |->
            mailbox[q] \o Commands("attach", waiting(q))]
  /\ UNCHANGED <<connections_, pipe, connecting, spoilt>>

BeginConnect(p, q) ==
  /\ p \in bound /\ q # p /\ Drained(p)
  /\ Cardinality(Free) > Cardinality({r \in Peers : connecting[r] # None})
  /\ connecting' = [connecting EXCEPT ![p] = q]
  /\ UNCHANGED <<bound, connections_, pipe, end, mailbox, spoilt>>

(* Mutant: the name is listed although zmq is not asked.                   *)
ConnectListOnly(p) ==
  /\ connecting[p] # None
  /\ connections_' = [connections_ EXCEPT ![p] = Append(@, connecting[p])]
  /\ connecting'   = [connecting EXCEPT ![p] = None]
  /\ UNCHANGED <<bound, pipe, end, mailbox, spoilt>>

(* While the other port is not bound, zmq keeps its end.  A pair is spoilt *)
(* when it makes a connection while this port has yet to look at another,  *)
(* or before both have let go of one that was cut.                         *)
Connect(p) ==
  /\ connecting[p] # None
  /\ LET q == connecting[p]
         c == Min(Free)
     IN
       /\ connections_' = [connections_ EXCEPT ![p] = Append(@, q)]
       /\ pipe' = [pipe EXCEPT ![c] = <<p, q>>]
       /\ IF q \in bound
          THEN /\ end' = [end EXCEPT ![c][p] = Seen(p, q), ![c][q] = "coming"]
               /\ mailbox' = [mailbox EXCEPT ![q] = Append(@, Command("attach", c))]
               /\ Spoil({p, q}, IF \E d \in Between(p, q) :
                        \/ end[d][p] = "coming"
                        \/ {end[d][p], end[d][q]} \cap {"cut", "ending", "ended"} # {}
                      THEN {"overlap"} ELSE {})
          ELSE /\ end' = [end EXCEPT ![c][p] = "coming", ![c][q] = "coming"]
               /\ UNCHANGED <<mailbox, spoilt>>
  /\ connecting' = [connecting EXCEPT ![p] = None]
  /\ UNCHANGED bound

(* Mutant: the name is struck off although zmq is not asked.               *)
DisconnectListOnly(p, q) ==
  /\ Drained(p) /\ q \in bound /\ Lists(p, q)
  /\ connections_' = [connections_ EXCEPT ![p] = RemoveFirst(@, q)]
  /\ UNCHANGED <<bound, pipe, end, mailbox, connecting, spoilt>>

(* A name not listed only warns.  zmq cuts every pipe that this port has   *)
(* made to that name, and throws if there is none; one name is struck off. *)
(* A pair with other connections is spoilt: they are ignored, or cut too.  *)
Disconnect(p, q) ==
  /\ Drained(p) /\ q \in bound /\ Lists(p, q)
  /\ LET made == {c \in Pipes : pipe[c] = <<p, q>>}
         cs   == {c \in made : end[c][p] \in {"routed", "ignored"}}
         rest == RemoveFirst(connections_[p], q)
     IN
       /\ cs # {}
       /\ end' = [c \in Pipes |->
            IF c \in cs
            THEN [end[c] EXCEPT ![p] = IF @ = "routed" THEN "cut" ELSE "gone"]
            ELSE end[c]]
       /\ mailbox' = [mailbox EXCEPT ![q] = @ \o Commands("term", cs)]
       /\ connections_' = [connections_ EXCEPT ![p] = rest]
       /\ Spoil({p, q}, IF Lists(q, p) \/ Contains(rest, q) THEN {"shared"} ELSE {})
  /\ UNCHANGED <<bound, pipe, connecting>>

-----------------------------------------------------------------------------
(* Commands: what zmq does when a port is used                             *)

Commanded(p, what) == mailbox[p] # <<>> /\ Head(mailbox[p]).what = what

Rest(p) == [mailbox EXCEPT ![p] = Tail(@)]

Other(p, c) == IF pipe[c][1] = p THEN pipe[c][2] ELSE pipe[c][1]

Answered(p, c) == [Rest(p) EXCEPT ![Other(p, c)] = Append(@, Command("ack", c))]

(* An end that has come, or the name of the port at the other end.         *)
Attach(p) ==
  /\ Commanded(p, "attach")
  /\ LET c == Head(mailbox[p]).pipe IN
       end' = [end EXCEPT ![c][p] = Seen(p, Other(p, c))]
  /\ mailbox' = Rest(p)
  /\ UNCHANGED <<bound, connections_, pipe, connecting, spoilt>>

(* The other port has cut the pipe: nothing can be sent any more.  The end *)
(* of an ignored pipe may be let go at once, or never.                     *)
Term(p) ==
  /\ Commanded(p, "term")
  /\ LET c == Head(mailbox[p]).pipe IN
       \/ /\ end[c][p] = "routed"
          /\ end' = [end EXCEPT ![c][p] = "ending"]
          /\ mailbox' = Rest(p)
       \/ /\ end[c][p] = "ignored"
          /\ end' = [end EXCEPT ![c][p] = "gone"]
          /\ mailbox' = Rest(p) \/ mailbox' = Answered(p, c)
  /\ UNCHANGED <<bound, connections_, pipe, connecting, spoilt>>

(* A receive has read to the end of the pipe.                              *)
LetGo(p, c) ==
  /\ Drained(p) /\ end[c][p] = "ending"
  /\ end'     = [end EXCEPT ![c][p] = "ended"]
  /\ mailbox' = [mailbox EXCEPT ![Other(p, c)] = Append(@, Command("ack", c))]
  /\ UNCHANGED <<bound, connections_, pipe, connecting, spoilt>>

(* The other port has let go; the one that had cut the pipe answers.       *)
Ack(p) ==
  /\ Commanded(p, "ack")
  /\ LET c == Head(mailbox[p]).pipe
         q == Other(p, c)
     IN
       /\ end' = [end EXCEPT ![c][p] = "gone"]
       /\ mailbox' = IF end[c][p] = "cut" THEN Answered(p, c) ELSE Rest(p)
       /\ spoilt' = IF /\ ~Lists(p, q) /\ ~Lists(q, p)
                       /\ \A d \in Between(p, q), r \in {p, q} : end'[d][r] = "gone"
                    THEN [spoilt EXCEPT ![{p, q}] = {}] ELSE spoilt
  /\ UNCHANGED <<bound, connections_, pipe, connecting>>

Handle(p) == Attach(p) \/ Term(p) \/ Ack(p)

Next == \E p \in Peers :
  \/ AddPort(p) \/ Connect(p) \/ Handle(p)
  \/ \E q \in Peers : BeginConnect(p, q) \/ Disconnect(p, q)
  \/ \E c \in Pipes : LetGo(p, c)

Spec == Init /\ [][Next]_vars

(* Both peers keep servicing their interfaces, and calls return.           *)
FairSpec == Spec /\ \A p \in Peers :
  /\ WF_vars(Connect(p)) /\ WF_vars(Handle(p))
  /\ WF_vars(\E c \in Pipes : LetGo(p, c))

-----------------------------------------------------------------------------
(* Nothing about the two is under way.                                     *)
Settled(p, q) ==
  /\ connecting[p] # q /\ connecting[q] # p
  /\ \A c \in Between(p, q) :
       /\ end[c][p] # "coming" /\ end[c][q] # "coming"
       /\ \A r \in {p, q} : \A i \in DOMAIN mailbox[r] : mailbox[r][i].pipe # c

(* A connection the two can both send by.                                  *)
Usable(p, q) ==
  \E c \in Between(p, q) : end[c][p] = "routed" /\ end[c][q] = "routed"

EndStates == {"none", "coming", "routed", "ignored", "cut", "ending", "ended", "gone"}

TypeOK ==
  /\ bound        \subseteq Peers
  /\ connections_ \in [Peers -> Seq(Peers)]
  /\ pipe         \in [Pipes -> {<<None, None>>} \cup (Peers \X Peers)]
  /\ end          \in [Pipes -> [Peers -> EndStates]]
  /\ mailbox      \in [Peers -> Seq([what : {"attach", "term", "ack"}, pipe : Pipes])]
  /\ connecting   \in [Peers -> Peers \cup {None}]
  /\ spoilt       \in [SUBSET Peers -> SUBSET {"overlap", "shared"}]

Pending(r, what, c) == Contains(mailbox[r], Command(what, c))

Before(r, what, c, then, d) == \E i, j \in DOMAIN mailbox[r] :
  i < j /\ mailbox[r][i] = Command(what, c) /\ mailbox[r][j] = Command(then, d)

(* What the ends of a pipe go through that p has made to q, ...            *)
EndsOK(c, p, q) ==
  /\ p # q /\ p \in bound
  /\ \A r \in Peers \ {p, q} : end[c][r] = "none"
  /\ q \notin bound => end[c][p] = "coming" /\ end[c][q] = "coming"
  /\ end[c][p] \in {"coming", "routed", "ignored"} => Lists(p, q)
  /\ \/ end[c][p] \in {"coming", "routed", "ignored"} /\ end[c][q] \in {"coming", "routed", "ignored"}
     \/ end[c][p] \in {"cut", "gone"} /\ end[c][q] \in {"coming", "routed", "ignored"}
     \/ end[c][p] \in {"cut", "gone"} /\ end[c][q] \in {"ending", "ended", "gone"}

(* ... and the commands about it that are under way.                       *)
CommandsOK(c, p, q) ==
  /\ q \in bound /\ end[c][p] = "coming" => /\ Pending(p, "attach", c)
                                            /\ end[c][q] \in {"routed", "ignored"}
  /\ q \in bound /\ end[c][q] = "coming" => Pending(q, "attach", c)
  /\ end[c][p] \in {"cut", "gone"} /\ end[c][q] \in {"coming", "routed", "ignored"}
       => Pending(q, "term", c)
  /\ \A r \in Peers :
       /\ \A what \in {"attach", "term", "ack"} : Pending(r, what, c) => r \in {p, q} /\ q \in bound
       /\ Pending(r, "attach", c) => end[c][r] = "coming"
       /\ Pending(r, "term", c) => /\ r = q /\ end[c][p] \in {"cut", "gone"}
                                   /\ end[c][q] \in {"coming", "routed", "ignored"}
       /\ Pending(r, "ack", c) => /\ end[c][p] \in {"cut", "gone"} /\ end[c][q] \in {"ended", "gone"}
                                  /\ r = q => end[c][p] = "gone"
       /\ \A what \in {"attach", "term"} : ~Before(r, what, c, what, c)

PipeOK(c) ==
  /\ pipe[c] = <<None, None>> => \A r \in Peers :
       /\ end[c][r] = "none"
       /\ \A what \in {"attach", "term", "ack"} : ~Pending(r, what, c)
  /\ \A p, q \in Peers : pipe[c] = <<p, q>> => EndsOK(c, p, q) /\ CommandsOK(c, p, q)

(* A call is made by a port that was added, and a pipe is left for it.     *)
CallsOK ==
  /\ \A p \in Peers : connecting[p] # None => p \in bound /\ connecting[p] # p
  /\ IsFiniteSet({p \in Peers : connecting[p] # None})
  /\ Cardinality({p \in Peers : connecting[p] # None}) <= Cardinality(Free)

(* A port has one end of a name.                                           *)
OneName(p, q) == \A c, d \in Between(p, q) : HasName(c, p) /\ HasName(d, p) => c = d

(* Where q sends by a pipe that is coming to p, so will p, and not where   *)
(* it does not: the pipe that p will send by comes first.                  *)
WillAgree(p, q) == \A c \in Between(p, q) :
  /\ end[c][p] = "routed" => end[c][q] \in {"routed", "coming", "cut"}
  /\ Pending(p, "attach", c) /\ end[c][q] \in {"routed", "cut"} => ~Named(p, q)
  /\ Pending(p, "attach", c) /\ end[c][q] \in {"ignored", "gone"} =>
       \/ Named(p, q)
       \/ \E d \in Between(p, q) :
            Before(p, "attach", d, "attach", c) /\ end[d][q] \in {"routed", "cut"}
  /\ \A d \in Between(p, q) :
       end[d][p] \in {"cut", "ended"} => ~Before(p, "ack", d, "attach", c)

(* A pipe that its maker has not cut.                                      *)
Alive(c) == end[c][pipe[c][1]] \in {"coming", "routed", "ignored"}

(* What is listed stands for a pipe; while there is one, none is let go    *)
(* of, and one is sent by.                                                 *)
Unspoilt(p, q) ==
  /\ Lists(p, q) => \E c \in Pipes : pipe[c] = <<p, q>> /\ Alive(c)
  /\ \A c \in Between(p, q) : Alive(c) =>
       /\ end[c][p] = "ignored" => \E d \in Between(p, q) : Alive(d) /\ end[d][p] = "routed"
       /\ \A d \in Between(p, q) : end[d][p] \notin {"cut", "ending", "ended"}

PairOK(p, q) ==
  /\ OneName(p, q)
  /\ "overlap" \notin spoilt[{p, q}] => WillAgree(p, q)
  /\ spoilt[{p, q}] = {} => Unspoilt(p, q)

(* The two ends of every pipe, the commands on their way, and the pipe     *)
(* that a pair of ports sends by, in whatever order ports are added,       *)
(* connected and disconnected and their commands are handled.              *)
ConnectionsInv ==
  /\ TypeOK /\ CallsOK
  /\ \A c \in Pipes : PipeOK(c)
  /\ \A p, q \in Peers : PairOK(p, q)

(* Two ports that send to each other do so by the same pipe, so that what  *)
(* either sends is received as from its sender (Port.cpp:30-38, Hub.cpp:   *)
(* 152-153): connections made in any order and number, before or after the *)
(* other port is added, agree at both ends, unless one is made while the   *)
(* two are still taking up another or letting go of it.                    *)
RoutesAgree == \A p, q \in Peers : \A c \in Between(p, q) :
  end[c][p] = "routed" /\ end[c][q] = "ignored" => "overlap" \in spoilt[{p, q}]

(* What a port lists as connected is connected, at both ends, also after   *)
(* it was disconnected and connected again (Port.cpp:30-58): the list goes *)
(* wrong only if one of two connections of a pair is disconnected, or if   *)
(* the two overlap or connect again too soon.                              *)
ListedIsUsable == \A p \in Peers, q \in Peers :
  (Lists(p, q) /\ Settled(p, q) /\ spoilt[{p, q}] = {}) => Usable(p, q)

(* Disconnect leaves no route at either end: where neither port lists the  *)
(* other and nothing is under way, neither can send (Port.cpp:40-58).      *)
DisconnectedIsCut == \A p, q \in Peers :
  (Settled(p, q) /\ ~Lists(p, q) /\ ~Lists(q, p)) => ~Routed(p, q)

(* Peers that keep servicing their interfaces become connected, whichever  *)
(* of them adds its port or connects first, if no call spoils it.          *)
Connects == \A p, q \in Peers :
  (Lists(p, q) /\ q \in bound)
    ~> (Usable(p, q) \/ ~Lists(p, q) \/ spoilt[{p, q}] # {})

=============================================================================
