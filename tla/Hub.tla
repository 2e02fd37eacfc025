-------------------------------- MODULE Hub --------------------------------
(***************************************************************************)
(* One hub and its ports (dpn/hub/src/Hub.cpp, dpn/port/src/Port.cpp       *)
(* lines 8-90): which Port object a port ID names, which sockets the       *)
(* poller watches, which address each socket holds, and the round of       *)
(* polling and receiving that a peer makes (Peer.cpp:178-199).             *)
(*                                                                         *)
(* The three registers drift apart: RemovePort drops a port without        *)
(* closing it, ClosePort closes one without dropping it, AddPort of an ID  *)
(* still registered polls a new port nobody can name.  zmq is the          *)
(* environment: it owns the addresses, delivers packages, and gives a      *)
(* closed address back some time after close (its reaper thread).          *)
(***************************************************************************)
EXTENDS Naturals, Sequences, SequencesExt, FiniteSets

CONSTANTS
  PortIDs,          (* port IDs of this hub                                *)
  Ports,            (* the Port objects: bound on those ever created       *)
  Names,            (* names of ports of other hubs                        *)
  MaxConnections,   (* bound: entries of connections_                      *)
  MaxArrivals,      (* bound: packages that arrive at the hub              *)
  None

ASSUME HubAssumption ==
  /\ MaxConnections \in Nat /\ MaxArrivals \in Nat
  /\ PortIDs # {} /\ None \notin Ports

VARIABLES
  ports_,           (* ports_[id]: the port registered, or None            *)
  poller_,          (* the ports polled, in the order they were added      *)
  portID,           (* portID[p]: the ID in the name of port p             *)
  socket,           (* socket[p]: "unused", "open" or "closed"             *)
  bound,            (* the ports whose address zmq holds                   *)
  listed,           (* listed[p]: bindings_ of p lists its own name        *)
  connections_,     (* connections_[p]: names p was told to connect to     *)
  links,            (* links[p]: names the socket of p is connected to     *)
  inbox,            (* inbox[p]: packages waiting at the socket of p       *)
  arrivals,         (* packages that have arrived so far                   *)
  pollPortID_,      (* the port ID the last event was captured for         *)
  reading           (* the thread is between Poll and the end of Receive   *)

table == <<ports_, poller_>>
sockets == <<portID, socket, bound, listed, connections_, links>>
traffic == <<inbox, arrivals, pollPortID_, reading>>
vars == <<table, sockets, traffic>>

Init ==
  /\ ports_       = [i \in PortIDs |-> None]
  /\ poller_      = <<>>
  /\ portID       = [p \in Ports |-> CHOOSE i \in PortIDs : TRUE]
  /\ socket       = [p \in Ports |-> "unused"]
  /\ bound        = {}
  /\ listed       = [p \in Ports |-> FALSE]
  /\ connections_ = [p \in Ports |-> <<>>]
  /\ links        = [p \in Ports |-> {}]
  /\ inbox        = [p \in Ports |-> 0]
  /\ arrivals     = 0
  /\ pollPortID_  = CHOOSE i \in PortIDs : TRUE
  /\ reading      = FALSE

Registered(i) == ports_[i] # None
Idle == ~reading

-----------------------------------------------------------------------------
(* Port management.  A call that throws before it has changed anything is  *)
(* no step; a failed AddPort destroys its Port object again.               *)

AddressFree(i) == \A p \in bound : portID[p] # i

(* The object new Port makes: which one does not matter.                   *)
Fresh == CHOOSE p \in Ports : socket[p] = "unused"

(* Mutant: the new port is not given to the poller.                        *)
AddPortUnpolled(i) ==
  /\ Idle /\ AddressFree(i) /\ \E p \in Ports : socket[p] = "unused"
  /\ portID' = [portID EXCEPT ![Fresh] = i]
  /\ socket' = [socket EXCEPT ![Fresh] = "open"]
  /\ bound'  = bound \cup {Fresh}
  /\ listed' = [listed EXCEPT ![Fresh] = TRUE]
  /\ ports_' = IF Registered(i) THEN ports_ ELSE [ports_ EXCEPT ![i] = Fresh]
  /\ UNCHANGED <<poller_, connections_, links, traffic>>

(* The new port binds its own name; insert keeps the port that is already  *)
(* registered under the ID; the new port is polled in either case.         *)
AddPort(i) ==
  /\ Idle /\ AddressFree(i) /\ \E p \in Ports : socket[p] = "unused"
  /\ portID' = [portID EXCEPT ![Fresh] = i]
  /\ socket' = [socket EXCEPT ![Fresh] = "open"]
  /\ bound'  = bound \cup {Fresh}
  /\ listed' = [listed EXCEPT ![Fresh] = TRUE]
  /\ ports_' = IF Registered(i) THEN ports_ ELSE [ports_ EXCEPT ![i] = Fresh]
  /\ poller_' = Append(poller_, Fresh)
  /\ UNCHANGED <<connections_, links, traffic>>

(* Mutant: the port is not taken from the poller.                          *)
RemovePortPolled(i) ==
  /\ Idle /\ Registered(i)
  /\ ports_' = [ports_ EXCEPT ![i] = None]
  /\ UNCHANGED <<poller_, sockets, traffic>>

(* The port is forgotten, not closed: it keeps its address.  The poller    *)
(* cannot remove a closed socket and throws, the table has changed then.   *)
RemovePort(i) ==
  /\ Idle /\ Registered(i)
  /\ ports_'  = [ports_ EXCEPT ![i] = None]
  /\ poller_' = IF socket[ports_[i]] = "open" THEN RemoveFirst(poller_, ports_[i]) ELSE poller_
  /\ UNCHANGED <<sockets, traffic>>

(* socket_.close for the ports of a set: connections_ and bindings_ stay.  *)
CloseAll(closing) ==
  /\ socket' = [p \in Ports |-> IF p \in closing THEN "closed" ELSE socket[p]]
  /\ links'  = [p \in Ports |-> IF p \in closing THEN {} ELSE links[p]]
  /\ inbox'  = [p \in Ports |-> IF p \in closing THEN 0 ELSE inbox[p]]
  /\ UNCHANGED <<table, portID, bound, listed, connections_, arrivals, pollPortID_, reading>>

ClosePort(i) == Idle /\ Registered(i) /\ CloseAll({ports_[i]})

Close == Idle /\ CloseAll({ports_[i] : i \in {j \in PortIDs : Registered(j)}})

(* zmq gives the address of a closed socket back.                          *)
Reap(p) ==
  /\ socket[p] = "closed" /\ p \in bound
  /\ bound' = bound \ {p}
  /\ UNCHANGED <<table, portID, socket, listed, connections_, links, traffic>>

Connect(i, n) ==
  /\ Idle /\ Registered(i)
  /\ LET p == ports_[i] IN
       /\ socket[p] = "open" /\ Len(connections_[p]) < MaxConnections
       /\ links'        = [links EXCEPT ![p] = @ \cup {n}]
       /\ connections_' = [connections_ EXCEPT ![p] = Append(@, n)]
  /\ UNCHANGED <<table, portID, socket, bound, listed, traffic>>

(* Mutant: the name is struck off although zmq is not asked.               *)
DisconnectListOnly(i, n) ==
  /\ Idle /\ Registered(i)
  /\ LET p == ports_[i] IN
       /\ Contains(connections_[p], n)
       /\ connections_' = [connections_ EXCEPT ![p] = RemoveFirst(@, n)]
  /\ UNCHANGED <<table, portID, socket, bound, listed, links, traffic>>

(* A name not listed only warns; zmq throws if the socket is closed or not *)
(* connected any more, before the name is struck off.                      *)
Disconnect(i, n) ==
  /\ Idle /\ Registered(i)
  /\ LET p == ports_[i] IN
       /\ Contains(connections_[p], n) /\ socket[p] = "open" /\ n \in links[p]
       /\ links'        = [links EXCEPT ![p] = @ \ {n}]
       /\ connections_' = [connections_ EXCEPT ![p] = RemoveFirst(@, n)]
  /\ UNCHANGED <<table, portID, socket, bound, listed, traffic>>

(* Only the own name is ever bound (Port.cpp:67), and any other one warns. *)
Unbind(i) ==
  /\ Idle /\ Registered(i)
  /\ LET p == ports_[i] IN
       /\ listed[p] /\ socket[p] = "open"
       /\ listed' = [listed EXCEPT ![p] = FALSE]
       /\ bound'  = bound \ {p}
  /\ UNCHANGED <<table, portID, socket, connections_, links, traffic>>

-----------------------------------------------------------------------------
(* Traffic                                                                 *)

(* A package comes over a connection of either side.  A port that has been *)
(* unbound keeps the connections others made to it before.                 *)
Arrive(p) ==
  /\ socket[p] = "open" /\ arrivals < MaxArrivals
  /\ inbox'    = [inbox EXCEPT ![p] = @ + 1]
  /\ arrivals' = arrivals + 1
  /\ UNCHANGED <<table, sockets, pollPortID_, reading>>

Ready == {k \in DOMAIN poller_ : inbox[poller_[k]] > 0}

(* modify throws if a registered port is closed, before anything is polled.*)
CanPoll == \A i \in PortIDs : Registered(i) => socket[ports_[i]] = "open"

Forgotten(p) == socket[p] = "closed" /\ ports_[portID[p]] # p

(* RemovePort left a closed socket in the poller: what wait does with it   *)
(* is undefined, it may fail for ever.                                     *)
Dangling == \E k \in DOMAIN poller_ : Forgotten(poller_[k])

(* Mutant: only the port added last is polled.                             *)
PollLastOnly ==
  /\ Idle /\ CanPoll
  /\ Len(poller_) \in Ready
  /\ pollPortID_' = portID[poller_[Len(poller_)]]
  /\ reading' = TRUE
  /\ UNCHANGED <<table, sockets, inbox, arrivals>>

(* Every port with an event calls PollCallback, in the order of the        *)
(* poller: the last one is the one that is captured.                       *)
Poll ==
  /\ Idle /\ CanPoll /\ Ready # {}
  /\ \E k \in Ready :
       /\ \A j \in Ready : j <= k
       /\ pollPortID_' = portID[poller_[k]]
  /\ reading' = TRUE
  /\ UNCHANGED <<table, sockets, inbox, arrivals>>

(* Receive from the port registered under the ID; it blocks while that     *)
(* port has nothing.                                                       *)
Receive ==
  /\ reading
  /\ IF Registered(pollPortID_)
     THEN /\ inbox[ports_[pollPortID_]] > 0
          /\ inbox' = [inbox EXCEPT ![ports_[pollPortID_]] = @ - 1]
     ELSE UNCHANGED inbox
  /\ reading' = FALSE
  /\ UNCHANGED <<table, sockets, arrivals, pollPortID_>>

-----------------------------------------------------------------------------
Manage ==
  \/ \E i \in PortIDs : \/ AddPort(i) \/ RemovePort(i) \/ ClosePort(i) \/ Unbind(i)
                        \/ \E n \in Names : Connect(i, n) \/ Disconnect(i, n)
  \/ Close

Next == Manage \/ Poll \/ Receive \/ \E p \in Ports : Arrive(p) \/ Reap(p)

Spec == Init /\ [][Next]_vars

(* An application that keeps polling, with a poller that works.            *)
FairSpec == Spec /\ WF_vars(~Dangling /\ Poll) /\ WF_vars(Receive)

-----------------------------------------------------------------------------
Polled == ToSet(poller_)

TypeOK ==
  /\ ports_       \in [PortIDs -> Ports \cup {None}]
  /\ poller_      \in Seq(Ports)
  /\ portID       \in [Ports -> PortIDs]
  /\ socket       \in [Ports -> {"unused", "open", "closed"}]
  /\ bound        \subseteq Ports
  /\ listed       \in [Ports -> BOOLEAN]
  /\ connections_ \in [Ports -> Seq(Names)]
  /\ links        \in [Ports -> SUBSET Names]
  /\ inbox        \in [Ports -> Nat]
  /\ arrivals     \in Nat
  /\ pollPortID_  \in PortIDs
  /\ reading      \in BOOLEAN

(* Every registered port is watched by the poller and is named by the ID   *)
(* it is registered under, whatever ports were added under the same ID,    *)
(* closed or dropped before (Hub.cpp:43-73): Poll's modify finds its       *)
(* socket in the poller, and its events are captured under its own ID.     *)
RegisteredIsPolled == \A i \in PortIDs : Registered(i) =>
  ports_[i] \in Polled /\ portID[ports_[i]] = i

(* A port is connected only to ports it lists, so that Disconnect can      *)
(* undo every connection (Port.cpp:30-58).                                 *)
LinksListed == \A p \in Ports : links[p] \subseteq ToSet(connections_[p])

(* No port has given its name up while it was open: Unbind is the only     *)
(* call that strikes it off the list, and it never comes back.             *)
NeverUnbound == \A p \in Ports : socket[p] # "unused" => listed[p]

(* The captured port ID names the port in which the event occurred         *)
(* (Hub.hpp:61-64), so that the blocking receive after a poll finds a      *)
(* package (Peer.cpp:189-198).  This takes more than each call alone: a    *)
(* port added under the ID of one that was unbound is polled under it,     *)
(* while the receive goes to the one registered.                           *)
EventPortIsRead ==
  reading /\ NeverUnbound /\ ~Dangling =>
    Registered(pollPortID_) /\ inbox[ports_[pollPortID_]] > 0

(* No port is polled twice.                                                *)
PolledOnce == IsInjective(poller_)

(* Only ports that were made are polled, and only open ones have packages. *)
PolledIsUsed == \A p \in Polled : socket[p] # "unused"

WaitingIsOpen == \A p \in Ports : inbox[p] > 0 => socket[p] = "open"

(* An open port holds its address until it is unbound.                     *)
OpenHoldsAddress == \A p \in Ports : socket[p] = "open" /\ listed[p] => p \in bound

Superseded(p) ==
  Registered(portID[p]) /\ socket[ports_[portID[p]]] = "closed"

(* A port that is polled is the one registered under its ID, except after  *)
(* a call that the hub does not recover from: a closed port was removed,   *)
(* a port was unbound, or the registered one is closed.                    *)
PolledIsRegistered == \A p \in Polled :
  \/ ports_[portID[p]] = p
  \/ \E q \in Polled : Forgotten(q)
  \/ ~NeverUnbound
  \/ Superseded(p)

(* The registers agree, whatever calls are made in whatever order (Hub.cpp *)
(* 16-111): this is what Poll and Receive rely on.                         *)
HubInv ==
  /\ TypeOK
  /\ PolledOnce
  /\ PolledIsUsed
  /\ WaitingIsOpen
  /\ OpenHoldsAddress
  /\ RegisteredIsPolled
  /\ LinksListed
  /\ PolledIsRegistered
  /\ EventPortIsRead

(* An event at a port that is polled calls PollCallback (Hub.hpp:57-59):   *)
(* the packages of an open, registered port are read in the end, whatever  *)
(* the application does with the other ports.                              *)
EventIsCaptured == \A i \in PortIDs : \A p \in Ports :
  (ports_[i] = p /\ inbox[p] > 0) ~> (inbox[p] = 0 \/ ports_[i] # p \/ Dangling)

(* When no more packages arrive, the packages at a registered port are     *)
(* read in the end, although the poller favours later ports (Hub.cpp:180-  *)
(* 190), unless this port is removed, a port of the hub is closed          *)
(* (Hub.cpp:175-178), or one was unbound and its ID may name two ports.    *)
WaitingIsRead == \A i \in PortIDs : \A p \in Ports :
  (ports_[i] = p /\ inbox[p] > 0) ~>
    (inbox[p] = 0 \/ ports_[i] # p \/ Dangling \/ ~CanPoll \/ ~NeverUnbound)

=============================================================================
