------------------------------ MODULE HubProofs ------------------------------
(***************************************************************************)
(* Proofs about the hub, for any number of port IDs, ports and packages:   *)
(* the registers of the hub stay consistent through every order of its     *)
(* calls, and the port that is read after a poll has a package.            *)
(***************************************************************************)
EXTENDS Hub, SequenceLemmas

USE HubAssumption

LEMMA RegisteredPort ==
  ASSUME HubInv, NEW i \in PortIDs, Registered(i)
  PROVE  /\ ports_[i] \in Ports /\ ports_[i] \in Polled
         /\ portID[ports_[i]] = i /\ socket[ports_[i]] # "unused"
  BY DEF HubInv, TypeOK, RegisteredIsPolled, PolledIsUsed, Registered

LEMMA PolledType ==
  ASSUME TypeOK
  PROVE  Polled \subseteq Ports
  BY DEF TypeOK, Polled, ToSet

LEMMA ForgottenIsDangling ==
  ASSUME NEW q \in Polled, Forgotten(q)
  PROVE  Dangling
  BY DEF Dangling, Forgotten, Polled, ToSet

(* Whatever the calls do, they do it between a receive and the next poll.  *)
LEMMA IdleReads ==
  ASSUME Idle, UNCHANGED reading
  PROVE  EventPortIsRead'
  BY DEF Idle, EventPortIsRead

-----------------------------------------------------------------------------
(* Each action preserves HubInv.                                           *)

LEMMA FreshPort ==
  ASSUME HubInv, \E p \in Ports : socket[p] = "unused"
  PROVE  /\ Fresh \in Ports /\ socket[Fresh] = "unused" /\ Fresh \notin Polled
         /\ inbox[Fresh] = 0
<1>1. Fresh \in Ports /\ socket[Fresh] = "unused"
  BY DEF Fresh
<1>2. inbox[Fresh] \in Nat /\ ~(inbox[Fresh] > 0)
  BY <1>1 DEF HubInv, TypeOK, WaitingIsOpen
<1> QED
  BY <1>1, <1>2 DEF HubInv, PolledIsUsed

LEMMA AddPortInv ==
  ASSUME HubInv, NEW i \in PortIDs, AddPort(i)
  PROVE  HubInv'
<1> DEFINE f == Fresh
<1>1. f \in Ports /\ socket[f] = "unused" /\ f \notin Polled /\ inbox[f] = 0
  BY FreshPort DEF AddPort
<1> HIDE DEF f
<1>2. /\ AddressFree(i)
      /\ portID' = [portID EXCEPT ![f] = i]
      /\ socket' = [socket EXCEPT ![f] = "open"]
      /\ bound'  = bound \cup {f}
      /\ listed' = [listed EXCEPT ![f] = TRUE]
      /\ ports_' = IF Registered(i) THEN ports_ ELSE [ports_ EXCEPT ![i] = f]
      /\ poller_' = Append(poller_, f)
      /\ UNCHANGED <<connections_, links, inbox, arrivals, pollPortID_, reading>>
  BY DEF AddPort, f, traffic
<1>3. /\ poller_' \in Seq(Ports) /\ Polled' = Polled \cup {f} /\ Polled \subseteq Ports
  BY <1>1, <1>2, AppendSet, PolledType DEF HubInv, TypeOK, Polled
<1>4. TypeOK'
  BY <1>1, <1>2, <1>3 DEF HubInv, TypeOK
<1>5. PolledOnce'
  BY <1>1, <1>2, AppendKeepsInjective DEF HubInv, TypeOK, PolledOnce, Polled
<1>6. PolledIsUsed'
  BY <1>1, <1>2, <1>3 DEF HubInv, TypeOK, PolledIsUsed
<1>7. WaitingIsOpen' /\ OpenHoldsAddress'
  BY <1>1, <1>2 DEF HubInv, TypeOK, WaitingIsOpen, OpenHoldsAddress
<1>8. RegisteredIsPolled'
  <2> SUFFICES ASSUME NEW j \in PortIDs, Registered(j)'
               PROVE  ports_'[j] \in Polled' /\ portID'[ports_'[j]] = j
    BY DEF RegisteredIsPolled, Registered
  <2>1. CASE Registered(j)
    <3>1. ports_'[j] = ports_[j]
      BY <1>2, <2>1 DEF HubInv, TypeOK, Registered
    <3>2. ports_[j] \in Polled /\ ports_[j] \in Ports /\ portID[ports_[j]] = j
      BY <2>1, RegisteredPort
    <3> QED
      BY <1>1, <1>2, <1>3, <3>1, <3>2 DEF HubInv, TypeOK
  <2>2. CASE ~Registered(j)
    <3>1. j = i /\ ports_'[j] = f
      BY <1>2, <2>2 DEF HubInv, TypeOK, Registered
    <3> QED
      BY <1>1, <1>2, <1>3, <3>1 DEF HubInv, TypeOK
  <2> QED
    BY <2>1, <2>2
<1>9. LinksListed'
  BY <1>2 DEF HubInv, LinksListed
<1>10. PolledIsRegistered'
  <2> SUFFICES ASSUME NEW p \in Polled', NeverUnbound',
                      ~ \E q \in Polled' : Forgotten(q)'
               PROVE  ports_'[portID'[p]] = p \/ Superseded(p)'
    BY DEF PolledIsRegistered
  <2>1. NeverUnbound
    BY <1>1, <1>2 DEF HubInv, TypeOK, NeverUnbound
  <2>2. \A q \in Polled : ~Forgotten(q)
    <3> SUFFICES ASSUME NEW q \in Polled, Forgotten(q)
                 PROVE  Forgotten(q)'
      BY <1>3
    <3> QED
      BY <1>1, <1>2, <1>3 DEF HubInv, TypeOK, Forgotten, Registered
  <2>3. CASE p \in Polled
    <3>1. p \in Ports /\ p # f /\ portID'[p] = portID[p] /\ portID[p] \in PortIDs
      BY <1>1, <1>2, <1>3, <2>3 DEF HubInv, TypeOK
    <3>2. ports_[portID[p]] = p \/ Superseded(p)
      BY <2>1, <2>2, <2>3 DEF HubInv, PolledIsRegistered
    <3>3. Registered(portID[p])
      BY <1>3, <2>3, <3>2 DEF Superseded, Registered
    <3>4. ports_'[portID[p]] = ports_[portID[p]]
      BY <1>2, <3>1, <3>3 DEF HubInv, TypeOK, Registered
    <3>5. ports_[portID[p]] \in Ports /\ socket[ports_[portID[p]]] # "unused"
      BY <3>1, <3>3, RegisteredPort
    <3>6. socket'[ports_[portID[p]]] = socket[ports_[portID[p]]]
      BY <1>1, <1>2, <3>5 DEF HubInv, TypeOK
    <3> QED
      BY <3>1, <3>2, <3>3, <3>4, <3>6 DEF Superseded, Registered
  <2>4. CASE p = f
    <3>1. portID'[p] = i
      BY <1>1, <1>2, <2>4 DEF HubInv, TypeOK
    <3>2. CASE ~Registered(i)
      BY <1>1, <1>2, <2>4, <3>1, <3>2 DEF HubInv, TypeOK
    <3>3. CASE Registered(i)
      <4> DEFINE r == ports_[i]
      <4>1. r \in Ports /\ portID[r] = i /\ socket[r] # "unused"
        BY <3>3, RegisteredPort
      <4>2. r \notin bound /\ listed[r]
        BY <1>2, <2>1, <4>1 DEF AddressFree, NeverUnbound
      <4>3. socket[r] = "closed"
        BY <4>1, <4>2 DEF HubInv, TypeOK, OpenHoldsAddress
      <4>4. ports_'[i] = r /\ socket'[r] = "closed"
        BY <1>1, <1>2, <3>3, <4>1, <4>3 DEF HubInv, TypeOK
      <4> QED
        BY <3>1, <3>3, <4>4, <1>2 DEF Superseded, Registered
    <3> QED
      BY <3>2, <3>3
  <2> QED
    BY <1>3, <2>3, <2>4
<1>11. EventPortIsRead'
  BY <1>2, IdleReads DEF AddPort
<1> QED
  BY <1>4, <1>5, <1>6, <1>7, <1>8, <1>9, <1>10, <1>11 DEF HubInv

LEMMA RemovePortInv ==
  ASSUME HubInv, NEW i \in PortIDs, RemovePort(i)
  PROVE  HubInv'
<1>1. PICK r \in Ports : r = ports_[i] /\ r \in Polled /\ portID[r] = i /\ Registered(i)
  BY RegisteredPort DEF RemovePort
<1>2. /\ ports_' = [ports_ EXCEPT ![i] = None]
      /\ poller_' = IF socket[r] = "open" THEN RemoveFirst(poller_, r) ELSE poller_
      /\ UNCHANGED <<portID, socket, bound, listed, connections_, links>>
      /\ UNCHANGED <<inbox, arrivals, pollPortID_, reading>>
  BY <1>1 DEF RemovePort, sockets, traffic
<1>3. /\ poller_' \in Seq(Ports) /\ Polled' \subseteq Polled /\ Polled \ {r} \subseteq Polled'
      /\ Polled \subseteq Ports
  BY <1>1, <1>2, RemoveFirstKeeps, PolledType DEF HubInv, TypeOK, Polled
<1>4. PolledOnce' /\ (socket[r] = "open" => r \notin Polled')
  BY <1>1, <1>2, RemoveFirstInjective DEF HubInv, TypeOK, PolledOnce, Polled
<1>5. socket[r] # "open" => Polled' = Polled
  BY <1>2 DEF Polled
<1>6. TypeOK'
  BY <1>2, <1>3 DEF HubInv, TypeOK
<1>7. PolledIsUsed' /\ WaitingIsOpen' /\ OpenHoldsAddress' /\ LinksListed'
  BY <1>2, <1>3 DEF HubInv, PolledIsUsed, WaitingIsOpen, OpenHoldsAddress, LinksListed
<1>8. RegisteredIsPolled'
  <2> SUFFICES ASSUME NEW j \in PortIDs, Registered(j)'
               PROVE  ports_'[j] \in Polled' /\ portID'[ports_'[j]] = j
    BY DEF RegisteredIsPolled, Registered
  <2>1. j # i /\ ports_'[j] = ports_[j] /\ Registered(j)
    BY <1>2 DEF HubInv, TypeOK, Registered
  <2>2. ports_[j] \in Polled /\ portID[ports_[j]] = j
    BY <2>1, RegisteredPort
  <2> QED
    BY <1>1, <1>2, <1>3, <2>1, <2>2
<1>9. PolledIsRegistered'
  <2> SUFFICES ASSUME NEW p \in Polled', NeverUnbound',
                      ~ \E q \in Polled' : Forgotten(q)'
               PROVE  ports_'[portID'[p]] = p \/ Superseded(p)'
    BY DEF PolledIsRegistered
  <2>1. NeverUnbound
    BY <1>2 DEF NeverUnbound
  <2>2. socket[r] = "open"
    <3> SUFFICES ASSUME socket[r] # "open"
                 PROVE  Forgotten(r)'
      BY <1>1, <1>5
    <3>1. socket[r] = "closed"
      BY <1>1 DEF HubInv, TypeOK, PolledIsUsed
    <3> QED
      BY <1>1, <1>2, <3>1 DEF HubInv, TypeOK, Forgotten, Registered
  <2>3. \A q \in Polled : ~Forgotten(q)
    <3> SUFFICES ASSUME NEW q \in Polled, Forgotten(q)
                 PROVE  q \in Polled' /\ Forgotten(q)'
      OBVIOUS
    <3>1. q # r /\ q \in Ports /\ portID[q] \in PortIDs
      BY <1>3, <2>2 DEF Forgotten, HubInv, TypeOK
    <3> QED
      BY <1>2, <1>3, <3>1 DEF Forgotten, HubInv, TypeOK
  <2>4. p \in Polled /\ p \in Ports /\ p # r /\ portID[p] \in PortIDs
    BY <1>3, <1>4, <2>2 DEF HubInv, TypeOK
  <2>5. ports_[portID[p]] = p \/ Superseded(p)
    BY <2>1, <2>3, <2>4 DEF HubInv, PolledIsRegistered
  <2>6. portID[p] # i
    BY <1>1, <2>2, <2>4, <2>5 DEF Superseded
  <2> QED
    BY <1>2, <2>4, <2>5, <2>6 DEF HubInv, TypeOK, Superseded, Registered
<1>10. EventPortIsRead'
  BY <1>2, IdleReads DEF RemovePort
<1> QED
  BY <1>4, <1>6, <1>7, <1>8, <1>9, <1>10 DEF HubInv

LEMMA CloseAllInv ==
  ASSUME HubInv, Idle, NEW closing \in SUBSET Polled, CloseAll(closing)
  PROVE  HubInv'
<1>1. /\ socket' = [p \in Ports |-> IF p \in closing THEN "closed" ELSE socket[p]]
      /\ links'  = [p \in Ports |-> IF p \in closing THEN {} ELSE links[p]]
      /\ inbox'  = [p \in Ports |-> IF p \in closing THEN 0 ELSE inbox[p]]
      /\ UNCHANGED <<ports_, poller_>>
      /\ UNCHANGED <<portID, bound, listed, connections_, arrivals, pollPortID_, reading>>
  BY DEF CloseAll, table
<1>2. Polled' = Polled /\ Polled \subseteq Ports
  BY <1>1, PolledType DEF HubInv, Polled
<1>3. \A p \in Ports : /\ socket[p] = "closed" => socket'[p] = "closed"
                       /\ socket[p] = "unused" => socket'[p] = "unused"
                       /\ socket'[p] = "unused" => socket[p] = "unused"
                       /\ socket'[p] = "open" => socket[p] = "open"
  BY <1>1 DEF HubInv, PolledIsUsed
<1>4. TypeOK'
  BY <1>1 DEF HubInv, TypeOK
<1>5. PolledOnce' /\ PolledIsUsed' /\ RegisteredIsPolled'
  BY <1>1, <1>2, <1>3 DEF HubInv, PolledOnce, PolledIsUsed, RegisteredIsPolled, Registered
<1>6. WaitingIsOpen' /\ OpenHoldsAddress' /\ LinksListed'
  BY <1>1, <1>3 DEF HubInv, TypeOK, WaitingIsOpen, OpenHoldsAddress, LinksListed
<1>7. PolledIsRegistered'
  <2> SUFFICES ASSUME NEW p \in Polled, NeverUnbound',
                      ~ \E q \in Polled : Forgotten(q)'
               PROVE  ports_[portID[p]] = p \/ Superseded(p)'
    BY <1>1, <1>2 DEF PolledIsRegistered
  <2>1. NeverUnbound
    BY <1>1, <1>3 DEF NeverUnbound
  <2>2. \A q \in Polled : ~Forgotten(q)
    BY <1>1, <1>2, <1>3 DEF Forgotten
  <2>3. ports_[portID[p]] = p \/ Superseded(p)
    BY <2>1, <2>2 DEF HubInv, PolledIsRegistered
  <2>4. ASSUME Superseded(p)
        PROVE  Superseded(p)'
    <3>1. portID[p] \in PortIDs /\ ports_[portID[p]] \in Ports
      BY <1>2, <2>4, RegisteredPort DEF HubInv, TypeOK, Superseded
    <3> QED
      BY <1>1, <1>3, <2>4, <3>1 DEF Superseded, Registered
  <2> QED
    BY <2>3, <2>4
<1>8. EventPortIsRead'
  BY <1>1, IdleReads
<1> QED
  BY <1>4, <1>5, <1>6, <1>7, <1>8 DEF HubInv

LEMMA ClosePortInv ==
  ASSUME HubInv, NEW i \in PortIDs, ClosePort(i)
  PROVE  HubInv'
  BY RegisteredPort, CloseAllInv DEF ClosePort

LEMMA CloseInv ==
  ASSUME HubInv, Close
  PROVE  HubInv'
<1>1. {ports_[i] : i \in {j \in PortIDs : Registered(j)}} \subseteq Polled
  BY RegisteredPort
<1> QED
  BY <1>1, CloseAllInv DEF Close

(* The registers and the sockets are left alone.                           *)
LEMMA SamePortsInv ==
  ASSUME HubInv, UNCHANGED <<ports_, poller_, portID, socket>>,
         \A p \in Ports : listed'[p] => listed[p]
  PROVE  /\ PolledOnce' /\ PolledIsUsed' /\ RegisteredIsPolled' /\ PolledIsRegistered'
         /\ Polled' = Polled
<1>1. Polled' = Polled
  BY DEF Polled
<1>2. NeverUnbound' => NeverUnbound
  BY DEF NeverUnbound
<1>3. \A p : (Forgotten(p)' <=> Forgotten(p)) /\ (Superseded(p)' <=> Superseded(p))
  BY DEF Forgotten, Superseded, Registered
<1>4. PolledOnce' /\ PolledIsUsed' /\ RegisteredIsPolled'
  BY <1>1 DEF HubInv, PolledOnce, PolledIsUsed, RegisteredIsPolled, Registered
<1>5. PolledIsRegistered'
  BY <1>1, <1>2, <1>3 DEF HubInv, PolledIsRegistered
<1> QED
  BY <1>1, <1>4, <1>5

LEMMA ReapInv ==
  ASSUME HubInv, NEW p \in Ports, Reap(p)
  PROVE  HubInv'
<1>1. /\ UNCHANGED <<ports_, poller_, portID, socket, listed, connections_, links>>
      /\ UNCHANGED <<inbox, arrivals, pollPortID_, reading>>
      /\ bound' = bound \ {p} /\ socket[p] = "closed"
  BY DEF Reap, table, traffic
<1>2. PolledOnce' /\ PolledIsUsed' /\ RegisteredIsPolled' /\ PolledIsRegistered'
  BY <1>1, SamePortsInv
<1>3. TypeOK' /\ WaitingIsOpen' /\ OpenHoldsAddress' /\ LinksListed'
  BY <1>1 DEF HubInv, TypeOK, WaitingIsOpen, OpenHoldsAddress, LinksListed
<1>4. EventPortIsRead'
  BY <1>1 DEF HubInv, EventPortIsRead, NeverUnbound, Dangling, Forgotten, Registered
<1> QED
  BY <1>2, <1>3, <1>4 DEF HubInv

LEMMA ConnectInv ==
  ASSUME HubInv, NEW i \in PortIDs, NEW n \in Names, Connect(i, n)
  PROVE  HubInv'
<1>1. PICK p \in Ports :
        /\ links'        = [links EXCEPT ![p] = @ \cup {n}]
        /\ connections_' = [connections_ EXCEPT ![p] = Append(@, n)]
  BY RegisteredPort DEF Connect
<1>2. /\ UNCHANGED <<ports_, poller_, portID, socket, bound, listed>>
      /\ UNCHANGED <<inbox, arrivals, pollPortID_, reading>>
  BY DEF Connect, table, traffic
<1>3. PolledOnce' /\ PolledIsUsed' /\ RegisteredIsPolled' /\ PolledIsRegistered'
  BY <1>2, SamePortsInv
<1>4. /\ Append(connections_[p], n) \in Seq(Names)
      /\ ToSet(Append(connections_[p], n)) = ToSet(connections_[p]) \cup {n}
  BY AppendSet DEF HubInv, TypeOK
<1>5. TypeOK'
  BY <1>1, <1>2, <1>4 DEF HubInv, TypeOK
<1>6. LinksListed'
  BY <1>1, <1>4 DEF HubInv, TypeOK, LinksListed
<1>7. WaitingIsOpen' /\ OpenHoldsAddress'
  BY <1>2 DEF HubInv, WaitingIsOpen, OpenHoldsAddress
<1>8. EventPortIsRead'
  BY <1>2, IdleReads DEF Connect
<1> QED
  BY <1>3, <1>5, <1>6, <1>7, <1>8 DEF HubInv

(* A name that was listed twice stays listed although zmq let go of it.    *)
LEMMA DisconnectInv ==
  ASSUME HubInv, NEW i \in PortIDs, NEW n \in Names, Disconnect(i, n)
  PROVE  HubInv'
<1>1. PICK p \in Ports :
        /\ Contains(connections_[p], n)
        /\ links'        = [links EXCEPT ![p] = @ \ {n}]
        /\ connections_' = [connections_ EXCEPT ![p] = RemoveFirst(@, n)]
  BY RegisteredPort DEF Disconnect
<1>2. /\ UNCHANGED <<ports_, poller_, portID, socket, bound, listed>>
      /\ UNCHANGED <<inbox, arrivals, pollPortID_, reading>>
  BY DEF Disconnect, table, traffic
<1>3. PolledOnce' /\ PolledIsUsed' /\ RegisteredIsPolled' /\ PolledIsRegistered'
  BY <1>2, SamePortsInv
<1>4. connections_[p] \in Seq(Names) /\ n \in ToSet(connections_[p])
  BY <1>1 DEF HubInv, TypeOK, Contains, ToSet
<1>5. /\ RemoveFirst(connections_[p], n) \in Seq(Names)
      /\ ToSet(connections_[p]) \ {n} \subseteq ToSet(RemoveFirst(connections_[p], n))
  BY <1>4, RemoveFirstKeeps
<1>6. TypeOK'
  BY <1>1, <1>2, <1>5 DEF HubInv, TypeOK
<1>7. LinksListed'
  BY <1>1, <1>5 DEF HubInv, TypeOK, LinksListed
<1>8. WaitingIsOpen' /\ OpenHoldsAddress'
  BY <1>2 DEF HubInv, WaitingIsOpen, OpenHoldsAddress
<1>9. EventPortIsRead'
  BY <1>2, IdleReads DEF Disconnect
<1> QED
  BY <1>3, <1>6, <1>7, <1>8, <1>9 DEF HubInv

LEMMA UnbindInv ==
  ASSUME HubInv, NEW i \in PortIDs, Unbind(i)
  PROVE  HubInv'
<1>1. PICK p \in Ports :
        /\ listed' = [listed EXCEPT ![p] = FALSE]
        /\ bound'  = bound \ {p}
  BY RegisteredPort DEF Unbind
<1>2. /\ UNCHANGED <<ports_, poller_, portID, socket, connections_, links>>
      /\ UNCHANGED <<inbox, arrivals, pollPortID_, reading>>
  BY DEF Unbind, table, traffic
<1>3. PolledOnce' /\ PolledIsUsed' /\ RegisteredIsPolled' /\ PolledIsRegistered'
  BY <1>1, <1>2, SamePortsInv DEF HubInv, TypeOK
<1>4. TypeOK' /\ WaitingIsOpen' /\ OpenHoldsAddress' /\ LinksListed'
  BY <1>1, <1>2 DEF HubInv, TypeOK, WaitingIsOpen, OpenHoldsAddress, LinksListed
<1>5. EventPortIsRead'
  BY <1>2, IdleReads DEF Unbind
<1> QED
  BY <1>3, <1>4, <1>5 DEF HubInv

LEMMA ArriveInv ==
  ASSUME HubInv, NEW p \in Ports, Arrive(p)
  PROVE  HubInv'
<1>1. /\ UNCHANGED <<ports_, poller_, portID, socket, bound, listed, connections_, links>>
      /\ UNCHANGED <<pollPortID_, reading>>
      /\ inbox' = [inbox EXCEPT ![p] = @ + 1] /\ arrivals' = arrivals + 1
      /\ socket[p] = "open"
  BY DEF Arrive, table, sockets
<1>2. PolledOnce' /\ PolledIsUsed' /\ RegisteredIsPolled' /\ PolledIsRegistered'
  BY <1>1, SamePortsInv
<1>3. TypeOK' /\ WaitingIsOpen' /\ OpenHoldsAddress' /\ LinksListed'
  BY <1>1 DEF HubInv, TypeOK, WaitingIsOpen, OpenHoldsAddress, LinksListed
<1>4. EventPortIsRead'
  <2> SUFFICES ASSUME reading, NeverUnbound, ~Dangling
               PROVE  Registered(pollPortID_) /\ inbox'[ports_[pollPortID_]] > 0
    BY <1>1 DEF EventPortIsRead, NeverUnbound, Dangling, Forgotten, Registered
  <2>1. Registered(pollPortID_) /\ inbox[ports_[pollPortID_]] > 0
    BY DEF HubInv, EventPortIsRead
  <2>2. ports_[pollPortID_] \in Ports
    BY <2>1 DEF HubInv, TypeOK, Registered
  <2> QED
    BY <1>1, <2>1, <2>2 DEF HubInv, TypeOK
<1> QED
  BY <1>2, <1>3, <1>4 DEF HubInv

(* The last port with an event is open, and so is the one registered under *)
(* its ID: they are the same.                                              *)
LEMMA PollInv ==
  ASSUME HubInv, Poll
  PROVE  HubInv'
<1>1. PICK k \in Ready : pollPortID_' = portID[poller_[k]]
  BY DEF Poll
<1>2. /\ UNCHANGED <<ports_, poller_, portID, socket, bound, listed, connections_, links>>
      /\ UNCHANGED <<inbox, arrivals>> /\ CanPoll /\ reading' = TRUE
  BY DEF Poll, table, sockets
<1>3. PICK p \in Polled : p = poller_[k] /\ p \in Ports /\ inbox[p] > 0
  BY PolledType DEF HubInv, Ready, Polled, ToSet
<1>4. PolledOnce' /\ PolledIsUsed' /\ RegisteredIsPolled' /\ PolledIsRegistered'
  BY <1>2, SamePortsInv
<1>5. TypeOK' /\ WaitingIsOpen' /\ OpenHoldsAddress' /\ LinksListed'
  BY <1>1, <1>2, <1>3 DEF HubInv, TypeOK, WaitingIsOpen, OpenHoldsAddress, LinksListed
<1>6. EventPortIsRead'
  <2> SUFFICES ASSUME NeverUnbound, ~Dangling
               PROVE  Registered(portID[p]) /\ inbox[ports_[portID[p]]] > 0
    BY <1>1, <1>2, <1>3 DEF EventPortIsRead, NeverUnbound, Dangling, Forgotten, Registered
  <2>1. portID[p] \in PortIDs
    BY <1>3 DEF HubInv, TypeOK
  <2>2. ~Superseded(p)
    BY <1>2, <2>1 DEF CanPoll, Superseded
  <2>3. ports_[portID[p]] = p
    BY <1>3, <2>2, ForgottenIsDangling DEF HubInv, PolledIsRegistered
  <2> QED
    BY <1>3, <2>3 DEF Registered
<1> QED
  BY <1>4, <1>5, <1>6 DEF HubInv

LEMMA ReceiveInv ==
  ASSUME HubInv, Receive
  PROVE  HubInv'
<1>1. /\ UNCHANGED <<ports_, poller_, portID, socket, bound, listed, connections_, links>>
      /\ UNCHANGED <<arrivals, pollPortID_>> /\ reading' = FALSE
  BY DEF Receive, table, sockets
<1>2. PolledOnce' /\ PolledIsUsed' /\ RegisteredIsPolled' /\ PolledIsRegistered'
  BY <1>1, SamePortsInv
<1>3. inbox' \in [Ports -> Nat] /\ \A p \in Ports : inbox'[p] > 0 => inbox[p] > 0
  <2>1. CASE Registered(pollPortID_)
    <3>1. PICK p \in Ports : inbox[p] > 0 /\ inbox' = [inbox EXCEPT ![p] = @ - 1]
      BY <2>1, RegisteredPort DEF HubInv, TypeOK, Receive
    <3> QED
      BY <3>1 DEF HubInv, TypeOK
  <2>2. CASE ~Registered(pollPortID_)
    BY <2>2 DEF HubInv, TypeOK, Receive
  <2> QED
    BY <2>1, <2>2
<1>4. TypeOK' /\ WaitingIsOpen' /\ OpenHoldsAddress' /\ LinksListed'
  BY <1>1, <1>3 DEF HubInv, TypeOK, WaitingIsOpen, OpenHoldsAddress, LinksListed
<1>5. EventPortIsRead'
  BY <1>1 DEF EventPortIsRead
<1> QED
  BY <1>2, <1>4, <1>5 DEF HubInv

-----------------------------------------------------------------------------
LEMMA InitInv == Init => HubInv
<1> SUFFICES ASSUME Init PROVE HubInv
  OBVIOUS
<1>1. Polled = {}
  BY DEF Init, Polled, ToSet
<1>2. TypeOK
  <2>1. (CHOOSE i \in PortIDs : TRUE) \in PortIDs
    OBVIOUS
  <2>2. <<>> \in Seq(Ports) /\ <<>> \in Seq(Names)
    OBVIOUS
  <2> HIDE HubAssumption
  <2>3. portID \in [Ports -> PortIDs] /\ pollPortID_ \in PortIDs
    BY <2>1 DEF Init
  <2>4. poller_ \in Seq(Ports) /\ connections_ \in [Ports -> Seq(Names)]
    BY <2>2 DEF Init
  <2>5. inbox \in [Ports -> Nat] /\ arrivals \in Nat
    BY DEF Init
  <2> QED
    BY <2>3, <2>4, <2>5 DEF Init, TypeOK
<1>3. PolledOnce
  BY DEF Init, PolledOnce, IsInjective
<1> QED
  BY <1>1, <1>2, <1>3 DEF Init, HubInv, PolledIsUsed, WaitingIsOpen, OpenHoldsAddress,
     RegisteredIsPolled, Registered, LinksListed, PolledIsRegistered, EventPortIsRead

LEMMA NextInv == HubInv /\ [Next]_vars => HubInv'
<1> SUFFICES ASSUME HubInv, [Next]_vars PROVE HubInv'
  OBVIOUS
<1>1. CASE Manage
  BY <1>1, AddPortInv, RemovePortInv, ClosePortInv, UnbindInv, ConnectInv,
     DisconnectInv, CloseInv DEF Manage
<1>2. CASE Poll
  BY <1>2, PollInv
<1>3. CASE Receive
  BY <1>3, ReceiveInv
<1>4. CASE \E p \in Ports : Arrive(p) \/ Reap(p)
  BY <1>4, ArriveInv, ReapInv
<1>5. CASE UNCHANGED vars
  <2>1. /\ UNCHANGED <<ports_, poller_, portID, socket, bound, listed, connections_, links>>
        /\ UNCHANGED <<inbox, arrivals, pollPortID_, reading>>
    BY <1>5 DEF vars, table, sockets, traffic
  <2>2. PolledOnce' /\ PolledIsUsed' /\ RegisteredIsPolled' /\ PolledIsRegistered'
    BY <2>1, SamePortsInv
  <2>3. TypeOK' /\ WaitingIsOpen' /\ OpenHoldsAddress' /\ LinksListed'
    BY <2>1 DEF HubInv, TypeOK, WaitingIsOpen, OpenHoldsAddress, LinksListed
  <2>4. EventPortIsRead'
    BY <2>1 DEF HubInv, EventPortIsRead, NeverUnbound, Dangling, Forgotten, Registered
  <2> QED
    BY <2>2, <2>3, <2>4 DEF HubInv
<1> QED
  BY <1>1, <1>2, <1>3, <1>4, <1>5 DEF Next

(* The registers of the hub stay consistent, whatever calls are made.      *)
THEOREM HubInvariant == Spec => []HubInv
<1> QED
  BY InitInv, NextInv, PTL DEF Spec

(* Every registered port is polled, and under its own ID (Hub.cpp:43-73).  *)
THEOREM RegisteredPortsArePolled == Spec => []RegisteredIsPolled
<1>1. HubInv => RegisteredIsPolled
  BY DEF HubInv
<1> QED
  BY <1>1, HubInvariant, PTL

(* Every connection can be undone by name (Port.cpp:30-58).                *)
THEOREM ConnectionsAreListed == Spec => []LinksListed
<1>1. HubInv => LinksListed
  BY DEF HubInv
<1> QED
  BY <1>1, HubInvariant, PTL

(* The receive that follows a poll finds a package (Hub.hpp:61-64,         *)
(* Peer.cpp:189-198), as long as no port was unbound and no closed port    *)
(* removed.                                                                *)
THEOREM PolledPortHasPackage == Spec => []EventPortIsRead
<1>1. HubInv => EventPortIsRead
  BY DEF HubInv
<1> QED
  BY <1>1, HubInvariant, PTL

=============================================================================
