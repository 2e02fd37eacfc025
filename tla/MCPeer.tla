------------------------------- MODULE MCPeer -------------------------------
(* Small networks of peers, one definition of App for each use of the API. *)
EXTENDS Promises, TLC

CONSTANTS p0, p1, p2,                 (* the peers                          *)
          PullI, OtherI, ReplyI, SubI (* the interfaces                     *)

(* p1 replies and publishes, the others pull.                              *)
MCInterfaces ==
  [p \in Peers |-> [i \in InterfaceIDs |->
     CASE p = p1 /\ i = ReplyI -> "reply"
       [] p = p1 /\ i = SubI   -> "subscription"
       [] i \in {PullI, OtherI} /\ (p # p1 \/ {ReplyI, SubI} \cap InterfaceIDs = {}) -> "pull"
       [] OTHER -> "absent"]]

(* A label as the application of p sets it up.                             *)
To(p, from, q, to) == [ messageID |-> 0, srcPeer |-> p, srcInterface |-> from,
                        destPeer |-> q, destInterface |-> to ]

Silent == [ push |-> {}, request |-> {}, publish |-> {}, service |-> FALSE, get |-> FALSE,
            close |-> FALSE, patient |-> TRUE, status |-> {"Pass"} ]

Serving == [Silent EXCEPT !.service = TRUE]

(* Every call: p0 subscribes, requests, services, gets and closes; p1      *)
(* publishes, services and closes.                                         *)
EveryCall == [p \in Peers |->
  IF p = p0
  THEN [Serving EXCEPT !.push = {To(p0, PullI, p1, SubI)}, !.request = {To(p0, PullI, p1, ReplyI)},
                       !.get = TRUE, !.close = TRUE, !.patient = FALSE, !.status = {"Pass", "Fail"}]
  ELSE [Serving EXCEPT !.publish = {SubI}, !.close = TRUE, !.status = {"Pass", "Fail"}]]

(* One producer, one consumer, one pull interface.                         *)
OneWay == [p \in Peers |->
  IF p = p0 THEN [Silent EXCEPT !.push = {To(p0, PullI, p1, PullI)}] ELSE Serving]

(* The same with two pull interfaces.                                      *)
TwoInterfaces == [p \in Peers |->
  IF p = p0 THEN [Silent EXCEPT !.push = {To(p0, PullI, p1, i) : i \in {PullI, OtherI}}]
            ELSE Serving]

(* p0 and p2 subscribe at p1, which publishes.                             *)
TwoSubscribers == [p \in Peers |->
  IF p = p1 THEN [Serving EXCEPT !.publish = {SubI}]
            ELSE [Serving EXCEPT !.push = {To(p, PullI, p1, SubI)}]]

(* p0 and p2 send requests to p1 and wait as long as it takes.             *)
TwoClients == [p \in Peers |->
  IF p = p1 THEN Serving ELSE [Silent EXCEPT !.request = {To(p, PullI, p1, ReplyI)}]]

(* p0 requests from p1, and p2 pushes to a pull interface of p0.           *)
ClientWithInbox == [p \in Peers |->
  CASE p = p0 -> [Serving EXCEPT !.request = {To(p0, PullI, p1, ReplyI)}]
    [] p = p1 -> Serving
    [] p = p2 -> [Silent EXCEPT !.push = {To(p2, PullI, p0, PullI)}]]

(* p0 sends requests to p1 and gives up when their time is over.           *)
Impatient == [p \in Peers |->
  IF p = p0 THEN [Silent EXCEPT !.request = {To(p0, PullI, p1, ReplyI)}, !.patient = FALSE]
            ELSE Serving]

=============================================================================
