--------------------------- MODULE MCRequestReply ---------------------------
(* Two clients, each with a replier of its own.                            *)
EXTENDS RequestReply, TLC

CONSTANTS c0, c1, s0, s1, CallerI, ReplyI

MCServer == c0 :> s0 @@ c1 :> s1

MCInterfaces == [p \in Peers |->
  [i \in InterfaceIDs |-> IF p \notin Clients /\ i = ReplyI THEN "reply" ELSE "absent"]]

MCApp == [p \in Peers |->
  [ push |-> {}, publish |-> {}, get |-> FALSE, close |-> FALSE, patient |-> TRUE,
    status |-> {"Pass"}, service |-> p \notin Clients,
    request |-> IF p \in Clients
                THEN {[ messageID |-> 0, srcPeer |-> p, srcInterface |-> i,
                        destPeer |-> Server[p], destInterface |-> ReplyI ] : i \in InterfaceIDs}
                ELSE {} ]]

=============================================================================
