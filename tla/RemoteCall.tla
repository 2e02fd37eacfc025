----------------------------- MODULE RemoteCall -----------------------------
(***************************************************************************)
(* What Request promises, whatever carries it (Peer.hpp:41-56): a call is  *)
(* executed once by the replier and then returns, and until it has         *)
(* returned the client makes no other.                                     *)
(***************************************************************************)
CONSTANT Clients

VARIABLE call       (* call[c]: how far the call of client c has come       *)

Progress == {"none", "called", "executed"}

Init == call = [c \in Clients |-> "none"]

Step(c, from, to) == call[c] = from /\ call' = [call EXCEPT ![c] = to]

Call(c)    == Step(c, "none", "called")
Execute(c) == Step(c, "called", "executed")
Return(c)  == Step(c, "executed", "none")

Next == \E c \in Clients : Call(c) \/ Execute(c) \/ Return(c)

Spec == Init /\ [][Next]_call

(* A call that is made is executed and returns.                            *)
FairSpec == Spec /\ \A c \in Clients : WF_call(Execute(c)) /\ WF_call(Return(c))

=============================================================================
