------------------------------- MODULE Mailbox -------------------------------
(***************************************************************************)
(* What Push promises, whatever carries it (Peer.hpp:86-100, 102-114): the *)
(* messages one peer pushes to another are handled there one at a time, in *)
(* the order of the calls, each once and with the contents and the         *)
(* interface of its call.                                                  *)
(***************************************************************************)
EXTENDS Naturals, Sequences

CONSTANTS Messages,     (* what can be pushed                               *)
          Nothing       (* no message in hand                               *)

VARIABLES posted,       (* the messages pushed and not yet taken            *)
          inHand        (* the message that is being handled                *)

Init == posted = <<>> /\ inHand = Nothing

Post(m) == posted' = Append(posted, m) /\ UNCHANGED inHand

Take ==
  /\ inHand = Nothing /\ posted # <<>>
  /\ inHand' = Head(posted) /\ posted' = Tail(posted)

Handled ==
  /\ inHand # Nothing
  /\ inHand' = Nothing /\ UNCHANGED posted

Next == Take \/ Handled \/ \E m \in Messages : Post(m)

Spec == Init /\ [][Next]_<<posted, inHand>>

(* The peer that is pushed to services its interfaces again and again.     *)
FairSpec == Spec /\ WF_<<posted, inHand>>(Take) /\ WF_<<posted, inHand>>(Handled)

=============================================================================
