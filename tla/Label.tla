------------------------------- MODULE Label -------------------------------
(***************************************************************************)
(* The label every package carries (dpn/label/inc/Label.hpp).              *)
(*                                                                         *)
(* A label is the plain struct Contents, copied to and from raw memory:    *)
(* a message ID and the peer and interface at both ends.  The port IDs and *)
(* the type_ field are left out: every peer of this model uses the default *)
(* port, and no code ever writes or reads type_.                           *)
(***************************************************************************)
EXTENDS Naturals

CONSTANTS
  Peers,          (* the peer IDs in use                                   *)
  InterfaceIDs,   (* the interface IDs in use                              *)
  IDRange         (* MessageID is an unsigned integer below IDRange: 2^32  *)

ASSUME LabelAssumption == IDRange \in Nat \ {0}

MessageIDs == 0 .. IDRange - 1

Label == [ messageID : MessageIDs,
           srcPeer : Peers,  srcInterface : InterfaceIDs,
           destPeer : Peers, destInterface : InterfaceIDs ]

LabelFields == {"messageID", "srcPeer", "srcInterface", "destPeer", "destInterface"}

(* Mutant: the counter is wider than the field it is copied to.            *)
NextIDUnwrapped(id) == id + 1

(* Unsigned 32-bit increment, as in messageID_++.                          *)
NextID(id) == (id + 1) % IDRange

(* Mutant: only the peers change places.                                   *)
SwapPeers(label) ==
  [ label EXCEPT !.srcPeer = label.destPeer, !.destPeer = label.srcPeer ]

(* Label::Swap: the two ends change places, the ID stays.                  *)
Swap(label) ==
  [ label EXCEPT !.srcPeer = label.destPeer, !.srcInterface = label.destInterface,
                 !.destPeer = label.srcPeer, !.destInterface = label.srcInterface ]

(* What a copy of a Contents struct may yield while the struct is being    *)
(* overwritten by another thread: each field holds one of the values the   *)
(* field has during the overlap.                                           *)
Torn(labels) ==
  { l \in Label : \A f \in LabelFields : \E k \in labels : l[f] = k[f] }

(* The part of a label that decides who handles the package, and for whom. *)
Route(label) == <<label.srcPeer, label.srcInterface, label.destPeer, label.destInterface>>

=============================================================================
