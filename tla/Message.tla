------------------------------ MODULE Message ------------------------------
(***************************************************************************)
(* A message (dpn/message/src/Message.cpp): a buffer of fixed capacity, of *)
(* which the user sees the size_ data from offset_ on, and a zmq message   *)
(* that points at the start of the same buffer.  Only resize brings the    *)
(* two views together; a send takes the zmq message away.                  *)
(***************************************************************************)
EXTENDS Naturals, Sequences

CONSTANTS
  Capacity,         (* data a message holds: capacity_                     *)
  Blank             (* a datum never written                               *)

ASSUME MessageAssumption == Capacity \in Nat

NewMessage == [ size |-> 0, offset |-> 0,
                contents |-> 0,                    (* what zmq would send  *)
                buffer |-> [k \in 1 .. Capacity |-> Blank] ]

(* Mutant: the zmq message is not rebuilt.                                 *)
resizeOnly(m, size, offset) ==
  IF size + offset > Capacity THEN m
  ELSE [m EXCEPT !.size = size, !.offset = offset]

(* Too large a size only warns, and everything stays as it was.            *)
resize(m, size, offset) ==
  IF size + offset > Capacity THEN m
  ELSE [m EXCEPT !.size = size, !.offset = offset, !.contents = size]

(* The zmq message is left as it is.                                       *)
reset(m) == [m EXCEPT !.size = 0, !.offset = 0]

(* zmq has taken the frame.                                                *)
sent(m) == [m EXCEPT !.contents = 0]

(* Data written behind buffer(), which adds the offset.                    *)
write(m, at, data) ==
  [m EXCEPT !.buffer = [k \in DOMAIN @ |->
     IF k - (m.offset + at) \in DOMAIN data THEN data[k - (m.offset + at)] ELSE @[k]]]

(* What the user sees, and what zmq sends.                                 *)
shown(m) == SubSeq(m.buffer, m.offset + 1, m.offset + m.size)
frame(m) == SubSeq(m.buffer, 1, m.contents)

=============================================================================
