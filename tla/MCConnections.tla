--------------------------- MODULE MCConnections ---------------------------
(* Two ports, connected and disconnected in any order.                     *)
EXTENDS Connections

CONSTANTS p0, p1

=============================================================================
