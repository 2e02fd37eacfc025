------------------------------- MODULE MCHub -------------------------------
(* Port objects and IDs are model values, given in the cfg files.          *)
EXTENDS Hub

CONSTANTS i0, i1, a, b, c, n0

=============================================================================
