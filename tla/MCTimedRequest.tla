--------------------------- MODULE MCTimedRequest ---------------------------
(* A client that gives up, and its replier.                                *)
EXTENDS TimedRequest, MCPeer

=============================================================================
