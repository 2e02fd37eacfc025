----------------------------- MODULE MCPushPull -----------------------------
(* One producer, one consumer.                                             *)
EXTENDS PushPull, MCPeer

=============================================================================
