------------------------------- MODULE MCP2P --------------------------------
(* Two clients that join one host in turn.                                 *)
EXTENDS P2P

CONSTANTS Alice, Bob
=============================================================================
