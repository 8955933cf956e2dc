----------------------------- MODULE MCPingPong -----------------------------
(* Constants of PingPong for TLC.                                           *)
EXTENDS PingPong

MCSides == {Client, Server}
=============================================================================
