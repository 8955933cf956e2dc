---------------------------- MODULE MCTcpServers ----------------------------
(* Constants of TcpServers for TLC.                                         *)
EXTENDS TcpServers

CONSTANTS c1, c2

MCClients == {c1, c2}
=============================================================================
