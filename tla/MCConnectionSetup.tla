------------------------- MODULE MCConnectionSetup -------------------------
(* Constants of ConnectionSetup for TLC.                                    *)
EXTENDS ConnectionSetup

CONSTANTS client, server

MCSides == {client, server}
=============================================================================
