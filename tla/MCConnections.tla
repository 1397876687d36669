--------------------------- MODULE MCConnections ---------------------------
(* Small pools and few threads for TLC.                                    *)
EXTENDS Connections
=============================================================================
