---------------------------- MODULE MCPolicyIndex ----------------------------
(* Small instances of PolicyIndex for TLC.                                 *)
EXTENDS PolicyIndex
=============================================================================
