---------------------------- MODULE MCFollowups ----------------------------
(* Small instances of Followups for TLC.                                   *)
EXTENDS Followups
=============================================================================
