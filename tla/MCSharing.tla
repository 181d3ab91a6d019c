----------------------------- MODULE MCSharing -----------------------------
(* An instance of Sharing for TLC.                                         *)
EXTENDS Sharing
=============================================================================
