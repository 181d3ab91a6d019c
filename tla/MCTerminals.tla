---------------------------- MODULE MCTerminals ----------------------------
(* An instance of Terminals for TLC.                                       *)
EXTENDS Terminals
=============================================================================
