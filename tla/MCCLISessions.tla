---------------------------- MODULE MCCLISessions ----------------------------
(***************************************************************************)
(* Instances of CLISessions for TLC.                                       *)
(***************************************************************************)
EXTENDS CLISessions, TLC

CONSTANTS t1, t2, t3

\* A conversation of two turns and one turn of another conversation.
MCParent == (t1 :> NoTurn) @@ (t2 :> t1) @@ (t3 :> NoTurn)
=============================================================================
