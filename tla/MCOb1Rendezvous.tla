-------------------------- MODULE MCOb1Rendezvous --------------------------
(***************************************************************************)
(* Ob1Rendezvous for TLC: the constants are in the .cfg files.             *)
(***************************************************************************)
EXTENDS Ob1Rendezvous
=============================================================================
