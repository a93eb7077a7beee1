------------------------------ MODULE MCMemCard ------------------------------
(***************************************************************************)
(* Instances of MemCard for TLC.                                           *)
(***************************************************************************)
EXTENDS MemCardInv
=============================================================================
