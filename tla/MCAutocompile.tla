---------------------------- MODULE MCAutocompile ----------------------------
(***************************************************************************)
(* Instances of Autocompile for TLC.                                       *)
(***************************************************************************)
EXTENDS AutocompileInv
=============================================================================
