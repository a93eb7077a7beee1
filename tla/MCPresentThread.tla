--------------------------- MODULE MCPresentThread ---------------------------
(***************************************************************************)
(* TLC instances of PresentThread.                                         *)
(***************************************************************************)
EXTENDS PresentThreadInv

=============================================================================
