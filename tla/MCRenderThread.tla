--------------------------- MODULE MCRenderThread ---------------------------
(***************************************************************************)
(* TLC instances of RenderThread.                                          *)
(***************************************************************************)
EXTENDS RenderThreadInv

=============================================================================
