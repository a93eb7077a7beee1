------------------------------ MODULE MCTimers ------------------------------
(***************************************************************************)
(* TLC instances of the root counter.                                      *)
(***************************************************************************)
EXTENDS Timers

\* Every register write is a value of the narrow counter.
MCValues == 0..(Wrap - 1)

=============================================================================
