----------------------------- MODULE MCDispatch -----------------------------
(* A machine word of three bits, and counts up to its end.                   *)
EXTENDS Dispatch

MCCounts == {0, 3, 5, 7}
=============================================================================
