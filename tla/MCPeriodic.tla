----------------------------- MODULE MCPeriodic -----------------------------
(***************************************************************************)
(* An instance of Periodic for TLC: the default threshold of 20% and a     *)
(* window of seven slots.                                                  *)
(***************************************************************************)
EXTENDS Periodic

MCThreshold == [num |-> 1, den |-> 5]
=============================================================================
