--------------------------- MODULE MCSampleMirror ---------------------------
(***************************************************************************)
(* Instances of SampleMirror for TLC: two queryids that share one text, so *)
(* that each one's SamplesInRange can answer with the other's samples.     *)
(***************************************************************************)
EXTENDS SampleMirror

MCFingerprintQuery == [t \in QueryText |-> "f1"]
=============================================================================
