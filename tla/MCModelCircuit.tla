---------------------------- MODULE MCModelCircuit ----------------------------
(* Instances of ModelCircuit for TLC. *)
EXTENDS ModelCircuit
===============================================================================
