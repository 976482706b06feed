---------------------------- MODULE MCGraphRevision ----------------------------
(* Instances of GraphRevision for TLC. *)
EXTENDS GraphRevision
===============================================================================
