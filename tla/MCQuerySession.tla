---------------------------- MODULE MCQuerySession ----------------------------
(* Instances of QuerySession for TLC; every constant is given in a .cfg file. *)
EXTENDS QuerySession
===============================================================================
