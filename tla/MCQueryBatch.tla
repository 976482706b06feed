----------------------------- MODULE MCQueryBatch -----------------------------
(* Instances of QueryBatch for TLC; every constant is given in a .cfg file.   *)
EXTENDS QueryBatch
===============================================================================
