--------------------------- MODULE MCSemanticPublish ---------------------------
(* Instances of SemanticPublish for TLC. *)
EXTENDS SemanticPublish
===============================================================================
