---------------------------- MODULE MCToolRuntime ----------------------------
(* Instances of ToolRuntime for TLC. *)
EXTENDS ToolRuntime
===============================================================================
