---------------------------- MODULE MCGraphRuntime ----------------------------
(* Instances of GraphRuntime for TLC.                                       *)
EXTENDS GraphRuntime
================================================================================
