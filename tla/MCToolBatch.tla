------------------------------ MODULE MCToolBatch ------------------------------
(* Instances of ToolBatch for TLC.                                          *)
EXTENDS ToolBatch
================================================================================
