-------------------------- MODULE MCSalesPipeline --------------------------
(* Small instances of SalesPipeline for TLC.                               *)
EXTENDS SalesPipeline
=============================================================================
