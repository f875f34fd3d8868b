------------------------------ MODULE MCApplyPool ------------------------------
(* A batch with more operations than workers, and one with a single operation. *)
EXTENDS ApplyPool
=============================================================================
