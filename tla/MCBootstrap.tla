------------------------------ MODULE MCBootstrap ------------------------------
(* A few rows over a short time: the heads are shorter than the table. *)
EXTENDS Bootstrap
TwoRows == 1 .. 2
=============================================================================
