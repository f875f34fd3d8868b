------------------------------ MODULE MCTablePass ------------------------------
(* Model values for the runs of TablePass: the skews of the two servers, the   *)
(* options a pass may be started with, and the symmetry of the record ids.     *)
EXTENDS TablePassInv, TLC

NoLag == [s \in Sides |-> 0]
GreenBehind == [s \in Sides |-> IF s = "green" THEN 1 ELSE 0]
BlueAhead == [s \in Sides |-> IF s = "blue" THEN -1 ELSE 1]

ApplyBoth == {[apply |-> TRUE, oneWay |-> "both"]}
EveryMode == [apply : {TRUE}, oneWay : OneWayModes] \cup [apply : {FALSE}, oneWay : {"both"}]

Symmetry == Permutations(Ids)
=============================================================================
