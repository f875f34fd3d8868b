----------------------------- MODULE MCRunService -----------------------------
(* Two runs, the second of the server or a command; a file group that lists *)
(* its tables and one whose table is looked up.                             *)
EXTENDS RunService

TwoAndOne == {<<1, 1>>, <<1, 2>>, <<2, 1>>}
=============================================================================
