---------------------------- MODULE MCRecordWriter ----------------------------
(* Tables of two fields: "name" is stored and described as it is everywhere,  *)
(* "note" is what the tables differ by.                                       *)
EXTENDS RecordWriter

TwoFields == {"name", "note"}

Col(kind, class, annotation, listed) ==
    [kind |-> kind, class |-> class, annotation |-> annotation, listed |-> listed]

Stored == Col("stored", "normal", "none", TRUE)
Absent == Col("absent", "normal", "none", FALSE)
Calculation == Col("computed", "other", "bare", TRUE)
PastThePage == Col("stored", "normal", "none", FALSE)
ThinKnows == Col("computed", "other", "false", TRUE)
FullKnows == Col("computed", "", "true", TRUE)
AutoEnter == Col("stored", "normal", "true", TRUE)

TableWith(blue, green, overrides, ignored) ==
    [columns |-> [s \in Sides |-> [f \in TwoFields |->
                     IF f = "name" THEN Stored ELSE IF s = "src" THEN blue ELSE green]],
     overrides |-> overrides, ignored |-> ignored]

SomeTables ==
    { TableWith(Stored, Stored, {}, {}),
      TableWith(Stored, Calculation, {}, {}),
      TableWith(Calculation, Calculation, {"note"}, {}),
      TableWith(Absent, Stored, {"note"}, {}),
      TableWith(PastThePage, Stored, {}, {}),
      TableWith(Stored, Stored, {}, {"note"}),
      TableWith(FullKnows, ThinKnows, {}, {}),
      TableWith(AutoEnter, Stored, {}, {}) }
=============================================================================
