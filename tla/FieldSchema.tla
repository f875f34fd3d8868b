----------------------------- MODULE FieldSchema -----------------------------
(***************************************************************************)
(* Which fields of a row are copied: the two ways to ask a server for the  *)
(* fields of a table (internal/odata/metadata.go) and the allowlist        *)
(* runFileGroup makes of the two answers (internal/run/sync.go), with what *)
(* the allowlist does to a row that is written.                            *)
(*                                                                         *)
(* A server describes a field twice: by the FieldClass of its row in       *)
(* FileMaker_Fields, and by an annotation of its property in $metadata.    *)
(* Nothing makes the two agree with each other, with the other server, or  *)
(* with what the field is: they are independent here.  Fields has no       *)
(* primary key and no modification field, which are always on the list.    *)
(***************************************************************************)
CONSTANT Fields

\* What a table has of a field: whether the server lets it be written, the class
\* and the annotation it is described by ("bare" is one without a Bool), and
\* whether its row is on the one page of FileMaker_Fields, 1000 rows, that is read.
Column ==
    [kind : {"absent", "stored", "computed"},
     class : {"", "normal", "other"},
     annotation : {"none", "bare", "true", "false"},
     listed : BOOLEAN]

PropertySpec(f, computed) == [name |-> f, computed |-> computed]

FullSchema(columns) ==
    {PropertySpec(f, columns[f].annotation \in {"bare", "true"}) :
        f \in {g \in Fields : columns[g].kind # "absent"}}

ThinSchema(columns) ==
    {PropertySpec(f, columns[f].class \notin {"", "normal"}) :
        f \in {g \in Fields : columns[g].kind # "absent" /\ columns[g].listed}}

\* The thin schema if the server answers with rows of the table, however few (none
\* of Fields, if it has those of the key alone), or else $metadata.
PreferThinSchema(columns) == {FullSchema(columns), ThinSchema(columns)}

\* Faulty: the flags of the green table are not looked at.
AllowlistBlueOnly(blue, green, overrides, ignored) ==
    {b.name : b \in {p \in blue :
        /\ p.name \notin ignored
        /\ \E g \in green : g.name = p.name
        /\ p.name \in overrides \/ ~p.computed}}

\* Faulty: the fields with an override are the only ones.
AllowlistOverridesOnly(blue, green, overrides, ignored) ==
    {b.name : b \in {p \in blue :
        /\ p.name \notin ignored
        /\ \E g \in green :
              /\ g.name = p.name
              /\ p.name \in overrides \/ (overrides = {} /\ ~p.computed /\ ~g.computed)}}

BuildSyncFieldAllowlist(blue, green, overrides, ignored) ==
    {b.name : b \in {p \in blue :
        /\ p.name \notin ignored
        /\ \E g \in green :
              /\ g.name = p.name
              /\ p.name \in overrides \/ (~p.computed /\ ~g.computed)}}

\* What is left of a row where a copy of another is written over it.
Merged(row, copy, allowed) == [f \in Fields |-> IF f \in allowed THEN copy[f] ELSE row[f]]
=============================================================================
