------------------------- MODULE RecordWriter_proofs -------------------------
(***************************************************************************)
(* Proofs about RecordWriter, for every set of fields and of tables, every *)
(* number of attempts and every choice of the faults that may happen.      *)
(***************************************************************************)
EXTENDS RecordWriter, TLAPS

\* A worker that writes, or looks for the record to write, has read the row, and
\* whatever is known or feared of a write happened after that.
ReadInv ==
    /\ step \in {"schema", "getPath", "getFilter", "skipped"} => read = NoRow
    /\ step \in Writes \cup {"lookup", "ok"} => read # NoRow
    /\ read = NoRow => late = {} /\ ~landed /\ ~lost

\* A write that may yet come, or that came and did not end the operation, is one
\* whose answer was lost.
LostInv ==
    /\ late # {} => lost
    /\ landed /\ step # "ok" => lost

\* A record is inserted where there is none, unless an answer was lost, and in any
\* case if the server keeps the key unique.
RecordInv ==
    /\ unique \/ ~lost => Len(dst) <= 1
    /\ step = "post" /\ ~lost => dst = <<>>

\* The allowlist has the fields it must have, and what the target does not store
\* only if it is forced, or passes for stored on both sides.
Stored(t, f) == t.columns["dst"][f].kind = "stored"

ListInv(t, list) ==
    /\ \A f \in list : Stored(t, f) \/ Forced(t, f)
    /\ \A f \in Shared(t) : f \in list \/ LeftOut(t, f)

FieldInv ==
    /\ step \in Reads \cup Writes => ListInv(table, allowed)
    /\ RefusedOnlyIfForced

WriterInv == TypeOK /\ ReadInv /\ LostInv /\ RecordInv /\ FieldInv
-----------------------------------------------------------------------------
(* What the operators of the model give.                                   *)

LEMMA Numbers ==
    /\ MaxHttp \in Nat \ {0} /\ MaxLock \in Nat \ {0} /\ MaxRead \in Nat \ {0}
    /\ MaxEdits \in Nat
  BY WriterAssumption

\* TypeOK in two parts: where the worker is, and all the rest.
LoopTypes ==
    /\ step \in {"schema"} \cup Reads \cup Writes \cup Ends
    /\ http \in 1 .. MaxHttp
    /\ tries \in 1 .. (IF step \in Reads THEN MaxRead ELSE MaxLock)
    /\ err \in {"none", "schema", "mismatch", "fields", "unique", "status", "transport",
                "cancelled", "record_lock", "source_read"}

RestTypes ==
    /\ table \in Tables /\ addr \in [Sides -> Addresses] /\ unique \in BOOLEAN
    /\ edits \in Nat
    /\ src \in Row \cup {NoRow} /\ dst \in Seq(Row)
    /\ allowed \subseteq Fields
    /\ read \in Row \cup {NoRow}
    /\ ctxDone \in BOOLEAN /\ late \subseteq Writes
    /\ landed \in BOOLEAN /\ lost \in BOOLEAN

LEMMA TypeParts == TypeOK <=> LoopTypes /\ RestTypes
  BY DEF TypeOK, LoopTypes, RestTypes

LEMMA RowFacts ==
    /\ \A s, v : v \in Nat => Contents(s, v) \in Row
    /\ \A row, copy \in Row : \A A : Merged(row, copy, A) \in Row
    /\ [f \in Fields |-> 0] \in Row
  BY DEF Row, Contents, Merged

\* A PATCH writes a record there is, a POST makes one.
LEMMA ExecutesFacts ==
  ASSUME TypeOK, read # NoRow, NEW w, Executes(w)
  PROVE  /\ dst' \in Seq(Row)
         /\ w # "post" => Len(dst') = Len(dst)
         /\ w = "post" => Len(dst') = Len(dst) + 1 /\ (unique => dst = <<>>)
  <1>1. dst \in Seq(Row) /\ read \in Row
    BY DEF TypeOK
  <1>2. ASSUME NEW i \in DOMAIN dst, Overwrite(i)
        PROVE  dst' \in Seq(Row) /\ Len(dst') = Len(dst)
    <2>1. Merged(dst[i], read, allowed) \in Row
      BY <1>1, RowFacts
    <2> QED  BY <1>1, <1>2, <2>1 DEF Overwrite
  <1>3. ASSUME Insert
        PROVE  dst' \in Seq(Row) /\ Len(dst') = Len(dst) + 1
    <2>1. Merged([f \in Fields |-> 0], read, allowed) \in Row
      BY <1>1, RowFacts
    <2> QED  BY <1>1, <1>3, <2>1 DEF Insert
  <1> QED  BY <1>2, <1>3 DEF Executes

\* Whichever schemas answered, the allowlist has what FieldInv wants of it.
LEMMA AllowlistFacts ==
  ASSUME NEW t \in Tables,
         NEW blue \in PreferThinSchema(t.columns["src"]),
         NEW green \in PreferThinSchema(t.columns["dst"]),
         NEW list, list = BuildSyncFieldAllowlist(blue, green, t.overrides, t.ignored)
  PROVE  list \subseteq Fields /\ ListInv(t, list)
  <1>1. \A f, c : PropertySpec(f, c).name = f /\ PropertySpec(f, c).computed = c
    BY DEF PropertySpec
  <1>2. ASSUME NEW columns, NEW schema \in PreferThinSchema(columns)
        PROVE  /\ \A p \in schema : \E f \in Fields, c \in BOOLEAN :
                     p = PropertySpec(f, c) /\ columns[f].kind # "absent"
               /\ \A f \in Fields : columns[f].kind # "absent" /\ columns[f].listed =>
                     \E c \in BOOLEAN : PropertySpec(f, c) \in schema
    <2>1. schema \in {FullSchema(columns), ThinSchema(columns)}
      BY <1>2 DEF PreferThinSchema
    <2>2. CASE schema = FullSchema(columns)
      <3> DEFINE flag(f) == columns[f].annotation \in {"bare", "true"}
      <3>1. \A f : flag(f) \in BOOLEAN
        OBVIOUS
      <3>2. schema = {PropertySpec(f, flag(f)) : f \in {g \in Fields : columns[g].kind # "absent"}}
        BY <2>2 DEF FullSchema
      <3> HIDE DEF flag
      <3> QED  BY <3>1, <3>2
    <2>3. CASE schema = ThinSchema(columns)
      BY <2>3 DEF ThinSchema
    <2> QED  BY <2>1, <2>2, <2>3
  <1>3. ASSUME NEW f \in list
        PROVE  f \in Fields /\ (Stored(t, f) \/ Forced(t, f))
    <2>1. PICK b \in blue, g \in green :
             /\ b.name = f /\ g.name = f
             /\ f \in t.overrides \/ (~b.computed /\ ~g.computed)
      BY <1>3 DEF BuildSyncFieldAllowlist
    <2>2. PICK c \in BOOLEAN : b = PropertySpec(f, c) /\ f \in Fields
      BY <1>1, <1>2, <2>1
    <2>3. PICK d \in BOOLEAN : g = PropertySpec(f, d) /\ t.columns["dst"][f].kind # "absent"
      BY <1>1, <1>2, <2>1
    <2>4. t.columns["dst"][f].kind \in {"absent", "stored", "computed"}
      BY <2>2, WriterAssumption DEF Sides, Column
    <2>5. f \in t.overrides \/ (c = FALSE /\ d = FALSE)
      BY <1>1, <2>1, <2>2, <2>3
    <2>6. c = FALSE => Describes(t, "src", f, FALSE)
      BY <2>2 DEF Describes
    <2>7. d = FALSE => Describes(t, "dst", f, FALSE)
      BY <2>3 DEF Describes
    <2> QED  BY <2>2, <2>3, <2>4, <2>5, <2>6, <2>7 DEF Stored, Forced, Sides
  <1>4. ASSUME NEW f \in Shared(t), ~LeftOut(t, f)
        PROVE  f \in list
    <2>1. /\ f \in Fields /\ f \notin t.ignored
          /\ \A s \in Sides : t.columns[s][f].kind = "stored"
      BY <1>4 DEF Shared
    <2>2. \A s \in Sides : t.columns[s][f].listed
      BY <1>4 DEF LeftOut, CutOff
    <2>3. PICK c \in BOOLEAN : PropertySpec(f, c) \in blue
      BY <1>2, <2>1, <2>2 DEF Sides
    <2>4. PICK d \in BOOLEAN : PropertySpec(f, d) \in green
      BY <1>2, <2>1, <2>2 DEF Sides
    <2>5. f \in t.overrides \/ (~c /\ ~d)
      <3>1. f \notin t.overrides => ~Describes(t, "src", f, TRUE) /\ ~Describes(t, "dst", f, TRUE)
        BY <1>4 DEF LeftOut, Sides
      <3> QED  BY <2>3, <2>4, <3>1 DEF Describes
    <2> QED  BY <1>1, <2>1, <2>3, <2>4, <2>5 DEF BuildSyncFieldAllowlist
  <1> QED  BY <1>3, <1>4 DEF ListInv
-----------------------------------------------------------------------------
(* Every step keeps WriterInv.                                             *)

LEMMA InitWriterInv == Init => WriterInv
  <1> SUFFICES ASSUME Init
               PROVE  WriterInv
    OBVIOUS
  <1> USE DEF Init
  <1>1. TypeOK
    <2>1. Contents("src", 1) \in Row /\ Contents("dst", 2) \in Row
      BY RowFacts
    <2>2. src \in Row \cup {NoRow} /\ dst \in Seq(Row)
      <3>1. \A row \in Row : <<row>> \in Seq(Row)
        OBVIOUS
      <3>2. <<>> \in Seq(Row)
        OBVIOUS
      <3> QED  BY <2>1, <3>1, <3>2, Zenon
    <2>3. ctxDone \in BOOLEAN /\ landed \in BOOLEAN /\ lost \in BOOLEAN
      BY Zenon
    <2>4. RestTypes
      BY <2>2, <2>3 DEF RestTypes
    <2>5. LoopTypes
      BY Numbers DEF LoopTypes, Reads
    <2> QED  BY <2>4, <2>5, TypeParts
  <1>2. ReadInv /\ LostInv
    BY DEF ReadInv, LostInv, Writes
  <1>3. RecordInv
    <2>1. dst = <<>> \/ Len(dst) = 1
      OBVIOUS
    <2>2. Len(<<>>) = 0
      OBVIOUS
    <2>3. Len(dst) <= 1
      <3>1. Len(dst) = 0 \/ Len(dst) = 1
        BY <2>1, <2>2, Zenon
      <3>2. \A n : n = 0 \/ n = 1 => n <= 1
        OBVIOUS
      <3> QED  BY <3>1, <3>2, Zenon
    <2> QED  BY <2>3 DEF RecordInv
  <1>4. FieldInv
    BY DEF FieldInv, RefusedOnlyIfForced, Reads, Writes
  <1> QED  BY <1>1, <1>2, <1>3, <1>4 DEF WriterInv

LEMMA UserKeepsInv ==
  ASSUME WriterInv, User
  PROVE  WriterInv'
  <1>1. /\ edits' \in Nat /\ src' \in Row \cup {NoRow} /\ dst' \in Seq(Row)
        /\ Len(dst') <= Len(dst) /\ (dst = <<>> => dst' = <<>>)
    <2> USE DEF WriterInv, TypeOK
    <2>1. CASE UNCHANGED dst
      BY <2>1, RowFacts DEF User
    <2>2. CASE dst # <<>> /\ dst' = Tail(dst) /\ UNCHANGED src
      BY <2>2 DEF User
    <2>3. ASSUME NEW i \in DOMAIN dst, dst' = [dst EXCEPT ![i] = Contents("dst", edits + 3)],
                 UNCHANGED src
          PROVE  /\ dst' \in Seq(Row) /\ src' \in Row \cup {NoRow}
                 /\ Len(dst') = Len(dst)
      <3>1. Contents("dst", edits + 3) \in Row
        BY RowFacts
      <3> QED  BY <2>3, <3>1
    <2> QED  BY <2>1, <2>2, <2>3 DEF User
  <1>2. UNCHANGED <<table, addr, unique, allowed, loop, read, ctxDone, ghost>>
    BY DEF User
  <1> USE <1>2 DEF WriterInv, loop, ghost
  <1>3. TypeOK'
    BY <1>1 DEF TypeOK
  <1>4. ReadInv' /\ LostInv'
    BY DEF ReadInv, LostInv
  <1>5. RecordInv'
    BY <1>1 DEF RecordInv, TypeOK
  <1>6. FieldInv'
    BY DEF FieldInv, RefusedOnlyIfForced
  <1> QED  BY <1>3, <1>4, <1>5, <1>6

LEMMA CancelKeepsInv ==
  ASSUME WriterInv, Cancel \/ UNCHANGED vars
  PROVE  WriterInv'
  <1> USE DEF WriterInv, Cancel, vars, world, loop, ghost
  <1>1. TypeOK'
    BY DEF TypeOK
  <1>2. ReadInv' /\ LostInv' /\ RecordInv'
    BY DEF ReadInv, LostInv, RecordInv
  <1>3. FieldInv'
    BY DEF FieldInv, RefusedOnlyIfForced
  <1> QED  BY <1>1, <1>2, <1>3

LEMMA FetchSchemasKeepsInv ==
  ASSUME WriterInv, FetchSchemas
  PROVE  WriterInv'
  <1> USE DEF WriterInv, FetchSchemas, NoWrite, Go, world, ghost
  <1>1. allowed' \subseteq Fields /\ ListInv(table, allowed')
    BY AllowlistFacts DEF TypeOK
  <1>2. TypeOK'
    BY <1>1, Numbers DEF TypeOK, Reads
  <1>3. ReadInv' /\ LostInv' /\ RecordInv'
    BY DEF ReadInv, LostInv, RecordInv, Writes
  <1>4. FieldInv'
    BY <1>1 DEF FieldInv, RefusedOnlyIfForced
  <1> QED  BY <1>2, <1>3, <1>4

LEMMA SchemaFailsKeepsInv ==
  ASSUME WriterInv, SchemaFails
  PROVE  WriterInv'
  <1> USE DEF WriterInv, SchemaFails, NoWrite, Fatal, EndWith, world, ghost
  <1>1. TypeOK'
    BY Numbers DEF TypeOK, Reads, Writes, Ends
  <1>2. ReadInv' /\ LostInv' /\ RecordInv'
    BY DEF ReadInv, LostInv, RecordInv, Writes
  <1>3. FieldInv'
    BY DEF FieldInv, RefusedOnlyIfForced, Reads, Writes
  <1> QED  BY <1>1, <1>2, <1>3

\* The answers to a read, and the refusal of a key, that lead to the next request.
Led ==
    ReadSource \/ SourceNotByPath \/ SourceGone \/ TargetFound \/ TargetNotFound \/ KeyMismatch

LEMMA LedKeepsInv ==
  ASSUME WriterInv, Led
  PROVE  WriterInv'
  <1> USE DEF WriterInv, Led, ReadSource, SourceNotByPath, SourceGone, TargetFound,
             TargetNotFound, KeyMismatch, NoWrite, Go, Fatal, EndWith, world, ghost
  <1>1. TypeOK'
    <2>1. LoopTypes /\ RestTypes
      BY TypeParts
    <2>2. LoopTypes'
      BY <2>1, Numbers DEF LoopTypes, Reads, Writes, Ends
    <2>3. RestTypes'
      BY <2>1 DEF RestTypes
    <2> QED  BY <2>2, <2>3 DEF TypeOK, LoopTypes, RestTypes
  <1>2. ReadInv'
    BY DEF ReadInv, Writes
  <1>3. LostInv'
    BY DEF LostInv
  <1>4. RecordInv'
    BY DEF RecordInv
  <1>5. FieldInv'
    BY DEF FieldInv, RefusedOnlyIfForced, Reads, Writes
  <1> QED  BY <1>1, <1>2, <1>3, <1>4, <1>5

\* The answers after which nothing was written and nothing read.
Turned == Refused \/ Locked \/ BadStatus

LEMMA TurnedKeepsInv ==
  ASSUME WriterInv, Turned
  PROVE  WriterInv'
  <1> USE DEF WriterInv, Turned, Refused, Locked, BadStatus, NoWrite, Resend, ReadAgain,
             LockAgain, Again, Fatal, EndWith, world, ghost
  <1>1. TypeOK'
    <2>1. LoopTypes /\ RestTypes
      BY TypeParts
    <2>2. LoopTypes'
      BY <2>1, Numbers DEF LoopTypes, Reads, Writes, Ends
    <2>3. RestTypes'
      BY <2>1 DEF RestTypes
    <2> QED  BY <2>2, <2>3 DEF TypeOK, LoopTypes, RestTypes
  <1>2. ReadInv'
    BY DEF ReadInv, Reads, Writes
  <1>3. LostInv'
    BY DEF LostInv, Reads, Writes
  <1>4. RecordInv'
    BY DEF RecordInv
  <1>5. FieldInv'
    <2>1. FieldsRefused /\ step \in Writes => \E f \in Fields : Forced(table, f)
      BY DEF FieldsRefused, FieldInv, ListInv, Stored, TypeOK
    <2> QED  BY <2>1 DEF FieldInv, RefusedOnlyIfForced, Reads, Writes
  <1> QED  BY <1>1, <1>2, <1>3, <1>4, <1>5

LEMMA WriteOkKeepsInv ==
  ASSUME WriterInv, WriteOk
  PROVE  WriterInv'
  <1> USE DEF WriterInv, WriteOk, Go, world
  <1>1. /\ read # NoRow /\ dst' \in Seq(Row)
        /\ step # "post" => Len(dst') = Len(dst)
        /\ step = "post" => Len(dst') = Len(dst) + 1 /\ (unique => dst = <<>>)
    BY ExecutesFacts DEF ReadInv
  <1>2. TypeOK'
    BY <1>1, Numbers DEF TypeOK, Reads, Writes, Ends
  <1>3. ReadInv' /\ LostInv'
    BY <1>1 DEF ReadInv, LostInv, Writes
  <1>4. RecordInv'
    <2>1. Len(dst) \in Nat /\ (dst = <<>> => Len(dst) = 0)
      BY DEF TypeOK
    <2> QED  BY <1>1, <2>1 DEF RecordInv
  <1>5. FieldInv'
    BY DEF FieldInv, RefusedOnlyIfForced, Reads, Writes
  <1> QED  BY <1>2, <1>3, <1>4, <1>5

\* What becomes of the target, and of what is known of it, when an answer is lost.
LEMMA LostFacts ==
  ASSUME WriterInv, step \in Reads \cup Writes, RequestIsLost
  PROVE  /\ dst' \in Seq(Row) /\ late' \subseteq Writes
         /\ landed' \in BOOLEAN /\ lost' \in BOOLEAN
         /\ unique => Len(dst') <= 1
         /\ lost => lost'
         /\ ~lost' => UNCHANGED <<dst, landed>>
         /\ late' # {} \/ landed' => lost'
         /\ read = NoRow => late' = {} /\ ~landed' /\ ~lost'
  <1> USE DEF WriterInv
  <1>1. CASE step \in Reads
    <2>1. UNCHANGED <<dst, ghost>> /\ step # "ok"
      BY <1>1 DEF RequestIsLost, NoWrite, Reads, Writes
    <2> QED  BY <2>1 DEF ghost, TypeOK, ReadInv, LostInv, RecordInv
  <1>2. CASE step \in Writes
    <2>1. read # NoRow /\ lost' = TRUE
      BY <1>2 DEF RequestIsLost, WriteIsLost, ReadInv
    <2>2. late' \subseteq Writes
      BY <1>2 DEF RequestIsLost, WriteIsLost, TypeOK
    <2>3. \/ Executes(step) /\ landed' = TRUE
          \/ UNCHANGED <<dst, landed>>
      BY <1>2 DEF RequestIsLost, WriteIsLost
    <2>4. CASE Executes(step) /\ landed' = TRUE
      <3>1. /\ dst' \in Seq(Row)
            /\ step # "post" => Len(dst') = Len(dst)
            /\ step = "post" => Len(dst') = Len(dst) + 1 /\ (unique => dst = <<>>)
        BY <2>1, <2>4, ExecutesFacts
      <3>2. Len(dst) \in Nat /\ (dst = <<>> => Len(dst) = 0) /\ (unique => Len(dst) <= 1)
        BY DEF TypeOK, RecordInv
      <3>3. unique => Len(dst') <= 1
        BY <3>1, <3>2
      <3> QED  BY <2>1, <2>2, <2>4, <3>1, <3>3
    <2>5. CASE UNCHANGED <<dst, landed>>
      BY <2>1, <2>2, <2>5 DEF TypeOK, RecordInv
    <2> QED  BY <2>3, <2>4, <2>5
  <1> QED  BY <1>1, <1>2

\* A request that ends, or is sent again, without an answer.
Unanswered == TimesOut \/ Breaks \/ Cancelled

LEMMA UnansweredKeepsInv ==
  ASSUME WriterInv, Unanswered
  PROVE  WriterInv'
  <1> USE DEF WriterInv, Unanswered, TimesOut, Breaks, Cancelled, Resend, Exhausted,
             ReadAgain, Again, Fatal, EndWith, world
  <1>1. /\ step \in Reads \cup Writes /\ RequestIsLost
        /\ UNCHANGED <<table, addr, unique, edits, src, allowed, read>>
        /\ step' \in {step, "deferred", "fatal"} /\ (err' = "fields" => err = "fields")
        /\ ctxDone' = ctxDone
    OBVIOUS
  <1>2. TypeOK'
    <2>1. LoopTypes /\ RestTypes
      BY TypeParts
    <2>2. LoopTypes'
      BY <2>1, Numbers DEF LoopTypes, Reads, Writes, Ends
    <2> HIDE DEF WriterInv, Unanswered
    <2>3. RestTypes'
      BY <1>1, <2>1, LostFacts DEF RestTypes
    <2> QED  BY <2>2, <2>3 DEF TypeOK, LoopTypes, RestTypes
  <1> HIDE DEF Unanswered
  <1>3. ReadInv' /\ LostInv'
    <2>1. /\ read = NoRow => late' = {} /\ ~landed' /\ ~lost'
          /\ late' # {} \/ landed' => lost'
      BY <1>1, LostFacts
    <2>2. step \notin {"schema", "skipped", "ok"}
      BY <1>1 DEF Reads, Writes
    <2> QED  BY <1>1, <2>1, <2>2 DEF ReadInv, LostInv, Writes
  <1>4. RecordInv'
    BY <1>1, LostFacts DEF RecordInv
  <1>5. FieldInv'
    BY <1>1 DEF FieldInv, RefusedOnlyIfForced, Reads, Writes
  <1> QED  BY <1>2, <1>3, <1>4, <1>5

LEMMA LandLateKeepsInv ==
  ASSUME WriterInv, NEW w \in Writes, LandLate(w)
  PROVE  WriterInv'
  <1> USE DEF WriterInv, LandLate, world, loop
  <1>1. read # NoRow /\ lost
    BY DEF ReadInv, LostInv
  <1>2. /\ dst' \in Seq(Row)
        /\ w # "post" => Len(dst') = Len(dst)
        /\ w = "post" => Len(dst') = Len(dst) + 1 /\ (unique => dst = <<>>)
    BY <1>1, ExecutesFacts
  <1>3. TypeOK'
    BY <1>2 DEF TypeOK
  <1>4. ReadInv' /\ LostInv'
    BY <1>1 DEF ReadInv, LostInv
  <1>5. RecordInv'
    <2>1. Len(dst) \in Nat /\ (dst = <<>> => Len(dst) = 0)
      BY DEF TypeOK
    <2> QED  BY <1>1, <1>2, <2>1 DEF RecordInv
  <1>6. FieldInv'
    BY DEF FieldInv, RefusedOnlyIfForced
  <1> QED  BY <1>3, <1>4, <1>5, <1>6

LEMMA StepWriterInv == WriterInv /\ [Next]_vars => WriterInv'
  <1> SUFFICES ASSUME WriterInv, [Next]_vars
               PROVE  WriterInv'
    OBVIOUS
  <1> QED  BY UserKeepsInv, CancelKeepsInv, FetchSchemasKeepsInv, SchemaFailsKeepsInv,
              LedKeepsInv, TurnedKeepsInv, WriteOkKeepsInv, UnansweredKeepsInv,
              LandLateKeepsInv
           DEF Next, Answer, Led, Turned, Unanswered, Done

\* The invariant of one operation, from which the results below follow.
THEOREM WriterInvariant == Spec => []WriterInv
  BY InitWriterInv, StepWriterInv, PTL DEF Spec

\* Every variable of the worker keeps its type, and no loop exceeds its attempts.
THEOREM WriterTypeCorrect == Spec => []TypeOK
  <1>1. WriterInv => TypeOK
    BY DEF WriterInv
  <1> QED  BY <1>1, WriterInvariant, PTL

\* A second record of a key needs a lost answer and a server that lets it be.
THEOREM NoSecondRecord == Spec => []OneRecord
  <1>1. WriterInv => OneRecord
    <2> SUFFICES ASSUME WriterInv, Len(dst) > 1
                 PROVE  lost /\ ~unique
      BY DEF OneRecord
    <2>1. Len(dst) \in Nat /\ lost \in BOOLEAN /\ unique \in BOOLEAN
      BY DEF WriterInv, TypeOK
    <2>2. ~(unique \/ ~lost)
      BY <2>1 DEF WriterInv, RecordInv
    <2> QED  BY <2>2
  <1> QED  BY <1>1, WriterInvariant, PTL

\* Only a computed field that an override forces on the list, or that a schema of
\* each server calls writable, makes the target refuse a row for its fields.
THEOREM RefusalsAreForced == Spec => []RefusedOnlyIfForced
  <1>1. WriterInv => RefusedOnlyIfForced
    BY DEF WriterInv, FieldInv
  <1> QED  BY <1>1, WriterInvariant, PTL

\* A copied row has all the fields both tables store, except those that a page of
\* FileMaker_Fields cuts off or a schema calls computed.
THEOREM CopiesAreComplete == Spec => CopiedInFull
  <1>1. ASSUME WriterInv, [Next]_vars, step # "ok", step' = "ok"
        PROVE  \E i \in DOMAIN dst' : \A f \in Shared(table) :
                  dst'[i][f] = read[f] \/ LeftOut(table, f)
    <2>1. WriteOk
      <3>1. ~(User \/ Cancel \/ Done \/ UNCHANGED vars \/ \E w \in Writes : LandLate(w))
        BY <1>1 DEF User, Cancel, Done, vars, loop, LandLate
      <3>2. ~(FetchSchemas \/ SchemaFails)
        BY <1>1 DEF FetchSchemas, SchemaFails, Go, Fatal, EndWith
      <3>3. ~Led
        BY <1>1 DEF Led, ReadSource, SourceNotByPath, SourceGone, TargetFound,
              TargetNotFound, KeyMismatch, Go, Fatal, EndWith
      <3>4. ~Turned
        BY <1>1 DEF Turned, Refused, Locked, BadStatus, Resend, ReadAgain, LockAgain, Again,
              Fatal, EndWith
      <3>5. ~Unanswered
        BY <1>1 DEF Unanswered, TimesOut, Breaks, Cancelled, Resend, ReadAgain, Again,
              Fatal, EndWith
      <3> QED  BY <1>1, <3>1, <3>2, <3>3, <3>4, <3>5 DEF Next, Answer, Led, Turned, Unanswered
    <2>2. ListInv(table, allowed)
      <3>1. step \in Reads \cup Writes
        BY <2>1 DEF WriteOk
      <3> QED  BY <1>1, <3>1 DEF WriterInv, FieldInv
    <2>3. PICK i \in DOMAIN dst' : \E row : dst'[i] = Merged(row, read, allowed)
      <3>1. CASE \E i \in DOMAIN dst : Overwrite(i)
        <4>1. PICK i \in DOMAIN dst : Overwrite(i)
          BY <3>1
        <4>2. i \in DOMAIN dst' /\ dst'[i] = Merged(dst[i], read, allowed)
          BY <4>1 DEF Overwrite
        <4> QED  BY <4>2
      <3>2. CASE Insert
        <4> DEFINE row == Merged([f \in Fields |-> 0], read, allowed)
        <4>1. dst \in Seq(Row) /\ dst' = Append(dst, row)
          BY <1>1, <3>2 DEF Insert, WriterInv, TypeOK
        <4> HIDE DEF row
        <4>2. Len(dst) + 1 \in DOMAIN dst' /\ dst'[Len(dst) + 1] = row
          BY <4>1
        <4> QED  BY <4>2 DEF row
      <3> QED  BY <2>1, <3>1, <3>2 DEF WriteOk, Executes
    <2> QED  BY <2>2, <2>3 DEF Merged, ListInv, Shared
  <1>2. WriterInv /\ [Next]_vars =>
           [step # "ok" /\ step' = "ok" =>
              \E i \in DOMAIN dst' : \A f \in Shared(table) :
                  dst'[i][f] = read[f] \/ LeftOut(table, f)]_vars
    BY <1>1
  <1> QED  BY <1>2, WriterInvariant, PTL DEF Spec, CopiedInFull
-----------------------------------------------------------------------------
(* The worker keeps the contract of the apply phase.                       *)

\* What the contract sees of the step the worker is at.
ResultBar == IF step \in Ends THEN step ELSE "open"

LEMMA InitKeepsContract == Init => Contract!Init
  BY DEF Init, Contract!Init, Ends

LEMMA Unseen ==
  ASSUME UNCHANGED <<edits, src, dst, allowed, read, landed, lost>>, ResultBar' = ResultBar
  PROVE  UNCHANGED Contract!vars
  BY DEF Contract!vars, ResultBar

\* Executing a write is what the contract calls Written.
LEMMA ExecutesWrites ==
  ASSUME NEW w, Executes(w)
  PROVE  Contract!Written
  <1>1. \A row, copy, list : Merged(row, copy, list) = Contract!Merged(row, copy, list)
    BY DEF Merged, Contract!Merged
  <1>2. ASSUME NEW i \in DOMAIN dst, Overwrite(i)
        PROVE  Contract!Written
    BY <1>1, <1>2 DEF Overwrite, Contract!Written
  <1>3. ASSUME Insert
        PROVE  Contract!Written
    BY <1>1, <1>3 DEF Insert, Contract!Written
  <1> QED  BY <1>2, <1>3 DEF Executes

LEMMA UserIsUser ==
  ASSUME User
  PROVE  Contract!User
  BY DEF User, Contract!User, loop, ghost, Ends

LEMMA FetchSchemasPrepares ==
  ASSUME WriterInv, FetchSchemas
  PROVE  Contract!Prepare
  <1>1. read = NoRow /\ allowed' \subseteq Fields
    BY AllowlistFacts DEF WriterInv, ReadInv, TypeOK, FetchSchemas
  <1> QED  BY <1>1 DEF FetchSchemas, Contract!Prepare, Go, NoWrite, world, ghost, Ends

LEMMA SchemaFailureFails ==
  ASSUME SchemaFails
  PROVE  Contract!Fail
  BY DEF SchemaFails, Contract!Fail, Contract!End, Fatal, EndWith, NoWrite, world, ghost, Ends

LEMMA LedIsAllowed ==
  ASSUME WriterInv, Led
  PROVE  Contract!Next \/ UNCHANGED Contract!vars
  <1> USE DEF Go, NoWrite, world, ghost, Ends
  <1>1. CASE ReadSource
    <2>1. read = NoRow
      BY <1>1 DEF ReadSource, WriterInv, ReadInv
    <2> QED  BY <1>1, <2>1 DEF ReadSource, Contract!Read, Contract!Next
  <1>2. CASE SourceGone
    <2>1. read = NoRow
      BY <1>2 DEF SourceGone, WriterInv, ReadInv
    <2> QED  BY <1>2, <2>1 DEF SourceGone, Contract!Skip, Contract!End, Contract!Next
  <1>3. CASE TargetFound /\ Fatal("mismatch")
    BY <1>3 DEF TargetFound, Fatal, EndWith, Contract!Fail, Contract!End, Contract!Next
  <1>4. CASE \/ SourceNotByPath \/ TargetNotFound \/ KeyMismatch
             \/ TargetFound /\ ~Fatal("mismatch")
    BY <1>4, Unseen DEF SourceNotByPath, TargetNotFound, KeyMismatch, TargetFound, ResultBar
  <1> QED  BY <1>1, <1>2, <1>3, <1>4 DEF Led

LEMMA TurnedIsAllowed ==
  ASSUME WriterInv, Turned
  PROVE  Contract!Next \/ UNCHANGED Contract!vars
  <1>1. /\ UNCHANGED <<edits, src, dst, allowed, read, landed, lost>>
        /\ step \in Reads \cup Writes
        /\ step' \in {step, "fatal", "deferred"}
    BY DEF Turned, Refused, Locked, BadStatus, NoWrite, Resend, ReadAgain, LockAgain, Again,
       Fatal, EndWith, world, ghost
  <1>2. landed => lost
    BY <1>1 DEF WriterInv, LostInv, Reads, Writes
  <1>3. step \notin Ends
    BY <1>1 DEF Reads, Writes, Ends
  <1>4. CASE step' = step
    BY <1>1, <1>4, Unseen DEF ResultBar
  <1>5. CASE step' = "fatal"
    BY <1>1, <1>3, <1>5 DEF Ends, Contract!Fail, Contract!End, Contract!Next
  <1>6. CASE step' = "deferred"
    BY <1>1, <1>2, <1>3, <1>6 DEF Ends, Contract!Defer, Contract!End, Contract!Next
  <1> QED  BY <1>1, <1>4, <1>5, <1>6

LEMMA WriteOkLands ==
  ASSUME WriterInv, WriteOk
  PROVE  Contract!Next
  <1>1. read # NoRow /\ Contract!Written
    BY ExecutesWrites DEF WriteOk, WriterInv, ReadInv
  <1>2. step \notin Ends /\ "ok" \in Ends
    BY DEF WriteOk, Writes, Ends
  <1> QED  BY <1>1, <1>2 DEF WriteOk, Go, world, Contract!Land, Contract!Next

LEMMA UnansweredIsAllowed ==
  ASSUME WriterInv, Unanswered
  PROVE  Contract!Next \/ UNCHANGED Contract!vars
  <1>1. /\ step \in Reads \cup Writes /\ RequestIsLost
        /\ UNCHANGED <<edits, src, allowed, read>>
        /\ step' \in {step, "fatal"} \cup (IF step \in Reads THEN {"deferred"} ELSE {})
    BY DEF Unanswered, TimesOut, Breaks, Cancelled, Resend, ReadAgain, Again, Fatal, EndWith,
       world
  <1>2. step \notin Ends /\ {"fatal", "deferred"} \subseteq Ends
    BY <1>1 DEF Reads, Writes, Ends
  <1>3. CASE step \in Reads
    <2>1. UNCHANGED <<dst, landed, lost>>
      BY <1>1, <1>3 DEF RequestIsLost, NoWrite, ghost, Reads, Writes
    <2>2. landed => lost
      BY <1>3 DEF WriterInv, LostInv, Reads
    <2>3. CASE step' = step
      BY <1>1, <2>1, <2>3, Unseen DEF ResultBar
    <2>4. CASE step' = "fatal"
      BY <1>1, <1>2, <2>1, <2>4 DEF Contract!Fail, Contract!End, Contract!Next
    <2>5. CASE step' = "deferred"
      BY <1>1, <1>2, <2>1, <2>2, <2>5 DEF Contract!Defer, Contract!End, Contract!Next
    <2> QED  BY <1>1, <2>3, <2>4, <2>5
  <1>4. CASE step \in Writes
    <2>1. read # NoRow /\ lost' = TRUE
      BY <1>1, <1>4 DEF RequestIsLost, WriteIsLost, WriterInv, ReadInv
    <2>2. step' \in {step, "fatal"}
      BY <1>1, <1>4 DEF Reads, Writes
    <2>3. CASE Executes(step) /\ landed' = TRUE
      <3>1. Contract!Written
        BY <2>3, ExecutesWrites
      <3>2. CASE step' = step
        BY <1>1, <1>2, <2>1, <2>3, <3>1, <3>2 DEF Contract!Land, Contract!Next
      <3>3. CASE step' = "fatal"
        BY <1>1, <1>2, <2>1, <2>3, <3>1, <3>3 DEF Contract!FailLanding, Contract!Next
      <3> QED  BY <2>2, <3>2, <3>3
    <2>4. CASE UNCHANGED <<dst, landed>>
      <3>1. CASE step' = step
        BY <1>1, <1>2, <2>1, <2>4, <3>1 DEF Contract!Lose, Contract!Next
      <3>2. CASE step' = "fatal"
        BY <1>1, <1>2, <2>1, <2>4, <3>2 DEF Contract!Fail, Contract!End, Contract!Next
      <3> QED  BY <2>2, <3>1, <3>2
    <2> QED  BY <1>1, <1>4, <2>3, <2>4 DEF RequestIsLost, WriteIsLost
  <1> QED  BY <1>1, <1>3, <1>4

\* A write nobody waits for lands, whatever the operation ended with.
LEMMA LandLateLands ==
  ASSUME WriterInv, NEW w, LandLate(w)
  PROVE  Contract!Next
  <1>1. read # NoRow /\ lost = TRUE
    BY DEF LandLate, WriterInv, ReadInv, LostInv, TypeOK
  <1>2. Contract!Written
    BY ExecutesWrites DEF LandLate
  <1> QED  BY <1>1, <1>2 DEF LandLate, world, loop, Contract!Land, Contract!Next

LEMMA StepKeepsContract == WriterInv /\ [Next]_vars => [Contract!Next]_Contract!vars
  <1> SUFFICES ASSUME WriterInv, [Next]_vars
               PROVE  Contract!Next \/ UNCHANGED Contract!vars
    OBVIOUS
  <1>1. CASE User
    BY <1>1, UserIsUser DEF Contract!Next
  <1>2. CASE FetchSchemas \/ SchemaFails
    BY <1>2, FetchSchemasPrepares, SchemaFailureFails DEF Contract!Next
  <1>3. CASE Cancel \/ Done \/ UNCHANGED vars
    BY <1>3, Unseen DEF Cancel, Done, vars, world, loop, ghost, ResultBar
  <1> QED
    BY <1>1, <1>2, <1>3, LedIsAllowed, TurnedIsAllowed, WriteOkLands, UnansweredIsAllowed,
       LandLateLands
       DEF Next, Answer, Led, Turned, Unanswered

\* Whatever the servers answer, and in whatever order, a worker does to the target
\* only what the apply phase relies on, and says of it what is true.
THEOREM WriterKeepsContract == Spec => KeepsContract
  <1>1. WriterInv /\ [Next]_vars => [Contract!Next]_Contract!vars
    BY StepKeepsContract
  <1> QED
    BY <1>1, InitKeepsContract, WriterInvariant, PTL DEF Spec, KeepsContract, Contract!Spec
=============================================================================
