----------------------------- MODULE RecordWriter -----------------------------
(***************************************************************************)
(* One operation of a plan, as a worker of applyPlan carries it out        *)
(* (internal/run/sync.go, work, with the helpers of internal/odata): read  *)
(* the row from the source, PATCH it to the target, POST it if it is not   *)
(* there.  The code for CopyToGreen and CopyToBlue is one text with the    *)
(* sides swapped; here the source is "src" and the target "dst".           *)
(*                                                                         *)
(* Three loops of retries are one in another.  doRequest sends a request   *)
(* up to MaxHttp times when the server is busy or does not answer; a write *)
(* is sent again up to MaxLock times while the record is locked; a read up *)
(* to MaxRead times when its answer was lost or is no JSON.  A row may be  *)
(* addressed by its primary key, or, when the key of the table is another, *)
(* only by the path a lookup finds.                                        *)
(*                                                                         *)
(* One action is one answer, or one that does not come.  The contents of a *)
(* field are the number of the user operation that wrote it.  Waiting      *)
(* between attempts takes no step.  Modification times are TablePass's.    *)
(***************************************************************************)
EXTENDS Integers, Sequences, FieldSchema

CONSTANTS
    NoRow,
    Tables,     \* the [columns, overrides, ignored] the tables may have
    MaxHttp,    \* RetryMaxAttempts: 6 in the code
    MaxLock,    \* recordLockRetryMaxAttempts: 5
    MaxRead,    \* recordReadRetryMaxAttempts: 3
    Faults,     \* which of FaultKinds may happen
    MaxEdits    \* bound on the user operations, for model checking

FaultKinds == {"status", "timeout", "late", "broken", "locked", "cancel", "schema"}
Sides == {"src", "dst"}
Addresses == {"key", "lookup", "hidden"}

ASSUME WriterAssumption ==
    /\ {MaxHttp, MaxLock, MaxRead} \subseteq Nat \ {0} /\ MaxEdits \in Nat
    /\ Faults \subseteq FaultKinds
    /\ \A t \in Tables :
          /\ t.columns \in [Sides -> [Fields -> Column]]
          /\ {t.overrides, t.ignored} \subseteq SUBSET Fields

VARIABLES
    table,    \* what the two servers have for this table
    addr,     \* addr[s]: how side s finds a row; "hidden" rows have no link either
    unique,   \* the target refuses a second record of one primary key
    edits,    \* user operations so far
    src, dst, \* the row of the source, and the target's records of this key
    allowed,  \* the field allowlist
    step,     \* the request the worker is at, or how it ended
    http,     \* attempts of the request in doRequest
    tries,    \* attempts of the loop around the request
    read,     \* the row read from the source
    err,      \* the error the operation ended with
    ctxDone,  \* the context of the workers was cancelled
    late,     \* ghost: writes given up on that the server may still carry out
    landed,   \* ghost: the row was written
    lost      \* ghost: the answer to a write was lost

world == <<table, addr, unique, edits, src>>
loop == <<step, http, tries, err>>
ghost == <<late, landed, lost>>
vars == <<world, dst, allowed, loop, read, ctxDone, ghost>>

Reads == {"getPath", "getFilter", "lookup"}
Writes == {"patch", "patchResolved", "post"}
Ends == {"ok", "skipped", "deferred", "fatal"}
Contents(s, v) == [f \in Fields |-> IF table.columns[s][f].kind = "absent" THEN 0 ELSE v]
-----------------------------------------------------------------------------
Init ==
    /\ table \in Tables
    /\ addr \in [Sides -> Addresses]
    /\ addr["src"] # "hidden"             \* the source is read by its key anyway
    /\ unique \in BOOLEAN
    /\ edits = 0
    /\ src \in {NoRow, Contents("src", 1)}
    /\ dst \in {<<>>, <<Contents("dst", 2)>>}
    /\ allowed = {}
    /\ step = "schema" /\ http = 1 /\ tries = 1 /\ err = "none"
    /\ read = NoRow
    /\ ctxDone = FALSE
    /\ late = {} /\ landed = FALSE /\ lost = FALSE

\* Users edit and delete the row on both sides.  Keys are UUIDs: nobody but the
\* program creates a row with this one.
User ==
    /\ edits < MaxEdits
    /\ edits' = edits + 1
    /\ \/ /\ src # NoRow
          /\ src' \in {NoRow, Contents("src", edits + 3)}
          /\ UNCHANGED dst
       \/ /\ dst # <<>>
          /\ \/ dst' = Tail(dst)
             \/ \E i \in DOMAIN dst : dst' = [dst EXCEPT ![i] = Contents("dst", edits + 3)]
          /\ UNCHANGED src
    /\ UNCHANGED <<table, addr, unique, allowed, loop, read, ctxDone, ghost>>

Cancel ==
    /\ "cancel" \in Faults
    /\ step \notin Ends
    /\ ctxDone' = TRUE
    /\ UNCHANGED <<world, dst, allowed, loop, read, ghost>>
-----------------------------------------------------------------------------
(* How a request goes on.                                                  *)

\* Faulty: the attempts of one loop are counted on into the next.
GoOn(s) == step' = s /\ http' = 1 /\ UNCHANGED <<tries, err>>

Go(s) == step' = s /\ http' = 1 /\ tries' = 1 /\ UNCHANGED err
EndWith(s, e) == step' = s /\ err' = e /\ http' = 1 /\ tries' = 1
Fatal(e) == EndWith("fatal", e)

\* Faulty: the loop is left as if the last attempt had succeeded.
AgainOrOk(max, e) ==
    IF tries < max
    THEN tries' = tries + 1 /\ http' = 1 /\ UNCHANGED <<step, err>>
    ELSE EndWith("ok", "none")

\* Faulty: the attempts are not counted.
AgainForever(max, e) ==
    IF tries <= max
    THEN tries' = tries /\ http' = 1 /\ UNCHANGED <<step, err>>
    ELSE EndWith("deferred", e)

\* Once more around the loop, or out of it: the operation is deferred.
Again(max, e) ==
    IF tries < max
    THEN tries' = tries + 1 /\ http' = 1 /\ UNCHANGED <<step, err>>
    ELSE EndWith("deferred", e)

ReadAgain == Again(MaxRead, "source_read")
LockAgain == Again(MaxLock, "record_lock")

\* doRequest sends the request again, or returns what it has got.
Resend == http < MaxHttp /\ http' = http + 1 /\ UNCHANGED <<step, tries, err>>
Exhausted == http = MaxHttp

NoWrite == UNCHANGED <<dst, ghost>>
-----------------------------------------------------------------------------
(* The schema of the table, once for all the operations of a plan.         *)

FetchSchemas ==
    /\ step = "schema"
    /\ \E blue \in PreferThinSchema(table.columns["src"]),
          green \in PreferThinSchema(table.columns["dst"]) :
          allowed' = BuildSyncFieldAllowlist(blue, green, table.overrides, table.ignored)
    /\ Go("getPath")
    /\ UNCHANGED <<world, read, ctxDone>> /\ NoWrite

\* One of the two schemas cannot be read: no operation of the table is started.
SchemaFails ==
    /\ step = "schema"
    /\ "schema" \in Faults \/ ctxDone
    /\ Fatal("schema")
    /\ UNCHANGED <<world, allowed, read, ctxDone>> /\ NoWrite
-----------------------------------------------------------------------------
(* Answers to a read.                                                      *)

ReadSource ==
    /\ \/ step = "getPath" /\ addr["src"] = "key"
       \/ step = "getFilter"
    /\ src # NoRow
    /\ read' = src
    /\ Go("patch")
    /\ UNCHANGED <<world, allowed, ctxDone>> /\ NoWrite

\* 404, or the key is no address of this table: look the row up by its key field.
SourceNotByPath ==
    /\ step = "getPath"
    /\ addr["src"] = "lookup" \/ src = NoRow
    /\ Go("getFilter")
    /\ UNCHANGED <<world, allowed, read, ctxDone>> /\ NoWrite

SourceGone ==
    /\ step = "getFilter"
    /\ src = NoRow
    /\ Go("skipped")
    /\ UNCHANGED <<world, allowed, read, ctxDone>> /\ NoWrite

TargetFound ==
    /\ step = "lookup"
    /\ dst # <<>>
    /\ IF addr["dst"] = "lookup" THEN Go("patchResolved") ELSE Fatal("mismatch")
    /\ UNCHANGED <<world, allowed, read, ctxDone>> /\ NoWrite

TargetNotFound ==
    /\ \/ step = "patch" /\ addr["dst"] = "key"
       \/ step \in {"lookup", "patchResolved"}
    /\ dst = <<>>
    /\ Go("post")
    /\ UNCHANGED <<world, allowed, read, ctxDone>> /\ NoWrite
-----------------------------------------------------------------------------
(* Answers to a write.                                                     *)

\* Faulty: a key that is no address is taken for a row that is not there.
MismatchAsMissing ==
    /\ step = "patch"
    /\ addr["dst"] # "key"
    /\ Go("post")
    /\ UNCHANGED <<world, allowed, read, ctxDone>> /\ NoWrite

\* 400, incompatible data types.
KeyMismatch ==
    /\ step = "patch"
    /\ addr["dst"] # "key"
    /\ Go("lookup")
    /\ UNCHANGED <<world, allowed, read, ctxDone>> /\ NoWrite

\* The server does not let a computed field be written.
FieldsRefused == \E f \in allowed : table.columns["dst"][f].kind # "stored"

Overwrite(i) == dst' = [dst EXCEPT ![i] = Merged(@, read, allowed)]
Insert == dst' = Append(dst, Merged([f \in Fields |-> 0], read, allowed))

\* Request w is carried out by the server.
Executes(w) ==
    /\ ~FieldsRefused
    /\ \/ /\ w \in {"patch", "patchResolved"}
          /\ w = "patch" => addr["dst"] = "key"
          /\ \E i \in DOMAIN dst : Overwrite(i)
       \/ /\ w = "post"
          /\ unique => dst = <<>>
          /\ Insert

WriteOk ==
    /\ step \in Writes
    /\ Executes(step)
    /\ landed' = TRUE
    /\ Go("ok")
    /\ UNCHANGED <<world, allowed, read, ctxDone, late, lost>>

Refused ==
    /\ step \in Writes
    /\ step # "post" => dst # <<>>
    /\ step = "patch" => addr["dst"] = "key"
    /\ \/ FieldsRefused /\ Fatal("fields")
       \/ step = "post" /\ unique /\ dst # <<>> /\ ~FieldsRefused /\ Fatal("unique")
    /\ UNCHANGED <<world, allowed, read, ctxDone>> /\ NoWrite

Locked ==
    /\ "locked" \in Faults
    /\ step \in Writes
    /\ step # "post" => dst # <<>>
    /\ step = "patch" => addr["dst"] = "key"
    /\ LockAgain
    /\ UNCHANGED <<world, allowed, read, ctxDone>> /\ NoWrite
-----------------------------------------------------------------------------
(* Answers that say nothing, or do not come.                               *)

\* A status that means nothing was done: after 429 and 5xx doRequest tries again,
\* any other it returns at once.  The last 5xx of a read counts as transient when
\* its text speaks of a timeout.
BadStatus ==
    /\ "status" \in Faults
    /\ step \in Reads \cup Writes
    /\ Resend \/ Fatal("status") \/ (Exhausted /\ step \in Reads /\ ReadAgain)
    /\ UNCHANGED <<world, allowed, read, ctxDone>> /\ NoWrite

\* A write of unknown fate: carried out, not carried out, or carried out later.
WriteIsLost ==
    /\ lost' = TRUE
    /\ \/ Executes(step) /\ landed' = TRUE /\ UNCHANGED late
       \/ UNCHANGED <<dst, landed, late>>
       \/ "late" \in Faults /\ late' = late \cup {step} /\ UNCHANGED <<dst, landed>>

RequestIsLost == IF step \in Writes THEN WriteIsLost ELSE NoWrite

\* A timeout or a reset connection: doRequest sends any request again, a POST too.
TimesOut ==
    /\ "timeout" \in Faults
    /\ step \in Reads \cup Writes
    /\ Resend \/ (Exhausted /\ IF step \in Reads THEN ReadAgain ELSE Fatal("transport"))
    /\ RequestIsLost
    /\ UNCHANGED <<world, allowed, read, ctxDone>>

\* The connection ends within the answer, or the answer to a read is no JSON.
Breaks ==
    /\ "broken" \in Faults
    /\ step \in Reads \cup Writes
    /\ IF step \in Reads THEN ReadAgain ELSE Fatal("transport")
    /\ RequestIsLost
    /\ UNCHANGED <<world, allowed, read, ctxDone>>

\* The request in flight, and every wait, ends with the context.
Cancelled ==
    /\ ctxDone
    /\ step \in Reads \cup Writes
    /\ Fatal("cancelled")
    /\ RequestIsLost
    /\ UNCHANGED <<world, allowed, read, ctxDone>>

\* The server gets to a request nobody waits for any more.
LandLate(w) ==
    /\ w \in late
    /\ Executes(w)
    /\ late' = late \ {w}
    /\ landed' = TRUE
    /\ UNCHANGED <<world, allowed, loop, read, ctxDone, lost>>
-----------------------------------------------------------------------------
Answer ==
    \/ FetchSchemas
    \/ ReadSource \/ SourceNotByPath \/ SourceGone \/ TargetFound \/ TargetNotFound
    \/ KeyMismatch \/ WriteOk \/ Refused \/ Locked
    \/ BadStatus \/ TimesOut \/ Breaks \/ Cancelled

Done == step \in Ends /\ UNCHANGED vars

Next ==
    \/ User \/ Cancel
    \/ Answer \/ SchemaFails
    \/ \E w \in Writes : LandLate(w)
    \/ Done

Spec == Init /\ [][Next]_vars

\* Every request is answered or given up on, with whatever outcome.
FairSpec == Spec /\ WF_vars(Answer)
-----------------------------------------------------------------------------
(* Correctness.                                                            *)

Row == [Fields -> Nat]

TypeOK ==
    /\ table \in Tables /\ addr \in [Sides -> Addresses] /\ unique \in BOOLEAN
    /\ edits \in Nat
    /\ src \in Row \cup {NoRow} /\ dst \in Seq(Row)
    /\ allowed \subseteq Fields
    /\ step \in {"schema"} \cup Reads \cup Writes \cup Ends
    /\ http \in 1 .. MaxHttp
    /\ tries \in 1 .. (IF step \in Reads THEN MaxRead ELSE MaxLock)
    /\ read \in Row \cup {NoRow}
    /\ err \in {"none", "schema", "mismatch", "fields", "unique", "status", "transport",
                "cancelled", "record_lock", "source_read"}
    /\ ctxDone \in BOOLEAN /\ late \subseteq Writes
    /\ landed \in BOOLEAN /\ lost \in BOOLEAN

\* The worker keeps the contract the apply phase relies on.
Contract == INSTANCE RowContract WITH
    result <- IF step \in Ends THEN step ELSE "open"

KeepsContract == Contract!Spec

\* The target has two records of one primary key only after the answer to a write
\* was lost: the attempts of a worker do not by themselves create a row twice,
\* neither when they lose the row between PATCH and POST nor when they look for
\* it by another address.
OneRecord == Len(dst) > 1 => lost /\ ~unique

\* What "field in both -> sync" (SPEC.md:203) promises to copy of table t.
Shared(t) ==
    {f \in Fields \ t.ignored : \A s \in Sides : t.columns[s][f].kind = "stored"}

\* A schema that may answer for side s describes f as computed, or as not.
Describes(t, s, f, computed) ==
    \E schema \in PreferThinSchema(t.columns[s]) : PropertySpec(f, computed) \in schema

\* The page of FileMaker_Fields was full before it came to f: EntityProperties-
\* PreferThinSchema takes it for complete, although its comment (metadata.go:76)
\* and FILEMAKER_ODATA.md:57 speak of a fallback to $metadata for an incomplete one.
\* Fields past the first 1000 are left out of every copy, without an error.
CutOff(t, s, f) == ~t.columns[s][f].listed

LeftOut(t, f) ==
    \E s \in Sides : CutOff(t, s, f) \/ (f \notin t.overrides /\ Describes(t, s, f, TRUE))

\* A copied row has every field both tables store, whichever schemas answered,
\* unless one of the servers cuts the field off or calls it computed.
CopiedInFull ==
    [][step # "ok" /\ step' = "ok" =>
          \E i \in DOMAIN dst' : \A f \in Shared(table) :
              dst'[i][f] = read[f] \/ LeftOut(table, f)]_vars

Forced(t, f) ==
    /\ t.columns["dst"][f].kind = "computed"
    /\ f \in t.overrides \/ \A s \in Sides : Describes(t, s, f, FALSE)

\* The target refuses a row for a computed field only if the configuration forces
\* the field, or both servers call it writable: the two may answer from different
\* sources with different flags, and one that knows better is enough.  Otherwise
\* one such field would end every pass over the table.
RefusedOnlyIfForced == err = "fields" => \E f \in Fields : Forced(table, f)

\* The operation ends, however the servers answer.
Finishes == <>(step \in Ends)
=============================================================================
