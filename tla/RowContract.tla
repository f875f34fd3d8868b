----------------------------- MODULE RowContract -----------------------------
(***************************************************************************)
(* What the apply phase relies on when a worker copies one row             *)
(* (internal/run/sync.go, work in applyPlan): the target changes only by   *)
(* writing the allowed fields of one copy of the source, over one of its   *)
(* records or as a new one; "ok" means that it was written, "skipped" that *)
(* the source was gone and nothing was written, "deferred" that nothing    *)
(* was written unless a reply was lost.  A request whose reply was lost    *)
(* may be carried out late, after the operation has ended.                 *)
(***************************************************************************)
EXTENDS Integers, Sequences, FieldSchema

CONSTANT NoRow

VARIABLES edits, src, dst, allowed, read, landed, lost, result

vars == <<edits, src, dst, allowed, read, landed, lost, result>>

Init ==
    /\ edits = 0
    /\ allowed = {} /\ read = NoRow
    /\ landed = FALSE /\ lost = FALSE
    /\ result = "open"

User ==
    /\ edits' = edits + 1
    /\ UNCHANGED <<allowed, read, landed, lost, result>>

Prepare ==
    /\ result = "open" /\ read = NoRow
    /\ allowed' \in SUBSET Fields
    /\ UNCHANGED <<edits, src, dst, read, landed, lost, result>>

Read ==
    /\ result = "open" /\ read = NoRow /\ src # NoRow
    /\ read' = src
    /\ UNCHANGED <<edits, src, dst, allowed, landed, lost, result>>

Written ==
    \/ \E i \in DOMAIN dst : dst' = [dst EXCEPT ![i] = Merged(@, read, allowed)]
    \/ dst' = Append(dst, Merged([f \in Fields |-> 0], read, allowed))

Land ==
    /\ read # NoRow
    /\ Written
    /\ landed' = TRUE
    /\ \/ result = "open" /\ result' = "ok" /\ lost' = lost
       \/ result' = result /\ lost' = TRUE
    /\ UNCHANGED <<edits, src, allowed, read>>

\* An answer that does not come.
Lose ==
    /\ result = "open" /\ read # NoRow
    /\ lost' = TRUE
    /\ UNCHANGED <<edits, src, dst, allowed, read, landed, result>>

End(r) ==
    /\ result = "open"
    /\ result' = r
    /\ UNCHANGED <<edits, src, dst, allowed, read, landed>>

Skip == read = NoRow /\ src = NoRow /\ End("skipped") /\ UNCHANGED lost
Defer == (landed => lost) /\ End("deferred") /\ UNCHANGED lost
Fail == End("fatal") /\ lost' \in {lost, TRUE}

\* The last answer is lost, and with it the operation.
FailLanding ==
    /\ result = "open" /\ read # NoRow
    /\ Written
    /\ landed' = TRUE /\ lost' = TRUE
    /\ result' = "fatal"
    /\ UNCHANGED <<edits, src, allowed, read>>

Next == User \/ Prepare \/ Read \/ Land \/ Lose \/ Skip \/ Defer \/ Fail \/ FailLanding

Spec == Init /\ [][Next]_vars
=============================================================================
