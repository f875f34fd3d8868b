---------------------------- MODULE ApplyContract ----------------------------
(***************************************************************************)
(* What runFileGroup relies on when it hands the batches of a plan to      *)
(* applyPlan (internal/run/sync.go): every operation is taken by a worker  *)
(* at most once, at most Limit of them at a time, each is copied, deferred *)
(* or fails; a nil error means that none failed and that none was left     *)
(* out, unless the context of the run was cancelled; and once applyPlan    *)
(* has answered no worker is writing any more.                             *)
(***************************************************************************)
EXTENDS Integers, FiniteSets

CONSTANTS Ops, Limit

VARIABLES todo, busy, copied, deferred, failed, cancelled, verdict

vars == <<todo, busy, copied, deferred, failed, cancelled, verdict>>

Init ==
    /\ todo = Ops
    /\ busy = {} /\ copied = {} /\ deferred = {} /\ failed = {}
    /\ cancelled = FALSE
    /\ verdict = "running"

Take(op) ==
    /\ verdict = "running"
    /\ op \in todo
    /\ Cardinality(busy) < Limit
    /\ todo' = todo \ {op}
    /\ busy' = busy \cup {op}
    /\ UNCHANGED <<copied, deferred, failed, cancelled, verdict>>

Settle(op) ==
    /\ op \in busy
    /\ busy' = busy \ {op}
    /\ \/ copied' = copied \cup {op} /\ UNCHANGED <<deferred, failed>>
       \/ deferred' = deferred \cup {op} /\ UNCHANGED <<copied, failed>>
       \/ failed' = failed \cup {op} /\ UNCHANGED <<copied, deferred>>
    /\ UNCHANGED <<todo, cancelled, verdict>>

Cancel ==
    /\ cancelled' = TRUE
    /\ UNCHANGED <<todo, busy, copied, deferred, failed, verdict>>

Succeed ==
    /\ verdict = "running"
    /\ busy = {} /\ failed = {}
    /\ todo = {} \/ cancelled
    /\ verdict' = "ok"
    /\ UNCHANGED <<todo, busy, copied, deferred, failed, cancelled>>

Fail ==
    /\ verdict = "running"
    /\ busy = {} /\ failed # {}
    /\ verdict' = "failed"
    /\ UNCHANGED <<todo, busy, copied, deferred, failed, cancelled>>

Next == (\E op \in Ops : Take(op) \/ Settle(op)) \/ Cancel \/ Succeed \/ Fail

Spec == Init /\ [][Next]_vars
=============================================================================
