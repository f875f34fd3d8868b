------------------------------ MODULE ApplyPool ------------------------------
(***************************************************************************)
(* The worker pool of applyPlan and the loop over the batches of a plan in *)
(* runFileGroup (internal/run/sync.go).                                    *)
(*                                                                         *)
(* For each batch applyPlan starts its workers, sends the operations over  *)
(* an unbuffered channel, closes it, waits for the workers and looks into  *)
(* the error channel, which holds one error.  A worker that meets an error *)
(* reports it if there is room, cancels the context of the workers, and    *)
(* returns; the sender gives up when it sees that context cancelled.  The  *)
(* context of the workers is derived from the one of the run, which the    *)
(* caller may cancel at any time.                                          *)
(*                                                                         *)
(* What a worker does for one operation is one step here (TablePass has    *)
(* its requests); what counts is how it ends.                              *)
(***************************************************************************)
EXTENDS Integers, FiniteSets

CONSTANTS
    NumOps,     \* operations of the plan, numbered in its order
    BatchSize,  \* applyBatchSize
    Workers     \* the worker goroutines, maxWorkers of them

ASSUME PoolAssumption ==
    /\ NumOps \in Nat \ {0} /\ BatchSize \in Nat \ {0}
    /\ IsFiniteSet(Workers) /\ Workers # {}

Ops == 1 .. NumOps
Free == 0      \* a worker without an operation

VARIABLES
    stage,      \* "next" batch, "send", "wait", or how it all ended: "ok", "failed"
    first,      \* the first operation of the batch
    next,       \* the next operation to send
    worker,     \* worker[w]: "ready", "work", "report", "cancel" or "gone"
    job,        \* job[w]: the operation w has, Free if none
    errCh,      \* the error channel: "empty", or what the error it holds is
    workersDone,  \* cancel() of this batch was called
    runDone,    \* the context of the run was cancelled
    outcome,    \* outcome[op]: "none", "copied", "deferred", "error" or "context"
    batchDeferred, \* the deferred slice of this call of applyPlan
    deferred       \* the deferred slice of runFileGroup

pool == <<worker, job, errCh, workersDone>>
vars == <<stage, first, next, pool, runDone, outcome, batchDeferred, deferred>>

Errors == {"error", "context"}
\* Faulty: the last batch reaches past the end of the plan.
LastUnclipped == first + BatchSize - 1

Last == IF first + BatchSize > NumOps THEN NumOps ELSE first + BatchSize - 1
CtxDone == workersDone \/ runDone     \* workerCtx.Done() is closed
Held == {job[w] : w \in Workers} \ {Free}
-----------------------------------------------------------------------------
Init ==
    /\ stage = "next"
    /\ first = 1 /\ next = 1
    /\ worker = [w \in Workers |-> "gone"]
    /\ job = [w \in Workers |-> Free]
    /\ errCh = "empty"
    /\ workersDone = FALSE /\ runDone = FALSE
    /\ outcome = [op \in Ops |-> "none"]
    /\ batchDeferred = {} /\ deferred = {}

StartBatch ==
    /\ stage = "next" /\ first <= NumOps
    /\ stage' = "send"
    /\ next' = first
    /\ worker' = [w \in Workers |-> "ready"]
    /\ errCh' = "empty"
    /\ workersDone' = FALSE
    /\ batchDeferred' = {}
    /\ UNCHANGED <<first, job, runDone, outcome, deferred>>

\* select takes either branch when both are ready: an operation may still be
\* handed out after the context was cancelled.
Send(w) ==
    /\ stage = "send" /\ next <= Last
    /\ worker[w] = "ready"
    /\ worker' = [worker EXCEPT ![w] = "work"]
    /\ job' = [job EXCEPT ![w] = next]
    /\ next' = next + 1
    /\ UNCHANGED <<stage, first, errCh, workersDone, runDone, outcome, batchDeferred, deferred>>

\* sendLoop ends and the channel is closed.
CloseJobs ==
    /\ stage = "send"
    /\ next > Last \/ CtxDone
    /\ stage' = "wait"
    /\ UNCHANGED <<first, next, pool, runDone, outcome, batchDeferred, deferred>>

\* Faulty: the others are cancelled before the error was reported.
SettleAndCancel(w, end) ==
    /\ worker[w] = "work"
    /\ end = "context" => CtxDone
    /\ outcome' = [outcome EXCEPT ![job[w]] = end]
    /\ batchDeferred' = IF end = "deferred" THEN batchDeferred \cup {job[w]} ELSE batchDeferred
    /\ worker' = [worker EXCEPT ![w] = IF end \in Errors THEN "report" ELSE "ready"]
    /\ job' = IF end \in Errors THEN job ELSE [job EXCEPT ![w] = Free]
    /\ workersDone' = (workersDone \/ end \in Errors)
    /\ UNCHANGED <<stage, first, next, errCh, runDone, deferred>>

\* work(op) returned: nil, an exhausted retry, another error, or the error of
\* the cancelled context.
Settle(w, end) ==
    /\ worker[w] = "work"
    /\ end = "context" => CtxDone
    /\ outcome' = [outcome EXCEPT ![job[w]] = end]
    /\ batchDeferred' = IF end = "deferred" THEN batchDeferred \cup {job[w]} ELSE batchDeferred
    /\ worker' = [worker EXCEPT ![w] = IF end \in Errors THEN "report" ELSE "ready"]
    /\ job' = IF end \in Errors THEN job ELSE [job EXCEPT ![w] = Free]
    /\ UNCHANGED <<stage, first, next, errCh, workersDone, runDone, deferred>>

\* A full channel drops the error.
Report(w) ==
    /\ worker[w] = "report"
    /\ errCh' = IF errCh = "empty" THEN outcome[job[w]] ELSE errCh
    /\ worker' = [worker EXCEPT ![w] = "cancel"]
    /\ UNCHANGED <<stage, first, next, job, workersDone, runDone, outcome, batchDeferred, deferred>>

\* Faulty: a worker that failed returns without cancelling the others.
ExitSilently(w) ==
    /\ worker[w] = "cancel"
    /\ worker' = [worker EXCEPT ![w] = "gone"]
    /\ job' = [job EXCEPT ![w] = Free]
    /\ UNCHANGED <<stage, first, next, errCh, workersDone, runDone, outcome, batchDeferred, deferred>>

CancelOthers(w) ==
    /\ worker[w] = "cancel"
    /\ workersDone' = TRUE
    /\ worker' = [worker EXCEPT ![w] = "gone"]
    /\ job' = [job EXCEPT ![w] = Free]
    /\ UNCHANGED <<stage, first, next, errCh, runDone, outcome, batchDeferred, deferred>>

\* "range jobs" ends on the closed channel.
NoMoreJobs(w) ==
    /\ stage = "wait"
    /\ worker[w] = "ready"
    /\ worker' = [worker EXCEPT ![w] = "gone"]
    /\ UNCHANGED <<stage, first, next, job, errCh, workersDone, runDone, outcome,
                   batchDeferred, deferred>>

\* Faulty: applyPlan waits for the requests but not for the goroutines.
NoneWorks == \A w \in Workers : worker[w] # "work"

AllGone == \A w \in Workers : worker[w] = "gone"

\* wg.Wait() is over.  An error ends the batches, and what they deferred is lost.
ReturnError ==
    /\ stage = "wait" /\ AllGone
    /\ errCh # "empty"
    /\ stage' = "failed"
    /\ UNCHANGED <<first, next, pool, runDone, outcome, batchDeferred, deferred>>

\* Faulty: the error channel is not looked into.
ReturnUnchecked ==
    /\ stage = "wait" /\ AllGone
    /\ deferred' = deferred \cup batchDeferred
    /\ first' = first + BatchSize
    /\ stage' = IF first + BatchSize > NumOps THEN "ok" ELSE "next"
    /\ workersDone' = TRUE
    /\ UNCHANGED <<next, worker, job, errCh, runDone, outcome, batchDeferred>>

\* The channel is empty: the next batch, or the end of the plan.  The deferred
\* cancel() of applyPlan runs on every return.
ReturnNil ==
    /\ stage = "wait" /\ AllGone
    /\ errCh = "empty"
    /\ deferred' = deferred \cup batchDeferred
    /\ first' = first + BatchSize
    /\ stage' = IF first + BatchSize > NumOps THEN "ok" ELSE "next"
    /\ workersDone' = TRUE
    /\ UNCHANGED <<next, worker, job, errCh, runDone, outcome, batchDeferred>>

\* The caller of the run cancels its context.
CancelRun ==
    /\ ~runDone /\ stage \notin {"ok", "failed"}
    /\ runDone' = TRUE
    /\ UNCHANGED <<stage, first, next, pool, outcome, batchDeferred, deferred>>
-----------------------------------------------------------------------------
Ends == {"copied", "deferred", "error", "context"}

WorkerStep(w) ==
    \/ \E end \in Ends : Settle(w, end)
    \/ Report(w) \/ CancelOthers(w) \/ NoMoreJobs(w)

SenderStep == StartBatch \/ (\E w \in Workers : Send(w)) \/ CloseJobs \/ ReturnError \/ ReturnNil

Next == SenderStep \/ (\E w \in Workers : WorkerStep(w)) \/ CancelRun

Spec == Init /\ [][Next]_vars

\* Each goroutine that can go on does; every request of a worker has a timeout.
FairSpec ==
    /\ Spec
    /\ WF_vars(SenderStep)
    /\ \A w \in Workers : WF_vars(WorkerStep(w))
-----------------------------------------------------------------------------
(* Correctness.                                                            *)

\* Every variable has its type.
TypeOK ==
    /\ stage \in {"next", "send", "wait", "ok", "failed"}
    /\ first \in Nat /\ next \in Nat
    /\ worker \in [Workers -> {"ready", "work", "report", "cancel", "gone"}]
    /\ job \in [Workers -> Ops \cup {Free}]
    /\ errCh \in Errors \cup {"empty"}
    /\ workersDone \in BOOLEAN /\ runDone \in BOOLEAN
    /\ outcome \in [Ops -> Ends \cup {"none"}]
    /\ batchDeferred \subseteq Ops /\ deferred \subseteq Ops

\* The error that ends a plan is what went wrong, not the cancellation it caused
\* in the other workers, although the channel keeps one error and each worker
\* drops its own when it is full (sync.go:845-850).
RootCauseReported == stage = "failed" /\ errCh = "context" => runDone

\* A batch is over before the next begins: two batches never write at one time,
\* and no worker outlives the call (sync.go:869-870).
BatchBarrier ==
    /\ \A op \in Held : op \in first .. Last
    /\ stage \in {"next", "ok", "failed"} => Held = {}

\* The pool never hangs: the plan ends, with nil or with an error.
Terminates == <>(stage \in {"ok", "failed"})

\* What the pool promises to runFileGroup.  The deferred operations are the slices
\* it returns (sync.go:276-281, 812-844), not what became of the operations: none
\* is lost between the workers or between the batches.
Contract == INSTANCE ApplyContract WITH
    Limit <- Cardinality(Workers),
    todo <- {op \in Ops : outcome[op] = "none"} \ Held,
    busy <- {op \in Held : outcome[op] = "none"},
    copied <- {op \in Ops : outcome[op] = "copied"},
    deferred <- deferred \cup batchDeferred,
    failed <- {op \in Ops : outcome[op] \in Errors},
    cancelled <- runDone,
    verdict <- IF stage \in {"ok", "failed"} THEN stage ELSE "running"

KeepsContract == Contract!Spec
=============================================================================
