--------------------------- MODULE ApplyPool_proofs ---------------------------
(***************************************************************************)
(* Proofs about ApplyPool, for every number of operations, batch size and  *)
(* number of workers: its type, the inductive invariant of the pool, and   *)
(* that the pool keeps ApplyContract.                                      *)
(***************************************************************************)
EXTENDS ApplyPool, FiniteSetTheorems, TLAPS

InBatch == stage \in {"send", "wait"}
AnErrorIn(op) == outcome[op] \in Errors

\* A worker has an operation from Send until it is done with it, no other worker
\* has the same one, and its outcome is open as long as the worker works on it.
JobInv ==
    /\ \A w \in Workers :
          /\ worker[w] \in {"ready", "gone"} <=> job[w] = Free
          /\ worker[w] = "work" => outcome[job[w]] = "none"
          /\ worker[w] \in {"report", "cancel"} => AnErrorIn(job[w])
          /\ job[w] # Free => job[w] \in first .. next - 1
    /\ \A w, v \in Workers : w # v /\ job[w] # Free => job[w] # job[v]

\* What was sent lies between the first operation of the batch and the next one
\* to send, and between two batches no worker is left.
BatchInv ==
    /\ first >= 1
    /\ InBatch => first <= NumOps /\ first <= next /\ next <= Last + 1
    /\ ~InBatch => AllGone
    /\ stage = "ok" => first > NumOps
    /\ \A op \in Ops : op >= (IF InBatch THEN next ELSE first) /\ stage # "failed"
                           => outcome[op] = "none"

\* An operation without an outcome is still to be sent, held by a worker, or left
\* out because the run was cancelled or an error is on its way to the caller.
ProgressInv ==
    /\ stage = "wait" => next > Last \/ CtxDone
    /\ stage # "failed" => \A op \in Ops :
          op < (IF InBatch THEN next ELSE first) /\ outcome[op] = "none" =>
              op \in Held \/ runDone

\* The error channel: whoever failed has reported, or is about to; nobody cancels
\* the others before an error is in the channel; and a cancellation gets in first
\* only when it came from the caller.
ErrorInv ==
    /\ InBatch =>
          /\ workersDone => errCh # "empty"
          /\ errCh # "empty" => \E op \in Ops : AnErrorIn(op)
          /\ \A op \in Ops : AnErrorIn(op) =>
                errCh # "empty" \/ \E w \in Workers : worker[w] = "report" /\ job[w] = op
    /\ stage \in {"next", "ok"} => \A op \in Ops : ~AnErrorIn(op)
    /\ stage = "failed" => \E op \in Ops : AnErrorIn(op)
    /\ \A w \in Workers :
          /\ worker[w] = "cancel" => errCh # "empty"
          /\ worker[w] = "report" /\ outcome[job[w]] = "context" =>
                errCh # "empty" \/ runDone
    /\ errCh = "context" => runDone

\* Nothing a finished batch deferred is only in the slice the next batch resets.
DeferredInv == stage = "next" => batchDeferred \subseteq deferred

PoolInv == TypeOK /\ JobInv /\ BatchInv /\ ProgressInv /\ ErrorInv /\ DeferredInv
-----------------------------------------------------------------------------
(* The pool's own invariant.                                               *)

LEMMA BasicFacts ==
    /\ NumOps \in Nat \ {0} /\ BatchSize \in Nat \ {0}
    /\ IsFiniteSet(Workers) /\ Workers # {}
    /\ Free \notin Ops /\ Ops \subseteq Nat
    /\ first \in Nat => Last \in Int /\ Last <= NumOps
  BY PoolAssumption DEF Ops, Free, Last

LEMMA HeldMeaning ==
  ASSUME NEW op \in Ops
  PROVE  op \in Held <=> \E w \in Workers : job[w] = op
  BY BasicFacts DEF Held

LEMMA HeldMeaningNext ==
  ASSUME NEW op \in Ops
  PROVE  op \in Held' <=> \E w \in Workers : job'[w] = op
  BY BasicFacts DEF Held

LEMMA InitInv == Init => PoolInv
  <1> USE BasicFacts DEF Init, PoolInv, TypeOK, Errors, Ends, Ops, Free, InBatch, AnErrorIn
  <1> SUFFICES ASSUME Init PROVE PoolInv
    OBVIOUS
  <1>1. TypeOK
    OBVIOUS
  <1>2. JobInv
    BY DEF JobInv
  <1>3. BatchInv
    BY DEF BatchInv, AllGone
  <1>4. ProgressInv
    BY DEF ProgressInv
  <1>5. ErrorInv
    BY DEF ErrorInv
  <1>6. DeferredInv
    BY DEF DeferredInv
  <1> QED  BY <1>1, <1>2, <1>3, <1>4, <1>5, <1>6

-----------------------------------------------------------------------------
(* PoolInv, one lemma per step of the sender, a worker or the batch loop.      *)

LEMMA StartBatchKeepsInv ==
  ASSUME PoolInv, StartBatch
  PROVE  PoolInv'
  <1> USE BasicFacts
         DEF PoolInv, TypeOK, StartBatch, pool, Errors, Ends, Ops, Free, InBatch, AnErrorIn
  <1>1. TypeOK'
    OBVIOUS
  <1>2. JobInv'
    BY DEF JobInv, BatchInv, AllGone
  <1>3. BatchInv'
    BY DEF JobInv, BatchInv, AllGone, Last
  <1>4. ProgressInv'
    BY HeldMeaning, HeldMeaningNext DEF JobInv, BatchInv, ProgressInv, ErrorInv, CtxDone, Last
  <1>5. ErrorInv'
    BY DEF JobInv, BatchInv, ErrorInv, AllGone, CtxDone
  <1>6. DeferredInv'
    BY DEF DeferredInv
  <1> QED  BY <1>1, <1>2, <1>3, <1>4, <1>5, <1>6

LEMMA SendKeepsInv ==
  ASSUME PoolInv, NEW w \in Workers, Send(w)
  PROVE  PoolInv'
  <1> USE BasicFacts
         DEF PoolInv, TypeOK, Send, pool, Errors, Ends, Ops, Free, InBatch, AnErrorIn
  <1>1. TypeOK'
    OBVIOUS
  <1>2. JobInv'
    BY DEF JobInv, BatchInv
  <1>3. BatchInv'
    BY DEF JobInv, BatchInv, AllGone, Last
  <1>4. ProgressInv'
    BY HeldMeaning, HeldMeaningNext DEF JobInv, BatchInv, ProgressInv, ErrorInv, CtxDone, Last
  <1>5. ErrorInv'
    BY DEF JobInv, BatchInv, ErrorInv, AllGone, CtxDone
  <1>6. DeferredInv'
    BY DEF DeferredInv
  <1> QED  BY <1>1, <1>2, <1>3, <1>4, <1>5, <1>6

LEMMA CloseJobsKeepsInv ==
  ASSUME PoolInv, CloseJobs
  PROVE  PoolInv'
  <1> USE BasicFacts
         DEF PoolInv, TypeOK, CloseJobs, pool, Errors, Ends, Ops, Free, InBatch, AnErrorIn
  <1>1. TypeOK'
    OBVIOUS
  <1>2. JobInv'
    BY DEF JobInv, BatchInv
  <1>3. BatchInv'
    BY DEF JobInv, BatchInv, AllGone, Last
  <1>4. ProgressInv'
    BY HeldMeaning, HeldMeaningNext DEF JobInv, BatchInv, ProgressInv, ErrorInv, CtxDone, Last
  <1>5. ErrorInv'
    BY DEF JobInv, BatchInv, ErrorInv, AllGone, CtxDone
  <1>6. DeferredInv'
    BY DEF DeferredInv
  <1> QED  BY <1>1, <1>2, <1>3, <1>4, <1>5, <1>6

LEMMA SettleKeepsInv ==
  ASSUME PoolInv, NEW w \in Workers, NEW end \in Ends, Settle(w, end)
  PROVE  PoolInv'
  <1> USE BasicFacts
         DEF PoolInv, TypeOK, Settle, pool, Errors, Ends, Ops, Free, InBatch, AnErrorIn
  <1>1. TypeOK'
    <2>1. job[w] \in Ops
      BY DEF JobInv
    <2> QED  BY <2>1
  <1>2. JobInv'
    BY DEF JobInv, BatchInv
  <1>3. BatchInv'
    BY DEF JobInv, BatchInv, AllGone, Last
  <1>4. ProgressInv'
    BY HeldMeaning, HeldMeaningNext DEF JobInv, BatchInv, ProgressInv, ErrorInv, CtxDone, Last
  <1>5. ErrorInv'
    BY DEF JobInv, BatchInv, ErrorInv, AllGone, CtxDone
  <1>6. DeferredInv'
    BY DEF BatchInv, AllGone, DeferredInv
  <1> QED  BY <1>1, <1>2, <1>3, <1>4, <1>5, <1>6

LEMMA ReportKeepsInv ==
  ASSUME PoolInv, NEW w \in Workers, Report(w)
  PROVE  PoolInv'
  <1> USE BasicFacts
         DEF PoolInv, TypeOK, Report, pool, Errors, Ends, Ops, Free, InBatch, AnErrorIn
  <1>1. TypeOK'
    BY DEF JobInv
  <1>2. JobInv'
    BY DEF JobInv, BatchInv
  <1>3. BatchInv'
    BY DEF JobInv, BatchInv, AllGone, Last
  <1>4. ProgressInv'
    BY HeldMeaning, HeldMeaningNext DEF JobInv, BatchInv, ProgressInv, ErrorInv, CtxDone, Last
  <1>5. ErrorInv'
    BY DEF JobInv, BatchInv, ErrorInv, AllGone, CtxDone
  <1>6. DeferredInv'
    BY DEF DeferredInv
  <1> QED  BY <1>1, <1>2, <1>3, <1>4, <1>5, <1>6

LEMMA CancelOthersKeepsInv ==
  ASSUME PoolInv, NEW w \in Workers, CancelOthers(w)
  PROVE  PoolInv'
  <1> USE BasicFacts
         DEF PoolInv, TypeOK, CancelOthers, pool, Errors, Ends, Ops, Free, InBatch, AnErrorIn
  <1>1. TypeOK'
    OBVIOUS
  <1>2. JobInv'
    BY DEF JobInv, BatchInv
  <1>3. BatchInv'
    BY DEF JobInv, BatchInv, AllGone, Last
  <1>4. ProgressInv'
    BY HeldMeaning, HeldMeaningNext DEF JobInv, BatchInv, ProgressInv, ErrorInv, CtxDone, Last
  <1>5. ErrorInv'
    BY DEF JobInv, BatchInv, ErrorInv, AllGone, CtxDone
  <1>6. DeferredInv'
    BY DEF DeferredInv
  <1> QED  BY <1>1, <1>2, <1>3, <1>4, <1>5, <1>6

LEMMA NoMoreJobsKeepsInv ==
  ASSUME PoolInv, NEW w \in Workers, NoMoreJobs(w)
  PROVE  PoolInv'
  <1> USE BasicFacts
         DEF PoolInv, TypeOK, NoMoreJobs, pool, Errors, Ends, Ops, Free, InBatch, AnErrorIn
  <1>1. TypeOK'
    OBVIOUS
  <1>2. JobInv'
    BY DEF JobInv, BatchInv
  <1>3. BatchInv'
    BY DEF JobInv, BatchInv, AllGone, Last
  <1>4. ProgressInv'
    BY HeldMeaning, HeldMeaningNext DEF JobInv, BatchInv, ProgressInv, ErrorInv, CtxDone, Last
  <1>5. ErrorInv'
    BY DEF JobInv, BatchInv, ErrorInv, AllGone, CtxDone
  <1>6. DeferredInv'
    BY DEF DeferredInv
  <1> QED  BY <1>1, <1>2, <1>3, <1>4, <1>5, <1>6

LEMMA ReturnErrorKeepsInv ==
  ASSUME PoolInv, ReturnError
  PROVE  PoolInv'
  <1> USE BasicFacts
         DEF PoolInv, TypeOK, ReturnError, pool, Errors, Ends, Ops, Free, InBatch, AnErrorIn
  <1>1. TypeOK'
    OBVIOUS
  <1>2. JobInv'
    BY DEF JobInv, BatchInv
  <1>3. BatchInv'
    BY DEF JobInv, BatchInv, AllGone, Last
  <1>4. ProgressInv'
    BY HeldMeaning, HeldMeaningNext DEF JobInv, BatchInv, ProgressInv, ErrorInv, CtxDone, Last
  <1>5. ErrorInv'
    BY DEF JobInv, BatchInv, ErrorInv, AllGone, CtxDone
  <1>6. DeferredInv'
    BY DEF DeferredInv
  <1> QED  BY <1>1, <1>2, <1>3, <1>4, <1>5, <1>6

LEMMA ReturnNilKeepsInv ==
  ASSUME PoolInv, ReturnNil
  PROVE  PoolInv'
  <1> USE BasicFacts
         DEF PoolInv, TypeOK, ReturnNil, pool, Errors, Ends, Ops, Free, InBatch, AnErrorIn
  <1>1. TypeOK'
    OBVIOUS
  <1>2. JobInv'
    BY DEF JobInv, BatchInv, AllGone
  <1>3. BatchInv'
    BY DEF JobInv, BatchInv, AllGone, Last
  <1>4. ProgressInv'
    BY HeldMeaning, HeldMeaningNext DEF JobInv, BatchInv, ProgressInv, ErrorInv, CtxDone, Last
  <1>5. ErrorInv'
    BY DEF JobInv, BatchInv, ErrorInv, AllGone, CtxDone
  <1>6. DeferredInv'
    BY DEF DeferredInv
  <1> QED  BY <1>1, <1>2, <1>3, <1>4, <1>5, <1>6

LEMMA CancelRunKeepsInv ==
  ASSUME PoolInv, CancelRun
  PROVE  PoolInv'
  <1> USE BasicFacts
         DEF PoolInv, TypeOK, CancelRun, pool, Errors, Ends, Ops, Free, InBatch, AnErrorIn
  <1>1. TypeOK'
    OBVIOUS
  <1>2. JobInv'
    BY DEF JobInv, BatchInv
  <1>3. BatchInv'
    BY DEF JobInv, BatchInv, AllGone, Last
  <1>4. ProgressInv'
    BY HeldMeaning, HeldMeaningNext DEF JobInv, BatchInv, ProgressInv, ErrorInv, CtxDone, Last
  <1>5. ErrorInv'
    BY DEF JobInv, BatchInv, ErrorInv, AllGone, CtxDone
  <1>6. DeferredInv'
    BY DEF DeferredInv
  <1> QED  BY <1>1, <1>2, <1>3, <1>4, <1>5, <1>6

LEMMA StepInv == PoolInv /\ [Next]_vars => PoolInv'
  <1> SUFFICES ASSUME PoolInv, [Next]_vars
               PROVE  PoolInv'
    OBVIOUS
  <1>1. CASE SenderStep
    BY <1>1, StartBatchKeepsInv, SendKeepsInv, CloseJobsKeepsInv, ReturnErrorKeepsInv,
       ReturnNilKeepsInv DEF SenderStep
  <1>2. ASSUME NEW w \in Workers, WorkerStep(w)
        PROVE  PoolInv'
    BY <1>2, SettleKeepsInv, ReportKeepsInv, CancelOthersKeepsInv, NoMoreJobsKeepsInv
       DEF WorkerStep
  <1>3. CASE CancelRun
    BY <1>3, CancelRunKeepsInv
  <1>4. CASE UNCHANGED vars
    BY <1>4 DEF vars, pool, PoolInv, TypeOK, JobInv, BatchInv, ProgressInv, ErrorInv,
       DeferredInv, InBatch, AnErrorIn, AllGone, Held, Last, CtxDone
  <1> QED  BY <1>1, <1>2, <1>3, <1>4 DEF Next

\* The invariant of the pool, from which the results below follow.
THEOREM PoolInvariant == Spec => []PoolInv
  BY InitInv, StepInv, PTL DEF Spec

\* Every variable of the pool keeps its type.
THEOREM PoolTypeCorrect == Spec => []TypeOK
  <1>1. PoolInv => TypeOK
    BY DEF PoolInv
  <1> QED  BY <1>1, PoolInvariant, PTL

\* The operations in the hands of the workers are of one batch, and none is left
\* when the loop of runFileGroup takes the next batch or returns: wg.Wait() is a
\* barrier whatever failed, however many workers there are (sync.go:869-870).
THEOREM BatchesAreBarriers == Spec => []BatchBarrier
  <1>1. PoolInv => BatchBarrier
    <2> SUFFICES ASSUME PoolInv
                 PROVE  BatchBarrier
      OBVIOUS
    <2> USE BasicFacts DEF PoolInv, TypeOK, JobInv, BatchInv, InBatch, AllGone, Ops, Free
    <2>1. ASSUME NEW op \in Held
          PROVE  op \in first .. Last
      <3>1. PICK w \in Workers : job[w] = op /\ op # Free
        BY <2>1 DEF Held
      <3>2. op \in first .. next - 1 /\ worker[w] # "gone"
        BY <3>1
      <3>3. InBatch
        BY <3>2
      <3> QED  BY <3>2, <3>3
    <2>2. stage \in {"next", "ok", "failed"} => Held = {}
      BY DEF Held
    <2> QED  BY <2>1, <2>2 DEF BatchBarrier
  <1> QED  BY <1>1, PoolInvariant, PTL

\* An error channel of one place is enough: the cancellation a failing worker
\* causes in the others never gets into it before the failure (sync.go:845-850).
THEOREM RootCauseIsReported == Spec => []RootCauseReported
  <1>1. PoolInv => RootCauseReported
    BY DEF PoolInv, ErrorInv, RootCauseReported
  <1> QED  BY <1>1, PoolInvariant, PTL
-----------------------------------------------------------------------------
(* The pool implements ApplyContract.                                      *)

TodoBar == {op \in Ops : outcome[op] = "none"} \ Held
BusyBar == {op \in Held : outcome[op] = "none"}
CopiedBar == {op \in Ops : outcome[op] = "copied"}
DeferredBar == deferred \cup batchDeferred
FailedBar == {op \in Ops : outcome[op] \in Errors}
VerdictBar == IF stage \in {"ok", "failed"} THEN stage ELSE "running"

\* A worker that waits for an operation leaves room for one more at work.
LEMMA RoomForOne ==
  ASSUME PoolInv, NEW w \in Workers, worker[w] = "ready"
  PROVE  Cardinality(BusyBar) < Cardinality(Workers)
  <1> DEFINE others == Workers \ {w}
             holder == [op \in BusyBar |-> CHOOSE v \in Workers : job[v] = op]
  <1>1. IsFiniteSet(others) /\ Cardinality(others) = Cardinality(Workers) - 1
    BY BasicFacts, FS_RemoveElement
  <1>2. \A op \in BusyBar : holder[op] \in others /\ job[holder[op]] = op
    BY DEF BusyBar, Held, PoolInv, JobInv
  <1>3. holder \in Injection(BusyBar, others)
    BY <1>2 DEF Injection, IsInjective
  <1>4. Cardinality(BusyBar) <= Cardinality(others)
    BY <1>1, <1>3, FS_Injection
  <1>5. Cardinality(Workers) \in Nat /\ Cardinality(others) \in Nat
    BY <1>1, BasicFacts, FS_CardinalityType
  <1>6. IsFiniteSet(BusyBar)
    BY <1>1, <1>3, FS_Injection
  <1>7. Cardinality(BusyBar) \in Nat
    BY <1>6, FS_CardinalityType
  <1> QED  BY <1>1, <1>4, <1>5, <1>7

LEMMA InitImplements == Init => Contract!Init
  <1> SUFFICES ASSUME Init
               PROVE  Contract!Init
    OBVIOUS
  <1>1. Held = {}
    BY BasicFacts DEF Init, Held
  <1> QED  BY <1>1 DEF Init, Contract!Init, Errors

\* What the contract sees of a step that leaves its variables alone.
LEMMA Unseen ==
  ASSUME UNCHANGED <<outcome, runDone>>, BusyBar' = BusyBar, TodoBar' = TodoBar,
         DeferredBar' = DeferredBar, VerdictBar' = VerdictBar
  PROVE  UNCHANGED Contract!vars
  BY DEF Contract!vars, BusyBar, TodoBar, DeferredBar, VerdictBar

\* StartBatch forgets the slice of the last batch, which runFileGroup has by now.
LEMMA StartBatchUnseen ==
  ASSUME PoolInv, StartBatch
  PROVE  UNCHANGED Contract!vars
  <1> USE DEF StartBatch
  <1>1. Held' = Held
    BY DEF Held
  <1>2. DeferredBar' = DeferredBar
    BY DEF DeferredBar, PoolInv, DeferredInv
  <1>3. VerdictBar' = VerdictBar
    BY DEF VerdictBar
  <1>4. BusyBar' = BusyBar /\ TodoBar' = TodoBar
    BY <1>1 DEF BusyBar, TodoBar
  <1> QED  BY <1>2, <1>3, <1>4, Unseen

LEMMA CloseJobsUnseen ==
  ASSUME CloseJobs
  PROVE  UNCHANGED Contract!vars
  <1> USE DEF CloseJobs, pool
  <1>1. Held' = Held
    BY DEF Held
  <1>2. BusyBar' = BusyBar /\ TodoBar' = TodoBar
    BY <1>1 DEF BusyBar, TodoBar
  <1> QED  BY <1>2, Unseen DEF DeferredBar, VerdictBar

LEMMA ReportUnseen ==
  ASSUME NEW w \in Workers, Report(w)
  PROVE  UNCHANGED Contract!vars
  <1> USE DEF Report
  <1>1. Held' = Held
    BY DEF Held
  <1>2. BusyBar' = BusyBar /\ TodoBar' = TodoBar
    BY <1>1 DEF BusyBar, TodoBar
  <1> QED  BY <1>2, Unseen DEF DeferredBar, VerdictBar

\* The operation a failed worker drops has its outcome: it is neither busy nor
\* to do again.
LEMMA CancelOthersUnseen ==
  ASSUME PoolInv, NEW w \in Workers, CancelOthers(w)
  PROVE  UNCHANGED Contract!vars
  <1> USE DEF CancelOthers
  <1>1. outcome[job[w]] # "none"
    BY DEF PoolInv, JobInv, AnErrorIn, Errors
  <1>2. \A op \in Ops : op # job[w] => (op \in Held' <=> op \in Held)
    BY BasicFacts, HeldMeaning, HeldMeaningNext DEF PoolInv, TypeOK
  <1>3. Held \subseteq Ops /\ Held' \subseteq Ops
    BY BasicFacts DEF PoolInv, TypeOK, Held
  <1>4. BusyBar' = BusyBar
    BY <1>1, <1>2, <1>3 DEF BusyBar
  <1>5. TodoBar' = TodoBar
    BY <1>1, <1>2, <1>3 DEF TodoBar
  <1> QED  BY <1>4, <1>5, Unseen DEF DeferredBar, VerdictBar

LEMMA NoMoreJobsUnseen ==
  ASSUME NEW w \in Workers, NoMoreJobs(w)
  PROVE  UNCHANGED Contract!vars
  <1> USE DEF NoMoreJobs
  <1>1. Held' = Held
    BY DEF Held
  <1>2. BusyBar' = BusyBar /\ TodoBar' = TodoBar
    BY <1>1 DEF BusyBar, TodoBar
  <1> QED  BY <1>2, Unseen DEF DeferredBar, VerdictBar

\* The contract's module brings a Cardinality of its own.
LEMMA SameCardinality ==
  ASSUME NEW S
  PROVE  Contract!Cardinality(S) = Cardinality(S)
  BY DEF Contract!Cardinality, Cardinality

\* Handing an operation to a worker takes it.
LEMMA SendTakes ==
  ASSUME PoolInv, NEW w \in Workers, NEW op, op = next, Send(w)
  PROVE  op \in Ops /\ Contract!Take(op)
  <1> USE BasicFacts DEF Send, PoolInv, TypeOK
  <1>1. op \in Ops
    BY DEF BatchInv, InBatch, Ops
  <1>2. outcome[op] = "none"
    BY <1>1 DEF BatchInv, InBatch
  <1>3. op \notin Held
    BY <1>1, HeldMeaning DEF JobInv, Free, Ops
  <1>4. \A o \in Ops : o \in Held' <=> o \in Held \/ o = op
    <2> SUFFICES ASSUME NEW o \in Ops
                 PROVE  o \in Held' <=> o \in Held \/ o = op
      OBVIOUS
    <2>1. job[w] = Free
      BY DEF JobInv
    <2> QED  BY <2>1, HeldMeaning, HeldMeaningNext
  <1>5. Held \subseteq Ops /\ Held' \subseteq Ops
    BY <1>1 DEF Held
  <1>6. TodoBar' = TodoBar \ {op} /\ op \in TodoBar
    BY <1>1, <1>2, <1>3, <1>4, <1>5 DEF TodoBar
  <1>7. BusyBar' = BusyBar \cup {op}
    BY <1>1, <1>2, <1>4, <1>5 DEF BusyBar
  <1>8. Contract!Cardinality(BusyBar) < Cardinality(Workers)
    BY RoomForOne, SameCardinality
  <1>9. VerdictBar = "running" /\ VerdictBar' = "running"
    BY DEF VerdictBar
  <1>10. CopiedBar' = CopiedBar /\ DeferredBar' = DeferredBar /\ FailedBar' = FailedBar
    BY DEF CopiedBar, DeferredBar, FailedBar
  <1> HIDE DEF Send, PoolInv, TypeOK
  <1>11. runDone' = runDone
    BY DEF Send
  <1> QED  BY <1>1, <1>6, <1>7, <1>8, <1>9, <1>10, <1>11
           DEF Contract!Take, TodoBar, BusyBar, CopiedBar, DeferredBar, FailedBar, VerdictBar

\* Whatever work(op) returned settles the operation.
LEMMA SettleSettles ==
  ASSUME PoolInv, NEW w \in Workers, NEW end \in Ends, NEW op, op = job[w], Settle(w, end)
  PROVE  op \in Ops /\ Contract!Settle(op)
  <1> USE BasicFacts DEF Settle, PoolInv, TypeOK, Ends
  <1>1. op \in Ops
    BY DEF JobInv
  <1>2. outcome[op] = "none" /\ op \in Held
    BY <1>1, HeldMeaning DEF JobInv
  <1>3. \A o \in Ops : o # op => (o \in Held' <=> o \in Held)
    BY <1>1, HeldMeaning, HeldMeaningNext
  <1>4. Held \subseteq Ops /\ Held' \subseteq Ops
    BY DEF Held
  <1>5. outcome' = [outcome EXCEPT ![op] = end] /\ end # "none"
    OBVIOUS
  <1>6. BusyBar' = BusyBar \ {op} /\ op \in BusyBar
    BY <1>1, <1>2, <1>3, <1>4, <1>5 DEF BusyBar
  <1>7. TodoBar' = TodoBar
    BY <1>1, <1>2, <1>3, <1>4, <1>5 DEF TodoBar
  <1>8. CopiedBar' = (IF end = "copied" THEN CopiedBar \cup {op} ELSE CopiedBar)
    BY <1>1, <1>2, <1>5 DEF CopiedBar
  <1>9. DeferredBar' = (IF end = "deferred" THEN DeferredBar \cup {op} ELSE DeferredBar)
    BY DEF DeferredBar
  <1>10. FailedBar' = (IF end \in Errors THEN FailedBar \cup {op} ELSE FailedBar)
    BY <1>1, <1>2, <1>5 DEF FailedBar, Errors
  <1>11. VerdictBar' = VerdictBar /\ runDone' = runDone
    BY DEF VerdictBar
  <1> HIDE DEF Settle, PoolInv, TypeOK
  <1> QED  BY <1>1, <1>6, <1>7, <1>8, <1>9, <1>10, <1>11
           DEF Contract!Settle, BusyBar, TodoBar, CopiedBar, DeferredBar, FailedBar,
               VerdictBar, Errors

LEMMA NothingHeld ==
  ASSUME PoolInv, AllGone
  PROVE  Held = {}
  BY DEF PoolInv, JobInv, AllGone, Held

\* An error in the channel is the failure of some operation.
LEMMA ReturnErrorFails ==
  ASSUME PoolInv, ReturnError
  PROVE  Contract!Fail
  <1> USE DEF ReturnError, pool
  <1>1. Held = {} /\ Held' = {}
    BY NothingHeld DEF Held
  <1>2. FailedBar # {}
    BY DEF PoolInv, ErrorInv, InBatch, AnErrorIn, FailedBar
  <1> QED  BY <1>1, <1>2 DEF Contract!Fail, FailedBar

\* An empty channel: nobody failed, and what is left out was cancelled.
LEMMA ReturnNilSucceeds ==
  ASSUME PoolInv, ReturnNil
  PROVE  Contract!Succeed \/ UNCHANGED Contract!vars
  <1> USE DEF ReturnNil
  <1>1. Held = {} /\ Held' = {}
    BY NothingHeld DEF Held
  <1>2. DeferredBar' = DeferredBar
    BY DEF DeferredBar
  <1>3. BusyBar = {} /\ BusyBar' = {} /\ TodoBar' = TodoBar
    BY <1>1 DEF BusyBar, TodoBar
  <1>4. CASE first + BatchSize > NumOps
    <2>1. FailedBar = {}
      BY DEF PoolInv, ErrorInv, InBatch, AllGone, AnErrorIn, FailedBar
    <2>2. TodoBar = {} \/ runDone
      <3> SUFFICES ASSUME NEW op \in Ops, outcome[op] = "none"
                   PROVE  runDone
        BY DEF TodoBar
      <3>1. ~workersDone
        BY DEF PoolInv, ErrorInv, InBatch
      <3>2. next > Last \/ runDone
        BY <3>1 DEF PoolInv, ProgressInv, CtxDone
      <3>3. next > Last => op < next
        BY <1>4, BasicFacts DEF Last, PoolInv, TypeOK, BatchInv, InBatch, Ops
      <3> QED  BY <1>1, <3>2, <3>3 DEF PoolInv, ProgressInv, InBatch
    <2>3. VerdictBar = "running" /\ VerdictBar' = "ok"
      BY <1>4 DEF VerdictBar
    <2>4. Contract!Succeed
      BY <1>2, <1>3, <2>1, <2>2, <2>3
         DEF Contract!Succeed, BusyBar, TodoBar, DeferredBar, FailedBar, VerdictBar
    <2> QED  BY <2>4
  <1>5. CASE ~(first + BatchSize > NumOps)
    <2>1. VerdictBar' = VerdictBar
      BY <1>5 DEF VerdictBar
    <2> QED  BY <1>2, <1>3, <2>1, Unseen
  <1> QED  BY <1>4, <1>5

LEMMA CancelRunCancels ==
  ASSUME CancelRun
  PROVE  Contract!Cancel
  <1>1. Held' = Held
    BY DEF CancelRun, pool, Held
  <1> QED  BY <1>1 DEF CancelRun, pool, Contract!Cancel

LEMMA StepImplements == PoolInv /\ [Next]_vars => [Contract!Next]_Contract!vars
  <1> SUFFICES ASSUME PoolInv, [Next]_vars
               PROVE  Contract!Next \/ UNCHANGED Contract!vars
    OBVIOUS
  <1>1. CASE SenderStep
    <2>1. CASE StartBatch \/ CloseJobs
      BY <2>1, StartBatchUnseen, CloseJobsUnseen
    <2>2. ASSUME NEW w \in Workers, Send(w)
          PROVE  Contract!Next
      BY <2>2, SendTakes DEF Contract!Next
    <2>3. CASE ReturnError
      BY <2>3, ReturnErrorFails DEF Contract!Next
    <2>4. CASE ReturnNil
      BY <2>4, ReturnNilSucceeds DEF Contract!Next
    <2> QED  BY <1>1, <2>1, <2>2, <2>3, <2>4 DEF SenderStep
  <1>2. ASSUME NEW w \in Workers, WorkerStep(w)
        PROVE  Contract!Next \/ UNCHANGED Contract!vars
    <2>1. ASSUME NEW end \in Ends, Settle(w, end)
          PROVE  Contract!Next
      BY <2>1, SettleSettles DEF Contract!Next
    <2>2. CASE Report(w) \/ CancelOthers(w) \/ NoMoreJobs(w)
      BY <2>2, ReportUnseen, CancelOthersUnseen, NoMoreJobsUnseen
    <2> QED  BY <1>2, <2>1, <2>2 DEF WorkerStep
  <1>3. CASE CancelRun
    BY <1>3, CancelRunCancels DEF Contract!Next
  <1>4. CASE UNCHANGED vars
    BY <1>4 DEF vars, pool, Contract!vars, Held
  <1> QED  BY <1>1, <1>2, <1>3, <1>4 DEF Next

\* The pool implements the contract runFileGroup relies on, for every number of
\* operations and workers and every batch size.
THEOREM PoolKeepsContract == Spec => KeepsContract
  BY InitImplements, StepImplements, PoolInvariant, PTL
     DEF Spec, KeepsContract, Contract!Spec
=============================================================================
