------------------------------ MODULE SyncDomain ------------------------------
(***************************************************************************)
(* The pure decisions of one FreeSync pass (internal/domain, and the       *)
(* one-way filter of internal/run/sync.go).                                *)
(*                                                                         *)
(* A manifest maps every record id to the modification time a server       *)
(* reported for it, or to NoTime when the id is not in the manifest.  A    *)
(* plan is a set of operations [id, kind]: the code sorts the ids, which   *)
(* changes the order of the log and of the batches but not the set.        *)
(***************************************************************************)
EXTENDS Integers

CONSTANTS
    Ids,     \* the record ids of one table
    NoTime   \* "no such row", the absent key of the Go maps

Sides == {"blue", "green"}
OneWayModes == {"both", "to-blue", "to-green"}    \* the code writes "both" as ""
OpKind == {"CopyToGreen", "CopyToBlue", "DeleteFromBlue", "DeleteFromGreen"}
Op == [id : Ids, kind : OpKind]

Other(s) == IF s = "blue" THEN "green" ELSE "blue"

\* Faulty: an older time compares as the newer one.
CompareReversed(a, b) ==
    IF a > b THEN 1 ELSE IF b > a THEN -1 ELSE 0

\* Faulty: equal times compare as newer.
CompareTiesAsNewer(a, b) == IF a >= b THEN -1 ELSE 1

\* lww.go: -1 when a is newer, 1 when b is newer, 0 for equal times.
CompareModification(a, b) ==
    IF a > b THEN -1 ELSE IF b > a THEN 1 ELSE 0

\* The copy with time a must be pushed over the copy with time b.
Newer(a, b) ==
    /\ a # NoTime
    /\ b = NoTime \/ CompareModification(a, b) = -1

\* plan.go, maxTime: the newest of the two copies, NoTime when there is none.
MaxTime(tb, tg) == IF Newer(tg, tb) THEN tg ELSE tb

\* plan.go, the delMax map: the last deletion the journal holds for each id.
DelMax(deletes) ==
    [id \in Ids |->
        LET times == {d.at : d \in {e \in deletes : e.id = id}}
        IN  IF times = {} THEN NoTime
            ELSE CHOOSE t \in times : \A u \in times : t >= u]

\* Faulty: a tombstone beats a copy of the same time.
DeleteWinsTies(tb, tg, td) ==
    td # NoTime /\ MaxTime(tb, tg) # NoTime /\ td >= MaxTime(tb, tg)

\* A tombstone beats both copies only when it is strictly newer than both.
DeleteWins(tb, tg, td) ==
    /\ td # NoTime
    /\ MaxTime(tb, tg) # NoTime
    /\ td > MaxTime(tb, tg)

KindsFor(tb, tg, td) ==
    IF DeleteWins(tb, tg, td)
    THEN {k \in {"DeleteFromBlue", "DeleteFromGreen"} :
             IF k = "DeleteFromBlue" THEN tb # NoTime ELSE tg # NoTime}
    ELSE {k \in {"CopyToGreen", "CopyToBlue"} :
             IF k = "CopyToGreen" THEN Newer(tb, tg) ELSE Newer(tg, tb)}

BuildPlan(blue, green, deletes) ==
    LET delMax == DelMax(deletes)
    IN  {op \in Op : op.kind \in KindsFor(blue[op.id], green[op.id], delMax[op.id])}

\* The side an operation writes.
Target(kind) ==
    IF kind \in {"CopyToBlue", "DeleteFromBlue"} THEN "blue" ELSE "green"

\* sync.go, filterPlanOneWay.
FilterPlanOneWay(plan, mode) ==
    IF mode = "both" THEN plan
    ELSE {op \in plan :
            Target(op.kind) = (IF mode = "to-blue" THEN "blue" ELSE "green")}

\* Faulty: the overlap is forgotten.
WindowWithoutOverlap(safeThrough, overlap, now) == [start |-> safeThrough, end |-> now]

\* window.go: both ends are inclusive.
ComputeSyncWindow(safeThrough, overlap, now) ==
    [start |-> safeThrough - overlap, end |-> now]

\* Faulty: a row stamped at the very end of the window is left out.
InWindowOpen(t, window) == t # NoTime /\ window.start <= t /\ t < window.end

InWindow(t, window) == t # NoTime /\ window.start <= t /\ t <= window.end
=============================================================================
