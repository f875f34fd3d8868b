--------------------------- MODULE TablePass_proofs ---------------------------
(***************************************************************************)
(* Proofs about TablePass, for every set of ids, every overlap, lookback,  *)
(* skew, number of workers and bound on the clock and on the edits: the    *)
(* types, and what the program writes and where it moves the checkpoint,   *)
(* which rests on the invariant SightInv.                                  *)
(***************************************************************************)
EXTENDS TablePassInv, TLAPS

LEMMA SidesType ==
    /\ Sides = {"blue", "green"}
    /\ \A s \in Sides : Other(s) \in Sides /\ Other(s) # s /\ Other(Other(s)) = s
    /\ \A id : Src(id) \in Sides /\ Dst(id) \in Sides /\ Dst(id) # Src(id)
  BY DEF Sides, Other, Src, Dst

LEMMA StampType == \A s \in Sides : clock \in Int => Stamp(s) \in Int
  BY TimesAssumption DEF Stamp

LEMMA EndPassType == EndPass =>
    /\ pc' = "idle" /\ ctxDone' = FALSE
    /\ pc' \in PcState
    /\ opts' \in [apply : BOOLEAN, oneWay : OneWayModes]
    /\ fileNow' \in Nat /\ began' \in Nat
    /\ window' \in [start : Int, end : Int]
    /\ unread' \in [Sides -> SUBSET Ids]
    /\ manifest' \in [Sides -> [Ids -> Stamps]]
    /\ st' \in [Ids -> OpState]
    /\ copy' \in [Ids -> RowCopy]
    /\ endThrough' \in Nat
    /\ ctxDone' \in BOOLEAN
  <1>1. SUFFICES ASSUME EndPass
                 PROVE  /\ pc' = "idle" /\ ctxDone' = FALSE /\ pc' \in PcState
                        /\ opts' \in [apply : BOOLEAN, oneWay : OneWayModes]
                        /\ fileNow' \in Nat /\ began' \in Nat /\ endThrough' \in Nat
                        /\ window' \in [start : Int, end : Int]
                        /\ unread' \in [Sides -> SUBSET Ids]
                        /\ manifest' \in [Sides -> [Ids -> Stamps]]
                        /\ st' \in [Ids -> OpState]
                        /\ copy' \in [Ids -> RowCopy]
    OBVIOUS
  <1>2. opts' \in [apply : BOOLEAN, oneWay : OneWayModes]
    BY <1>1 DEF EndPass, OneWayModes
  <1>3. window' \in [start : Int, end : Int]
    BY <1>1 DEF EndPass, SeedClock
  <1>4. manifest' \in [Sides -> [Ids -> Stamps]]
    BY <1>1 DEF EndPass, EmptyManifest, Stamps
  <1>5. copy' \in [Ids -> RowCopy]
    <2>1. NoCopy \in RowCopy
      BY DEF NoCopy, RowCopy, Stamps
    <2>2. QED
      BY <1>1, <2>1 DEF EndPass
  <1>6. /\ pc' = "idle" /\ ctxDone' = FALSE /\ pc' \in PcState
        /\ fileNow' \in Nat /\ began' \in Nat /\ endThrough' \in Nat
    BY <1>1 DEF EndPass, PcState, SeedClock
  <1>7. unread' \in [Sides -> SUBSET Ids] /\ st' \in [Ids -> OpState]
    BY <1>1 DEF EndPass, AllUnread, OpState
  <1>8. QED
    BY <1>2, <1>3, <1>4, <1>5, <1>6, <1>7

\* The variables a step of EndPass may still change are on the disk.
LEMMA EndPassKeepsType ==
    TypeOK /\ EndPass /\ UNCHANGED UserState /\ safeThrough' \in Stamps
       /\ UNCHANGED deferredLog => TypeOK'
  <1>1. SUFFICES ASSUME TypeOK, EndPass, UNCHANGED UserState, safeThrough' \in Stamps,
                        UNCHANGED deferredLog
                 PROVE TypeOK'
    OBVIOUS
  <1>2. QED
    BY <1>1, EndPassType DEF TypeOK, UserState, tables

\* Only the type of the rows a step writes matters.
LEMMA WriteType ==
    ASSUME mod \in [Sides -> [Ids -> Stamps]], val \in [Sides -> [Ids -> Nat]],
           NEW s \in Sides, NEW id \in Ids, NEW t \in Stamps, NEW v \in Nat,
           Write(s, id, t, v)
    PROVE  mod' \in [Sides -> [Ids -> Stamps]] /\ val' \in [Sides -> [Ids -> Nat]]
  BY DEF Write

LEMMA PatchType ==
    ASSUME TypeOK, NEW id \in Ids, PatchLands(id)
    PROVE  mod' \in [Sides -> [Ids -> Stamps]] /\ val' \in [Sides -> [Ids -> Nat]]
  <1>1. Dst(id) \in Sides /\ Stamp(Dst(id)) \in Stamps
    BY SidesType, StampType DEF TypeOK, Stamps
  <1>2. copy[id].val \in Nat
    BY DEF TypeOK, RowCopy
  <1>3. QED
    BY <1>1, <1>2, WriteType DEF TypeOK, PatchLands

LEMMA PostType ==
    ASSUME TypeOK, NEW id \in Ids, PostLands(id)
    PROVE  mod' \in [Sides -> [Ids -> Stamps]] /\ val' \in [Sides -> [Ids -> Nat]]
  <1>1. Dst(id) \in Sides /\ Stamp(Dst(id)) \in Stamps
    BY SidesType, StampType DEF TypeOK, Stamps
  <1>2. copy[id].val \in Nat /\ copy[id].mod \in Stamps
    BY DEF TypeOK, RowCopy
  <1>3. PICK t \in {Stamp(Dst(id)), copy[id].mod} : Write(Dst(id), id, t, copy[id].val)
    BY DEF PostLands
  <1>4. QED
    BY <1>1, <1>2, <1>3, WriteType DEF TypeOK

LEMMA UserType == TypeOK /\ User => TypeOK'
  <1>1. SUFFICES ASSUME TypeOK, NEW s \in Sides, NEW id \in Ids,
                        Edit(s, id) \/ Create(s, id) \/ Delete(s, id)
                 PROVE TypeOK'
    BY DEF User
  <1>2. Stamp(s) \in Stamps /\ NoTime \in Stamps /\ edits + 1 \in Nat /\ 0 \in Nat
    BY <1>1, StampType DEF TypeOK, Stamps
  <1>3. CASE Edit(s, id)
    <2>1. mod' \in [Sides -> [Ids -> Stamps]] /\ val' \in [Sides -> [Ids -> Nat]]
      BY <1>1, <1>2, <1>3, WriteType DEF TypeOK, Edit
    <2>2. QED
      BY <1>1, <1>2, <1>3, <2>1 DEF TypeOK, Edit, disk, volatile
  <1>4. CASE Create(s, id)
    <2>1. mod' \in [Sides -> [Ids -> Stamps]] /\ val' \in [Sides -> [Ids -> Nat]]
      BY <1>1, <1>2, <1>4, WriteType DEF TypeOK, Create
    <2>2. QED
      BY <1>1, <1>2, <1>4, <2>1 DEF TypeOK, Create, disk, volatile
  <1>5. CASE Delete(s, id)
    <2>1. mod' \in [Sides -> [Ids -> Stamps]] /\ val' \in [Sides -> [Ids -> Nat]]
      BY <1>1, <1>2, <1>5, WriteType DEF TypeOK, Delete
    <2>2. QED
      BY <1>1, <1>2, <1>5, <2>1 DEF TypeOK, Delete, disk, volatile
  <1>6. QED
    BY <1>1, <1>3, <1>4, <1>5

\* What WorkerStep leaves to show of a step of a worker.
LEMMA WorkerStepType ==
    ASSUME TypeOK, NEW id \in Ids, NEW state \in OpState, WorkerStep(id, state),
           mod' \in [Sides -> [Ids -> Stamps]], val' \in [Sides -> [Ids -> Nat]],
           pc' \in PcState, copy' \in [Ids -> RowCopy]
    PROVE  TypeOK'
  BY DEF TypeOK, WorkerStep, disk

LEMMA WorkerType == \A id \in Ids : TypeOK /\ Worker(id) => TypeOK'
  <1>1. SUFFICES ASSUME TypeOK, NEW id \in Ids, Worker(id) PROVE TypeOK'
    OBVIOUS
  <1>2. /\ mod \in [Sides -> [Ids -> Stamps]] /\ val \in [Sides -> [Ids -> Nat]]
        /\ pc \in PcState /\ copy \in [Ids -> RowCopy] /\ NoCopy \in RowCopy
        /\ {"got", "skipped", "done", "post", "resent", "deferred"} \subseteq OpState
    BY <1>1 DEF TypeOK, RowCopy, NoCopy, Stamps, OpState
  <1>3. [mod |-> mod[Src(id)][id], val |-> val[Src(id)][id]] \in RowCopy
    BY <1>2, SidesType DEF RowCopy
  <1>4. CASE GetSource(id)
    BY <1>1, <1>2, <1>3, <1>4, WorkerStepType DEF GetSource
  <1>5. CASE SourceGone(id)
    BY <1>1, <1>2, <1>5, WorkerStepType DEF SourceGone
  <1>6. CASE PatchDest(id)
    BY <1>1, <1>2, <1>6, PatchType, WorkerStepType DEF PatchDest
  <1>7. CASE PatchMissing(id)
    BY <1>1, <1>2, <1>7, WorkerStepType DEF PatchMissing
  <1>8. CASE PostDest(id)
    BY <1>1, <1>2, <1>8, PostType, WorkerStepType DEF PostDest
  <1>9. QED
    BY <1>1, <1>4, <1>5, <1>6, <1>7, <1>8 DEF Worker

LEMMA VerifierType == \A id \in Ids : TypeOK /\ Verifier(id) => TypeOK'
  <1>1. SUFFICES ASSUME TypeOK, NEW id \in Ids, Verifier(id) PROVE TypeOK'
    OBVIOUS
  <1>2. /\ mod \in [Sides -> [Ids -> Stamps]] /\ val \in [Sides -> [Ids -> Nat]]
        /\ pc \in PcState /\ copy \in [Ids -> RowCopy] /\ NoCopy \in RowCopy
        /\ {"got", "done"} \subseteq OpState /\ safeThrough \in Stamps
        /\ [mod |-> mod["blue"][id], val |-> val["blue"][id]] \in RowCopy
    BY <1>1 DEF TypeOK, RowCopy, NoCopy, Stamps, OpState, Sides
  <1>3. CASE RecheckBlue(id)
    BY <1>1, <1>2, <1>3, WorkerStepType DEF RecheckBlue
  <1>4. CASE RecheckGreen(id)
    BY <1>1, <1>2, <1>4, WorkerStepType DEF RecheckGreen
  <1>5. CASE RecheckFails(id)
    BY <1>1, <1>2, <1>5, EndPassKeepsType DEF RecheckFails, disk
  <1>6. QED
    BY <1>1, <1>3, <1>4, <1>5 DEF Verifier

LEMMA FaultType == TypeOK /\ Fault => TypeOK'
  <1>1. SUFFICES ASSUME TypeOK, Fault PROVE TypeOK'
    OBVIOUS
  <1>2. /\ mod \in [Sides -> [Ids -> Stamps]] /\ val \in [Sides -> [Ids -> Nat]]
        /\ pc \in PcState /\ copy \in [Ids -> RowCopy] /\ NoCopy \in RowCopy
        /\ {"resent", "deferred"} \subseteq OpState /\ safeThrough \in Stamps
        /\ "drain" \in PcState
    BY <1>1 DEF TypeOK, RowCopy, NoCopy, Stamps, OpState, PcState
  <1>3. ASSUME NEW id \in Ids, LoseReply(id) PROVE TypeOK'
    BY <1>1, <1>2, <1>3, PatchType, PostType, WorkerStepType DEF LoseReply
  <1>4. ASSUME NEW id \in Ids, Defer(id) PROVE TypeOK'
    BY <1>1, <1>2, <1>4, WorkerStepType DEF Defer
  <1>5. ASSUME NEW id \in Ids, Fatal(id) PROVE TypeOK'
    BY <1>1, <1>2, <1>5 DEF Fatal, TypeOK, UserState, tables, disk, volatile
  <1>6. CASE Abort
    BY <1>1, <1>2, <1>6, EndPassKeepsType DEF Abort, disk
  <1>7. CASE Crash
    BY <1>1, <1>2, <1>7, EndPassKeepsType DEF Crash, disk
  <1>8. CASE Disconnect
    BY <1>1, <1>8 DEF Disconnect, TypeOK, UserState, tables, disk
  <1>9. QED
    BY <1>1, <1>3, <1>4, <1>5, <1>6, <1>7, <1>8 DEF Fault

LEMMA PassStepType == TypeOK /\ PassStep => TypeOK'
  <1>1. SUFFICES ASSUME TypeOK, PassStep PROVE TypeOK'
    OBVIOUS
  <1>2. /\ safeThrough \in Stamps /\ window.end \in Stamps /\ endThrough \in Stamps
        /\ PcState = {"idle", "load", "fetch", "apply", "drain", "verify",
                      "recheck", "save"}
    BY <1>1 DEF TypeOK, Stamps, PcState
  <1>3. CASE OpenWindow
    <2>1. window' \in [start : Int, end : Int]
      BY <1>1, <1>3, TimesAssumption DEF TypeOK, OpenWindow, ComputeSyncWindow, Stamps
    <2>2. QED
      BY <1>1, <1>2, <1>3, <2>1 DEF OpenWindow, TypeOK, UserState, tables, disk
  <1>4. ASSUME NEW s \in Sides, NEW id \in Ids, ScanRow(s, id) PROVE TypeOK'
    <2>1. (IF InWindow(mod[s][id], FetchWindow) THEN mod[s][id] ELSE NoTime) \in Stamps
      BY <1>1 DEF TypeOK, Stamps
    <2>2. manifest' \in [Sides -> [Ids -> Stamps]]
      BY <1>1, <1>4, <2>1 DEF TypeOK, ScanRow
    <2>3. unread' \in [Sides -> SUBSET Ids]
      BY <1>1, <1>4 DEF TypeOK, ScanRow
    <2>4. QED
      BY <1>1, <1>4, <2>2, <2>3 DEF ScanRow, TypeOK, UserState, tables, disk
  <1>5. CASE PlanDryRun
    BY <1>1, <1>2, <1>5, EndPassKeepsType DEF PlanDryRun, disk
  <1>6. CASE PlanEmpty
    BY <1>1, <1>2, <1>6, EndPassKeepsType DEF PlanEmpty
  <1>7. CASE PlanApply
    BY <1>1, <1>2, <1>7 DEF PlanApply, TypeOK, OpState, UserState, tables, disk
  <1>8. ASSUME NEW id \in Ids, Worker(id) PROVE TypeOK'
    BY <1>1, <1>8, WorkerType
  <1>9. CASE EndDrain
    BY <1>1, <1>2, <1>9, EndPassKeepsType DEF EndDrain, disk
  <1>10. CASE StopSending
    BY <1>1, <1>10 DEF StopSending, TypeOK, OpState, UserState, tables, disk
  <1>11. CASE ApplyDone
    <2>1. manifest' \in [Sides -> [Ids -> Stamps]] /\ unread' \in [Sides -> SUBSET Ids]
      BY <1>11 DEF ApplyDone, EmptyManifest, AllUnread, Stamps
    <2>2. deferredLog' \subseteq Ids
      BY <1>1, <1>11 DEF ApplyDone, TypeOK, In
    <2>3. pc' \in PcState /\ st' \in [Ids -> OpState]
      BY <1>2, <1>11 DEF ApplyDone, OpState
    <2>4. QED
      BY <1>1, <1>11, <2>1, <2>2, <2>3 DEF ApplyDone, TypeOK, UserState, tables
  <1>12. CASE VerifyPlan
    BY <1>1, <1>2, <1>12 DEF VerifyPlan, TypeOK, OpState, UserState, tables, disk
  <1>13. ASSUME NEW id \in Ids, Verifier(id) PROVE TypeOK'
    BY <1>1, <1>13, VerifierType
  <1>14. CASE Save
    BY <1>1, <1>2, <1>14, EndPassKeepsType DEF Save
  <1>15. QED
    BY <1>1, <1>3, <1>4, <1>5, <1>6, <1>7, <1>8, <1>9, <1>10, <1>11, <1>12, <1>13,
       <1>14 DEF PassStep

\* Every variable keeps its type along every behaviour, whatever fails in a pass
\* and whatever options it runs with.
THEOREM TypeCorrect == Spec => []TypeOK
  <1>1. Init => TypeOK
    <2>1. SUFFICES ASSUME Init PROVE TypeOK
      OBVIOUS
    <2>2. mod \in [Sides -> [Ids -> Stamps]] /\ val \in [Sides -> [Ids -> Nat]]
      <3>1. {0, NoTime} \subseteq Stamps
        BY DEF Stamps
      <3>2. QED
        BY <2>1, <3>1 DEF Init
    <2>3. /\ manifest \in [Sides -> [Ids -> Stamps]] /\ copy \in [Ids -> RowCopy]
          /\ syncDeletes \in [Ids -> Stamps]
      BY <2>1 DEF Init, EmptyManifest, Stamps, RowCopy, NoCopy
    <2>4. /\ opts \in [apply : BOOLEAN, oneWay : OneWayModes]
          /\ window \in [start : Int, end : Int]
      BY <2>1 DEF Init, OneWayModes, SeedClock
    <2>5. QED
      BY <2>1, <2>2, <2>3, <2>4
      DEF Init, TypeOK, SeedClock, PcState, OpState, AllUnread, Stamps
  <1>2. TypeOK /\ [Next]_vars => TypeOK'
    <2>1. SUFFICES ASSUME TypeOK, [Next]_vars PROVE TypeOK'
      OBVIOUS
    <2>2. CASE Tick
      BY <2>1, <2>2 DEF Tick, TypeOK, tables, disk, volatile
    <2>3. CASE User
      BY <2>1, <2>3, UserType
    <2>4. CASE BeginFile
      <3>1. opts' \in [apply : BOOLEAN, oneWay : OneWayModes]
        BY <2>4, OptionsAssumption DEF BeginFile
      <3>2. QED
        BY <2>1, <2>4, <3>1 DEF BeginFile, TypeOK, PcState, UserState, tables, disk
    <2>5. CASE PassStep
      BY <2>1, <2>5, PassStepType
    <2>6. CASE Fault
      BY <2>1, <2>6, FaultType
    <2>7. CASE UNCHANGED vars
      BY <2>1, <2>7 DEF TypeOK, vars, tables, disk, volatile
    <2>8. QED
      BY <2>1, <2>2, <2>3, <2>4, <2>5, <2>6, <2>7 DEF Next
  <1>3. QED
    BY <1>1, <1>2, PTL DEF Spec
-----------------------------------------------------------------------------
(* The plan: its operations run from the newer row to the older one, and only  *)
(* in the direction that was asked for.                                        *)

\* Without a journal, the plan has an operation for every row whose two times in
\* the manifests differ, unless the mode leaves its direction out.
LEMMA PlannedByMode ==
    ASSUME TypeOK
    PROVE  Planned = {id \in Ids :
              \/ /\ Newer(manifest["blue"][id], manifest["green"][id])
                 /\ opts.oneWay # "to-blue"
              \/ /\ Newer(manifest["green"][id], manifest["blue"][id])
                 /\ opts.oneWay # "to-green"}
  <1>1. \A id \in Ids : DelMax({})[id] = NoTime
    BY DEF DelMax
  <1>2. \A tb, tg : ~DeleteWins(tb, tg, NoTime)
    BY DEF DeleteWins
  <1>3. \A tb, tg : KindsFor(tb, tg, NoTime) =
          {k \in {"CopyToGreen", "CopyToBlue"} :
             IF k = "CopyToGreen" THEN Newer(tb, tg) ELSE Newer(tg, tb)}
    BY <1>2 DEF KindsFor
  <1>4. BuildPlan(manifest["blue"], manifest["green"], {}) =
          {op \in Op :
             op.kind \in KindsFor(manifest["blue"][op.id], manifest["green"][op.id], NoTime)}
    <2>1. \A op \in Op : op.id \in Ids
      BY DEF Op
    <2>2. QED
      BY <1>1, <2>1 DEF BuildPlan
  <1>5. opts.oneWay \in {"both", "to-blue", "to-green"}
    BY DEF TypeOK, OneWayModes
  <1>6. ASSUME NEW op
        PROVE  op \in Plan <=>
                 /\ op \in Op
                 /\ \/ /\ op.kind = "CopyToGreen" /\ opts.oneWay # "to-blue"
                       /\ Newer(manifest["blue"][op.id], manifest["green"][op.id])
                    \/ /\ op.kind = "CopyToBlue" /\ opts.oneWay # "to-green"
                       /\ Newer(manifest["green"][op.id], manifest["blue"][op.id])
    <2>1. op \in BuildPlan(manifest["blue"], manifest["green"], {}) <=>
            /\ op \in Op
            /\ \/ /\ op.kind = "CopyToGreen"
                  /\ Newer(manifest["blue"][op.id], manifest["green"][op.id])
               \/ /\ op.kind = "CopyToBlue"
                  /\ Newer(manifest["green"][op.id], manifest["blue"][op.id])
      BY <1>3, <1>4
    <2>2. op \in Plan <=>
            /\ op \in BuildPlan(manifest["blue"], manifest["green"], {})
            /\ \/ opts.oneWay = "both"
               \/ Target(op.kind) = IF opts.oneWay = "to-blue" THEN "blue" ELSE "green"
      BY DEF Plan, FilterPlanOneWay
    <2>3. QED
      BY <1>5, <2>1, <2>2 DEF Target
  <1>7. ASSUME NEW id \in Ids, NEW k \in OpKind
        PROVE  [id |-> id, kind |-> k] \in Op
    BY DEF Op
  <1>8. ASSUME NEW id
        PROVE  id \in Planned <=>
                 /\ id \in Ids
                 /\ \/ /\ Newer(manifest["blue"][id], manifest["green"][id])
                       /\ opts.oneWay # "to-blue"
                    \/ /\ Newer(manifest["green"][id], manifest["blue"][id])
                       /\ opts.oneWay # "to-green"
    <2>1. id \in Planned <=> \E op \in Plan : op.id = id
      BY DEF Planned
    <2>2. ASSUME NEW op \in Plan, op.id = id
          PROVE  /\ id \in Ids
                 /\ \/ /\ Newer(manifest["blue"][id], manifest["green"][id])
                       /\ opts.oneWay # "to-blue"
                    \/ /\ Newer(manifest["green"][id], manifest["blue"][id])
                       /\ opts.oneWay # "to-green"
      BY <1>6, <2>2 DEF Op
    <2>3. ASSUME id \in Ids, Newer(manifest["blue"][id], manifest["green"][id]),
                 opts.oneWay # "to-blue"
          PROVE  \E op \in Plan : op.id = id
      <3> DEFINE op == [id |-> id, kind |-> "CopyToGreen"]
      <3>1. op \in Op /\ op.id = id /\ op.kind = "CopyToGreen"
        BY <1>7, <2>3 DEF OpKind
      <3> HIDE DEF op
      <3>2. op \in Plan
        BY <1>6, <2>3, <3>1
      <3>3. QED
        BY <3>1, <3>2
    <2>4. ASSUME id \in Ids, Newer(manifest["green"][id], manifest["blue"][id]),
                 opts.oneWay # "to-green"
          PROVE  \E op \in Plan : op.id = id
      <3> DEFINE op == [id |-> id, kind |-> "CopyToBlue"]
      <3>1. op \in Op /\ op.id = id /\ op.kind = "CopyToBlue"
        BY <1>7, <2>4 DEF OpKind
      <3> HIDE DEF op
      <3>2. op \in Plan
        BY <1>6, <2>4, <3>1
      <3>3. QED
        BY <3>1, <3>2
    <2>5. QED
      BY <2>1, <2>2, <2>3, <2>4
  <1>9. QED
    BY <1>8

\* Of two stamps at most one is newer.
LEMMA NewerOneWay ==
    \A a \in Stamps, b \in Stamps : Newer(a, b) => ~Newer(b, a)
  BY TimesAssumption DEF Stamps, Newer, CompareModification

\* An operation of the plan goes from the newer time to the older one, to the
\* side the mode allows.
LEMMA PlannedGoesForward ==
    ASSUME TypeOK, NEW id \in Planned
    PROVE  /\ InMode(id)
           /\ Newer(manifest[Src(id)][id], manifest[Dst(id)][id])
  <1>1. /\ id \in Ids
        /\ manifest["blue"][id] \in Stamps /\ manifest["green"][id] \in Stamps
    BY PlannedByMode DEF TypeOK, Sides
  <1>2. CASE Newer(manifest["blue"][id], manifest["green"][id])
    <2>1. ~Newer(manifest["green"][id], manifest["blue"][id])
      BY <1>1, <1>2, NewerOneWay
    <2>2. Src(id) = "blue" /\ Dst(id) = "green"
      BY <1>2 DEF Src, Dst, Other
    <2>3. QED
      BY <1>2, <2>1, <2>2, PlannedByMode DEF InMode
  <1>3. CASE ~Newer(manifest["blue"][id], manifest["green"][id])
    <2>1. Src(id) = "green" /\ Dst(id) = "blue"
      BY <1>3 DEF Src, Dst, Other
    <2>2. QED
      BY <1>3, <2>1, PlannedByMode DEF InMode
  <1>4. QED
    BY <1>2, <1>3

\* The planner leaves a row out only if nothing is lost on it when the checkpoint
\* moves to the end of the window.
LEMMA UnplannedIsKept ==
    ASSUME TypeOK, SightInv, pc \in {"fetch", "verify"}, Scanned,
           NEW id \in Ids, id \notin Planned
    PROVE  Kept(id)
  <1>1. SUFFICES ASSUME ~Deleted(id), ~Behind(id), \A s \in Sides : ~LateOn(s, id)
                 PROVE  Tied(id) \/ OutOfMode(id)
    BY DEF Kept
  <1>2. /\ Asked \in Int /\ window.start \in Int /\ MaxLag \in Nat
        /\ "blue" \in Sides /\ "green" \in Sides
        /\ \A s \in Sides : mod[s][id] \in Int \cup {NoTime}
    BY TimesAssumption DEF TypeOK, Asked, Stamps, Sides
  <1>3. ASSUME NEW s \in Sides
        PROVE  manifest[s][id] = IF Present(s, id) /\ window.start <= mod[s][id]
                                 THEN mod[s][id] ELSE NoTime
    <2>1. Shown(s, id)
      BY DEF SightInv, ShownInv, Scanned
    <2>2. manifest[s][id] = IF InWindow(mod[s][id], [start |-> window.start, end |-> Asked])
                            THEN mod[s][id] ELSE NoTime
      BY <1>1, <2>1 DEF Shown, InWindow, Present
    <2>3. Present(s, id) => mod[s][id] \in Int /\ mod[s][id] <= Asked
      BY <1>1, <1>2 DEF LateOn, Present
    <2>4. QED
      BY <2>2, <2>3 DEF InWindow, Present
  <1>4. PICK s \in Sides : Present(s, id) /\ window.start <= mod[s][id]
    BY <1>1, <1>2 DEF Behind, Present
  <1>5. ASSUME NEW a \in Sides, NEW b \in Sides, Newer(manifest[a][id], manifest[b][id])
        PROVE  Newer(mod[a][id], mod[b][id])
    <2>1. manifest[a][id] = mod[a][id] /\ mod[a][id] \in Int /\ window.start <= mod[a][id]
      BY <1>2, <1>3, <1>5 DEF Newer, Present
    <2>2. CASE manifest[b][id] = mod[b][id]
      BY <1>5, <2>1, <2>2
    <2>3. CASE manifest[b][id] # mod[b][id]
      BY <1>2, <1>3, <2>1, <2>3, TimesAssumption DEF Newer, Present, CompareModification
    <2>4. QED
      BY <2>2, <2>3
  <1>6. CASE manifest["blue"][id] = manifest["green"][id]
    <2>1. manifest[s][id] = mod[s][id] /\ mod[s][id] # NoTime
      BY <1>3, <1>4 DEF Present
    <2>2. s = "blue" \/ s = "green"
      BY DEF Sides
    <2>3. manifest["blue"][id] # NoTime /\ manifest["green"][id] # NoTime
      BY <1>6, <2>1, <2>2
    <2>4. QED
      BY <1>2, <1>3, <1>6, <2>3 DEF Tied, Present
  <1>7. CASE manifest["blue"][id] # manifest["green"][id]
    <2>1. /\ manifest["blue"][id] \in Int \cup {NoTime}
          /\ manifest["green"][id] \in Int \cup {NoTime}
      BY <1>2 DEF TypeOK, Stamps
    <2>2. \/ Newer(manifest["blue"][id], manifest["green"][id])
          \/ Newer(manifest["green"][id], manifest["blue"][id])
      BY <1>7, <2>1, TimesAssumption DEF Newer, CompareModification
    <2>3. QED
      BY <1>2, <1>5, <2>2, PlannedByMode DEF OutOfMode
  <1>8. QED
    BY <1>6, <1>7
-----------------------------------------------------------------------------
(* SightInv, one lemma per kind of step.                                       *)

\* A pass that ends forgets what it knew.
LEMMA EndPassSight == EndPass => SightInv'
  BY DEF EndPass, SightInv, TimeInv, StartInv, ShownInv, AimInv, RecheckInv, Checking,
         Applying, EmptyManifest

\* A row that nobody writes keeps what was known of it.
LEMMA SameRowSight ==
    ASSUME NEW i \in Ids,
           \A r \in Sides : mod'[r][i] = mod[r][i] /\ val'[r][i] = val[r][i],
           syncDeletes'[i] = syncDeletes[i], UNCHANGED <<opts, window>>, Asked' = Asked
    PROVE  /\ Deleted(i)' = Deleted(i)
           /\ \A r \in Sides : Present(r, i)' = Present(r, i)
           /\ \A r \in Sides : LateOn(r, i)' = LateOn(r, i)
           /\ Kept(i)' = Kept(i)
  <1>1. "blue" \in Sides /\ "green" \in Sides
    BY DEF Sides
  <1>2. /\ Deleted(i)' = Deleted(i)
        /\ \A r \in Sides : Present(r, i)' = Present(r, i)
    BY DEF Deleted, Present
  <1>3. \A r \in Sides : LateOn(r, i)' = LateOn(r, i)
    BY <1>2 DEF LateOn
  <1>4. /\ InSync(i)' = InSync(i) /\ Tied(i)' = Tied(i) /\ OutOfMode(i)' = OutOfMode(i)
        /\ Behind(i)' = Behind(i)
    BY <1>1, <1>2 DEF InSync, Tied, OutOfMode, Behind
  <1>5. QED
    BY <1>2, <1>3, <1>4 DEF Kept

LEMMA OpenSight ==
    ASSUME TypeOK, SightInv, BeginFile \/ OpenWindow
    PROVE  SightInv'
  <1>1. CASE BeginFile
    BY <1>1 DEF BeginFile, UserState, TypeOK, SightInv, TimeInv, StartInv, ShownInv,
                AimInv, RecheckInv, Checking, Applying, EmptyManifest
  <1>2. CASE OpenWindow
    <2>1. /\ UNCHANGED <<clock, safeThrough, fileNow, unread, manifest>>
          /\ pc = "load" /\ pc' = "fetch"
          /\ window' = [start |-> IF safeThrough = NoTime THEN fileNow - Lookback
                                  ELSE safeThrough - Overlap,
                        end |-> fileNow]
      BY <1>2 DEF OpenWindow, UserState, disk, ComputeSyncWindow
    <2>2. TimeInv' /\ StartInv'
      BY <2>1 DEF SightInv, TimeInv, StartInv, Checking
    <2>3. ShownInv'
      BY <2>1 DEF SightInv, ShownInv, EmptyManifest, AllUnread
    <2>4. AimInv' /\ RecheckInv'
      BY <2>1 DEF AimInv, RecheckInv, Applying
    <2>5. QED
      BY <2>2, <2>3, <2>4 DEF SightInv
  <1>3. QED
    BY <1>1, <1>2

\* What a manifest shows of a row is what the row is at that moment.
LEMMA ScanRowSight ==
    ASSUME TypeOK, SightInv, NEW s \in Sides, NEW id \in Ids, ScanRow(s, id)
    PROVE  SightInv'
  <1>1. /\ UNCHANGED <<clock, mod, val, syncDeletes, safeThrough, pc, opts, fileNow,
                       window, endThrough>>
        /\ pc \in {"fetch", "verify"}
    BY DEF ScanRow, UserState, tables, disk
  <1>2. Asked' = Asked
    BY <1>1 DEF Asked
  <1>3. TimeInv' /\ StartInv' /\ AimInv' /\ RecheckInv'
    BY <1>1 DEF SightInv, TimeInv, StartInv, AimInv, RecheckInv, Checking, Applying
  <1>4. FetchWindow = [start |-> window.start, end |-> Asked]
    BY <1>1 DEF FetchWindow, Asked, TypeOK, SightInv, StartInv
  <1>5. manifest'[s][id] = IF InWindow(mod[s][id], [start |-> window.start, end |-> Asked])
                           THEN mod[s][id] ELSE NoTime
    BY <1>4 DEF ScanRow, TypeOK
  <1>6. \A r \in Sides, i \in Ids :
           /\ manifest'[r][i] = manifest[r][i] \/ (r = s /\ i = id)
           /\ i \notin unread'[r] => i \notin unread[r] \/ (r = s /\ i = id)
    BY DEF ScanRow, TypeOK
  <1>7. ASSUME NEW r \in Sides, NEW i \in Ids
        PROVE  /\ manifest'[r][i] # NoTime => window'.start <= manifest'[r][i]
               /\ i \notin unread'[r] => Shown(r, i)'
    <2>1. CASE r = s /\ i = id
      BY <1>1, <1>2, <1>5, <2>1 DEF Shown, InWindow
    <2>2. CASE ~(r = s /\ i = id)
      <3>1. manifest'[r][i] = manifest[r][i] /\ (i \notin unread'[r] => i \notin unread[r])
        BY <1>6, <2>2
      <3>2. /\ manifest[r][i] # NoTime => window.start <= manifest[r][i]
            /\ i \notin unread[r] => Shown(r, i)
        BY <1>1 DEF SightInv, ShownInv
      <3>3. QED
        BY <1>1, <1>2, <3>1, <3>2 DEF Shown, LateOn, Present, Deleted
    <2>3. QED
      BY <2>1, <2>2
  <1>8. ShownInv'
    BY <1>1, <1>7 DEF ShownInv
  <1>9. QED
    BY <1>3, <1>8 DEF SightInv

\* The operations of a plan write the side the mode allows.
LEMMA PlanApplySight == ASSUME TypeOK, SightInv, PlanApply PROVE SightInv'
  <1>1. /\ UNCHANGED <<clock, mod, val, syncDeletes, safeThrough, opts, fileNow, window,
                       manifest, copy, endThrough>>
        /\ pc = "fetch" /\ pc' = "apply" /\ Scanned /\ opts.apply
        /\ st' = [id \in Ids |-> IF id \in Planned THEN "todo" ELSE "none"]
    BY DEF PlanApply, UserState, tables, disk
  <1>2. Asked' = Asked /\ Asked \in Int /\ window.start \in Int /\ MaxLag \in Nat
    BY <1>1, TimesAssumption DEF Asked, TypeOK
  <1>3. TimeInv' /\ StartInv' /\ ShownInv' /\ RecheckInv'
    BY <1>1 DEF SightInv, TimeInv, StartInv, ShownInv, RecheckInv, Checking
  <1>4. ASSUME NEW id \in Planned
        PROVE  InMode(id)'
    <2>1. id \in Ids
      BY PlannedByMode
    <2>2. PICK s \in Sides, d \in Sides : s = Src(id) /\ d = Dst(id)
      BY SidesType
    <2>3. Src(id)' = s /\ Dst(id)' = d
      BY <1>1, <2>2 DEF Src, Dst
    <2>4. InMode(id)
      BY PlannedGoesForward
    <2>5. QED
      BY <1>1, <2>2, <2>3, <2>4 DEF InMode
  <1>5. AimInv'
    BY <1>1, <1>4 DEF AimInv
  <1>6. QED
    BY <1>3, <1>5 DEF SightInv

\* A step that moves the operation on id to another state.
LEMMA MoveSight ==
    ASSUME TypeOK, SightInv, Applying, NEW id \in Ids,
           NEW state \in OpState \ {"none"},
           st[id] # "none", WorkerStep(id, state), UNCHANGED pc
    PROVE  SightInv'
  <1>1. /\ UNCHANGED <<clock, syncDeletes, safeThrough, pc, opts, fileNow, window,
                       unread, manifest, endThrough>>
        /\ pc \in {"apply", "drain"}
    BY DEF WorkerStep, disk, Applying
  <1>2. /\ st'[id] = state
        /\ \A i \in Ids \ {id} : st'[i] = st[i]
    BY DEF WorkerStep, TypeOK
  <1>3. Asked' = Asked /\ \A i : Src(i)' = Src(i) /\ Dst(i)' = Dst(i)
    BY <1>1 DEF Asked, Src, Dst
  <1>4. TimeInv' /\ StartInv' /\ ShownInv' /\ RecheckInv'
    BY <1>1 DEF SightInv, TimeInv, StartInv, ShownInv, RecheckInv, Checking
  <1>5. ASSUME NEW i \in Ids, st'[i] # "none"
        PROVE  InMode(i)'
    <2>1. InMode(i)
      BY <1>2, <1>5 DEF SightInv, AimInv
    <2>2. QED
      BY <1>1, <1>3, <2>1 DEF InMode
  <1>6. AimInv'
    <2>1. opts'.apply
      BY <1>1 DEF SightInv, AimInv
    <2>2. QED
      BY <1>5, <2>1 DEF AimInv
  <1>7. QED
    BY <1>4, <1>6 DEF SightInv

\* A stamp given now is too late for the manifests of the pass.
LEMMA StampIsLate ==
    ASSUME TypeOK, SightInv, pc # "idle", NEW s \in Sides
    PROVE  /\ Stamp(s) \in Int /\ Stamp(s) # NoTime
           /\ Asked \in Int /\ Stamp(s) >= Asked - MaxLag
  <1>1. Stamp(s) \in Int /\ Stamp(s) >= clock - MaxLag /\ MaxLag \in Nat /\ clock \in Int
    BY TimesAssumption DEF TypeOK, Stamp
  <1>2. Asked \in Int /\ Asked <= clock
    BY DEF TypeOK, SightInv, TimeInv, Asked, Checking
  <1>3. QED
    BY <1>1, <1>2, TimesAssumption

\* A request that reaches the server writes the target of its operation alone:
\* the copy, at the server's time or at the one the copy carries.
LEMMA LandsOnTarget ==
    ASSUME TypeOK, NEW id \in Ids, NEW d \in Sides, d = Dst(id),
           PatchLands(id) \/ PostLands(id)
    PROVE  /\ \A r \in Sides, i \in Ids :
                 (mod'[r][i] = mod[r][i] /\ val'[r][i] = val[r][i]) \/ (r = d /\ i = id)
           /\ val'[d][id] = copy[id].val
           /\ mod'[d][id] \in {Stamp(d), copy[id].mod}
  <1>1. PICK t \in {Stamp(d), copy[id].mod} : Write(d, id, t, copy[id].val)
    BY DEF PatchLands, PostLands
  <1>2. QED
    BY <1>1 DEF TypeOK, Write

\* The steps of a worker.
LEMMA WorkerSight ==
    ASSUME TypeOK, SightInv, NEW id \in Ids,
           Worker(id) \/ LoseReply(id) \/ Defer(id)
    PROVE  SightInv'
  <1>1. /\ Applying /\ UNCHANGED pc /\ st[id] # "none"
        /\ \E state \in OpState \ {"none"} : WorkerStep(id, state)
    BY DEF Worker, GetSource, SourceGone, PatchDest, PatchMissing, PostDest, LoseReply, Defer,
           Running, Applying, OpState
  <1>2. QED
    BY <1>1, MoveSight

\* Steps that only move the pass on, or the clock.
LEMMA QuietStepSight ==
    ASSUME TypeOK, SightInv,
           Tick \/ StopSending \/ Disconnect \/ ApplyDone \/ (\E id \in Ids : Fatal(id))
    PROVE  SightInv'
  <1>1. /\ UNCHANGED <<mod, val, syncDeletes, safeThrough, opts, fileNow, window>>
    BY DEF Tick, StopSending, Disconnect, ApplyDone, Fatal, UserState, tables, disk, volatile
  <1>2. ASSUME UNCHANGED <<manifest, unread, copy, endThrough>>,
               clock' = clock \/ clock' = clock + 1,
               pc' = pc \/ (pc = "apply" /\ pc' = "drain"),
               \A i \in Ids :
                   st'[i] = st[i] \/ (Applying /\ st[i] = "todo" /\ st'[i] = "unsent")
        PROVE  SightInv'
    <2>1. Asked' = Asked /\ \A i : Src(i)' = Src(i) /\ Dst(i)' = Dst(i)
      BY <1>1, <1>2 DEF Asked, Src, Dst
    <2>2. TimeInv' /\ StartInv'
      BY <1>1, <1>2 DEF SightInv, TimeInv, StartInv, Checking, TypeOK
    <2>3. \A i \in Ids :
             /\ Deleted(i)' = Deleted(i) /\ Kept(i)' = Kept(i)
             /\ \A r \in Sides : Present(r, i)' = Present(r, i) /\ LateOn(r, i)' = LateOn(r, i)
      BY <1>1, <2>1, SameRowSight
    <2>4. ShownInv'
      BY <1>1, <1>2, <2>1, <2>3 DEF SightInv, ShownInv, Shown
    <2>5. AimInv'
      <3>1. SUFFICES ASSUME Applying' PROVE AimInv'
        BY DEF AimInv
      <3>2. Applying
        BY <1>2, <3>1 DEF Applying
      <3>3. ASSUME NEW i \in Ids, st'[i] # "none"
            PROVE  InMode(i)'
        <4>1. InMode(i)
          BY <1>2, <3>2, <3>3 DEF SightInv, AimInv
        <4>2. QED
          BY <1>1, <2>1, <4>1 DEF InMode
      <3>4. opts'.apply
        BY <1>1, <3>2 DEF SightInv, AimInv
      <3>5. QED
        BY <3>3, <3>4 DEF AimInv
    <2>6. RecheckInv'
      <3>1. SUFFICES ASSUME pc' = "recheck" PROVE RecheckInv'
        BY DEF RecheckInv
      <3>2. pc = "recheck" /\ \A i \in Ids : st'[i] = st[i]
        BY <1>2, <3>1 DEF Applying
      <3>3. "blue" \in Sides
        BY DEF Sides
      <3>4. QED
        BY <1>1, <1>2, <2>3, <3>2, <3>3 DEF SightInv, RecheckInv
    <2>7. QED
      BY <2>2, <2>4, <2>5, <2>6 DEF SightInv
  <1>3. CASE Tick
    BY <1>2, <1>3 DEF Tick, volatile
  <1>4. CASE StopSending
    <2>1. \A i \in Ids :
             st'[i] = st[i] \/ (Applying /\ st[i] = "todo" /\ st'[i] = "unsent")
      BY <1>4 DEF StopSending, Applying
    <2>2. QED
      BY <1>2, <1>4, <2>1 DEF StopSending, UserState
  <1>5. CASE Disconnect
    BY <1>2, <1>5 DEF Disconnect, UserState
  <1>6. CASE \E id \in Ids : Fatal(id)
    BY <1>2, <1>6 DEF Fatal, UserState, volatile
  <1>7. CASE ApplyDone
    <2>1. /\ clock' = clock /\ endThrough' = clock /\ pc = "apply"
          /\ pc' \in {"verify", "save"} /\ manifest' = EmptyManifest /\ unread' = AllUnread
      BY <1>7 DEF ApplyDone, UserState
    <2>2. TimeInv' /\ StartInv'
      BY <1>1, <2>1 DEF SightInv, TimeInv, StartInv, Checking, TypeOK
    <2>3. ShownInv' /\ AimInv' /\ RecheckInv'
      BY <2>1 DEF ShownInv, AimInv, RecheckInv, Applying, EmptyManifest, AllUnread
    <2>4. QED
      BY <2>2, <2>3 DEF SightInv
  <1>8. QED
    BY <1>3, <1>4, <1>5, <1>6, <1>7

LEMMA VerifyPlanSight == ASSUME TypeOK, SightInv, VerifyPlan PROVE SightInv'
  <1>1. /\ UNCHANGED <<clock, mod, val, syncDeletes, safeThrough, opts, fileNow, window,
                       unread, manifest, copy, endThrough>>
        /\ pc = "verify" /\ pc' = "recheck" /\ Scanned
        /\ st' = [id \in Ids |-> IF id \in Planned THEN "todo" ELSE "none"]
    BY DEF VerifyPlan, UserState, tables, disk
  <1>2. Asked' = Asked
    BY <1>1 DEF Asked
  <1>3. TimeInv' /\ StartInv' /\ ShownInv' /\ AimInv'
    BY <1>1 DEF SightInv, TimeInv, StartInv, ShownInv, AimInv, Checking, Applying
  <1>4. ASSUME NEW id \in Ids, id \notin Planned
        PROVE  Kept(id)'
    BY <1>1, <1>2, <1>4, UnplannedIsKept, SameRowSight
  <1>5. RecheckInv'
    BY <1>1, <1>4 DEF RecheckInv
  <1>6. QED
    BY <1>3, <1>5 DEF SightInv

\* The verifier finds a row equal on both sides, unless it changed under its eyes.
LEMMA RecheckSight ==
    ASSUME TypeOK, SightInv, NEW id \in Ids, RecheckBlue(id) \/ RecheckGreen(id)
    PROVE  SightInv'
  <1>1. /\ UNCHANGED <<clock, mod, val, syncDeletes, safeThrough, pc, opts, fileNow,
                       window, unread, manifest, endThrough>>
        /\ pc = "recheck"
        /\ \A i \in Ids \ {id} : st'[i] = st[i] /\ copy'[i] = copy[i]
    BY DEF RecheckBlue, RecheckGreen, WorkerStep, disk, TypeOK
  <1>2. Asked' = Asked
    BY <1>1 DEF Asked
  <1>3. TimeInv' /\ StartInv' /\ ShownInv' /\ AimInv'
    BY <1>1 DEF SightInv, TimeInv, StartInv, ShownInv, AimInv, Checking, Applying
  <1>4. "blue" \in Sides /\ "green" \in Sides
    BY DEF Sides
  <1>5. \A i \in Ids :
           /\ Deleted(i)' = Deleted(i) /\ Kept(i)' = Kept(i)
           /\ \A r \in Sides : Present(r, i)' = Present(r, i) /\ LateOn(r, i)' = LateOn(r, i)
    BY <1>1, <1>2, SameRowSight
  <1>6. CASE RecheckBlue(id)
    <2>1. st'[id] = "got" /\ Present("blue", id) /\ copy'[id].val = val["blue"][id]
      BY <1>6 DEF RecheckBlue, WorkerStep, TypeOK
    <2>2. RecheckInv'
      BY <1>1, <1>4, <1>5, <2>1 DEF SightInv, RecheckInv
    <2>3. QED
      BY <1>3, <2>2 DEF SightInv
  <1>7. CASE RecheckGreen(id)
    <2>1. /\ st[id] = "got" /\ st'[id] = "done" /\ Present("green", id)
          /\ val["green"][id] = copy[id].val
      BY <1>7 DEF RecheckGreen, WorkerStep, TypeOK
    <2>2. \/ Present("blue", id) /\ val["blue"][id] = copy[id].val
          \/ LateOn("blue", id)
          \/ Deleted(id)
      BY <1>1, <2>1 DEF SightInv, RecheckInv
    <2>3. Kept(id)
      BY <1>4, <2>1, <2>2 DEF Kept, InSync
    <2>4. RecheckInv'
      BY <1>1, <1>4, <1>5, <2>1, <2>3 DEF SightInv, RecheckInv
    <2>5. QED
      BY <1>3, <2>4 DEF SightInv
  <1>8. QED
    BY <1>6, <1>7

\* What a user writes is late for the manifests; what a user deletes is recorded.
LEMMA UserSight ==
    ASSUME TypeOK, SightInv, NEW s \in Sides, NEW id \in Ids,
           Edit(s, id) \/ Create(s, id) \/ Delete(s, id)
    PROVE  SightInv'
  <1>1. UNCHANGED <<clock, safeThrough, pc, opts, fileNow, window, unread, manifest, st,
                    copy, endThrough>>
    BY DEF Edit, Create, Delete, disk, volatile
  <1>2. Asked' = Asked /\ \A i : Src(i)' = Src(i) /\ Dst(i)' = Dst(i)
    BY <1>1 DEF Asked, Src, Dst
  <1>3. TimeInv' /\ StartInv'
    BY <1>1 DEF SightInv, TimeInv, StartInv, Checking
  <1>4. \A r \in Sides, i \in Ids :
           (mod'[r][i] = mod[r][i] /\ val'[r][i] = val[r][i]) \/ (r = s /\ i = id)
    BY DEF Edit, Create, Delete, Write, TypeOK
  <1>5. \A i \in Ids : syncDeletes'[i] = syncDeletes[i] \/ (i = id /\ Deleted(id)')
    <2>1. clock \in Int
      BY DEF TypeOK
    <2>2. Stamp(s) # NoTime
      BY <2>1, StampType, TimesAssumption
    <2>3. QED
      BY <2>2 DEF Edit, Create, Delete, Deleted, TypeOK
  <1>6. ASSUME pc # "idle"
        PROVE  LateOn(s, id)' \/ (~Present(s, id)' /\ Deleted(id)')
    <2>1. CASE Edit(s, id) \/ Create(s, id)
      <3>1. mod'[s][id] = Stamp(s)
        BY <2>1 DEF Edit, Create, Write, TypeOK
      <3>2. QED
        BY <1>2, <1>6, <3>1, StampIsLate DEF LateOn, Present
    <2>2. CASE Delete(s, id)
      <3>1. mod'[s][id] = NoTime /\ syncDeletes'[id] = Stamp(s)
        BY <2>2 DEF Delete, Write, TypeOK
      <3>2. QED
        BY <1>6, <3>1, StampIsLate DEF Present, Deleted
    <2>3. QED
      BY <2>1, <2>2
  <1>7. \A r \in Sides, i \in Ids : r # s \/ i # id =>
           Present(r, i)' = Present(r, i) /\ LateOn(r, i)' = LateOn(r, i)
    BY <1>2, <1>4 DEF Present, LateOn
  <1>8. \A i \in Ids : Deleted(i) => Deleted(i)'
    BY <1>5 DEF Deleted
  <1>9. ShownInv'
    <2>1. ASSUME pc \in {"fetch", "verify"}, NEW r \in Sides, NEW i \in Ids, i \notin unread[r]
          PROVE  Shown(r, i)'
      <3>1. CASE r = s /\ i = id
        BY <1>6, <2>1, <3>1 DEF Shown
      <3>2. CASE r # s \/ i # id
        <4>1. Shown(r, i)
          BY <2>1 DEF SightInv, ShownInv
        <4>2. mod'[r][i] = mod[r][i]
          BY <1>4, <3>2
        <4>3. QED
          BY <1>1, <1>2, <1>7, <1>8, <3>2, <4>1, <4>2 DEF Shown
      <3>3. QED
        BY <3>1, <3>2
    <2>2. QED
      BY <1>1, <2>1 DEF SightInv, ShownInv
  <1>10. AimInv'
    <2>1. ASSUME Applying, NEW i \in Ids, st'[i] # "none"
          PROVE  InMode(i)'
      <3>1. InMode(i)
        BY <1>1, <2>1 DEF SightInv, AimInv
      <3>2. QED
        BY <1>1, <1>2, <3>1 DEF InMode
    <2>2. QED
      BY <1>1, <2>1 DEF SightInv, AimInv, Applying
  <1>11. RecheckInv'
    <2>1. "blue" \in Sides
      BY DEF Sides
    <2>2. ASSUME pc = "recheck", NEW i \in Ids
          PROVE  /\ Kept(i) => Kept(i)'
                 /\ (\/ Present("blue", i) /\ val["blue"][i] = copy[i].val
                     \/ LateOn("blue", i)
                     \/ Deleted(i))
                    => (\/ Present("blue", i)' /\ val'["blue"][i] = copy'[i].val
                        \/ LateOn("blue", i)'
                        \/ Deleted(i)')
      <3>1. CASE i = id
        BY <1>1, <1>4, <1>6, <1>7, <1>8, <2>1, <2>2, <3>1 DEF Kept
      <3>2. CASE i # id
        <4>1. \A r \in Sides : mod'[r][i] = mod[r][i] /\ val'[r][i] = val[r][i]
          BY <1>4, <3>2
        <4>2. syncDeletes'[i] = syncDeletes[i]
          BY <1>5, <3>2
        <4>3. QED
          BY <1>1, <1>2, <2>1, <4>1, <4>2, SameRowSight
      <3>3. QED
        BY <3>1, <3>2
    <2>3. QED
      BY <1>1, <2>2 DEF SightInv, RecheckInv
  <1>12. QED
    BY <1>3, <1>9, <1>10, <1>11 DEF SightInv

LEMMA NextSight == TypeOK /\ SightInv /\ [Next]_vars => SightInv'
  <1>1. SUFFICES ASSUME TypeOK, SightInv, [Next]_vars PROVE SightInv'
    OBVIOUS
  <1>2. CASE Tick
    BY <1>1, <1>2, QuietStepSight
  <1>3. CASE User
    BY <1>1, <1>3, UserSight DEF User
  <1>4. CASE BeginFile
    BY <1>1, <1>4, OpenSight
  <1>5. CASE PassStep
    <2>1. ASSUME NEW id \in Ids, Worker(id) PROVE SightInv'
      BY <1>1, <2>1, WorkerSight
    <2>2. ASSUME NEW id \in Ids, Verifier(id) PROVE SightInv'
      BY <1>1, <2>2, RecheckSight, EndPassSight DEF Verifier, RecheckFails
    <2>3. ASSUME NEW s \in Sides, NEW id \in Ids, ScanRow(s, id) PROVE SightInv'
      BY <1>1, <2>3, ScanRowSight
    <2>4. CASE PlanDryRun \/ PlanEmpty \/ EndDrain \/ Save
      BY <2>4, EndPassSight DEF PlanDryRun, PlanEmpty, EndDrain, Save
    <2>5. QED
      BY <1>1, <1>5, <2>1, <2>2, <2>3, <2>4, OpenSight, PlanApplySight, QuietStepSight,
         VerifyPlanSight DEF PassStep
  <1>6. CASE Fault
    <2>1. CASE Abort \/ Crash
      BY <2>1, EndPassSight DEF Abort, Crash
    <2>2. QED
      BY <1>1, <1>6, <2>1, WorkerSight, QuietStepSight DEF Fault
  <1>7. CASE UNCHANGED vars
    <2>1. UNCHANGED <<clock, mod, val, syncDeletes, safeThrough, pc, opts, fileNow, window,
                      unread, manifest, st, copy, endThrough>>
      BY <1>7 DEF vars, tables, disk, volatile
    <2>2. QED
      BY <1>1, <2>1
      DEF SightInv, TimeInv, StartInv, ShownInv, AimInv, RecheckInv, Checking, Applying,
          Shown, LateOn, Present, Deleted, Asked, InMode, Kept, InSync, Tied,
          OutOfMode, Behind, Src, Dst
  <1>8. QED
    BY <1>1, <1>2, <1>3, <1>4, <1>5, <1>6, <1>7 DEF Next

\* What the manifests of a pass are worth, at every moment, in every deployment.
THEOREM SightInvariant == Spec => []SightInv
  <1>1. Init => SightInv
    BY DEF Init, SightInv, TimeInv, StartInv, ShownInv, AimInv, RecheckInv, Checking,
           Applying, EmptyManifest
  <1>2. QED
    BY <1>1, NextSight, TypeCorrect, PTL DEF Spec
-----------------------------------------------------------------------------
(* What the program writes.                                                    *)

\* Only a PATCH or a POST of an operation in flight writes a row, on its target.
LEMMA OnlyLandingsWrite ==
    ASSUME TypeOK, SightInv, [Next]_vars, NEW s \in Sides, NEW id \in Ids, SyncWrites(s, id)
    PROVE  /\ Applying /\ st[id] \in {"got", "resent", "post"} /\ s = Dst(id)
           /\ val'[s][id] = copy[id].val
  <1>1. ASSUME edits' = edits + 1 PROVE FALSE
    BY <1>1 DEF SyncWrites, TypeOK
  <1>2. ~UNCHANGED <<mod, val>>
    BY DEF SyncWrites
  <1>3. PICK i \in Ids : PatchDest(i) \/ PostDest(i) \/ LoseReply(i)
    <2>1. ~User
      BY <1>1 DEF User, Edit, Create, Delete
    <2>2. ~(Tick \/ BeginFile \/ UNCHANGED vars)
      BY <1>2 DEF Tick, BeginFile, UserState, tables, vars
    <2>3. CASE PassStep
      BY <1>2, <2>3
      DEF PassStep, UserState, tables, OpenWindow, ScanRow, PlanDryRun, PlanEmpty, PlanApply,
          Worker, GetSource, SourceGone, PatchMissing, EndDrain, StopSending, ApplyDone,
          VerifyPlan, Verifier, RecheckBlue, RecheckGreen, RecheckFails, Save
    <2>4. CASE Fault
      BY <1>2, <2>4 DEF Fault, UserState, tables, Defer, Fatal, Abort, Crash, Disconnect
    <2>5. QED
      BY <2>1, <2>2, <2>3, <2>4 DEF Next
  <1>4. /\ Applying /\ st[i] \in {"got", "resent", "post"}
        /\ PatchLands(i) \/ PostLands(i)
        /\ UNCHANGED <<pc, fileNow, endThrough>>
    BY <1>3 DEF PatchDest, PostDest, LoseReply, WorkerStep, Running, Applying
  <1>5. PICK d \in Sides : d = Dst(i)
    BY SidesType
  <1>6. /\ \A r \in Sides, j \in Ids :
              (mod'[r][j] = mod[r][j] /\ val'[r][j] = val[r][j]) \/ (r = d /\ j = i)
        /\ val'[d][i] = copy[i].val
    BY <1>4, <1>5, LandsOnTarget
  <1>7. s = d /\ id = i
    BY <1>6 DEF SyncWrites
  <1>8. QED
    BY <1>4, <1>5, <1>6, <1>7

\* Whatever fails, and however the passes of different modes follow one another,
\* a dry run writes no row and a one-way run only the side it names.
THEOREM WritesStayInMode == Spec => WritesOnlyWhereAsked
  <1>1. ASSUME TypeOK, SightInv, [Next]_vars, NEW s \in Sides, NEW id \in Ids,
               SyncWrites(s, id)
        PROVE  /\ opts.apply
               /\ opts.oneWay = "to-blue" => s = "blue"
               /\ opts.oneWay = "to-green" => s = "green"
    <2>1. Applying /\ st[id] # "none" /\ s = Dst(id)
      BY <1>1, OnlyLandingsWrite
    <2>2. QED
      BY <1>1, <2>1 DEF SightInv, AimInv, InMode
  <1>2. TypeOK /\ SightInv /\ [Next]_vars =>
           [\A s \in Sides, id \in Ids : SyncWrites(s, id) =>
               /\ opts.apply
               /\ opts.oneWay = "to-blue" => s = "blue"
               /\ opts.oneWay = "to-green" => s = "green"]_vars
    BY <1>1
  <1>3. QED
    BY <1>2, TypeCorrect, SightInvariant, PTL DEF Spec, WritesOnlyWhereAsked

-----------------------------------------------------------------------------
(* EditInv, one lemma per kind of step.                                        *)

LEMMA StampIsPast ==
    ASSUME TypeOK, NoClockAhead, NEW s \in Sides
    PROVE  Stamp(s) \in Int /\ Stamp(s) <= clock /\ clock \in Int
  BY TimesAssumption DEF TypeOK, Stamp, NoClockAhead

LEMMA EndPassEdit ==
    ASSUME TypeOK, EditInv, EndPass, UNCHANGED <<clock, edits, mod>>
    PROVE  EditInv'
  <1>1. /\ pc' = "idle" /\ began' = 0 /\ \A id \in Ids : copy'[id].mod = NoTime
    BY DEF EndPass, NoCopy
  <1>2. began' <= edits'
    BY <1>1 DEF TypeOK
  <1>3. NoClockAhead => PastInv'
    BY <1>1 DEF EditInv, PastInv, Present
  <1>4. EdgeInv' /\ VisibleInv' /\ OverwriteInv'
    BY <1>1 DEF EdgeInv, VisibleInv, OverwriteInv, Applying
  <1>5. QED
    BY <1>2, <1>3, <1>4 DEF EditInv, NoClockAhead

LEMMA OpenEdit ==
    ASSUME TypeOK, SightInv, EditInv, BeginFile \/ OpenWindow
    PROVE  EditInv'
  <1>1. UNCHANGED <<clock, edits, mod, val, unread, copy>>
    BY DEF BeginFile, OpenWindow, UserState, tables
  <1>2. NoClockAhead => PastInv'
    BY <1>1 DEF EditInv, PastInv, Present
  <1>3. CASE BeginFile
    <2>1. pc' = "load" /\ fileNow' = clock /\ began' = edits
      BY <1>3 DEF BeginFile
    <2>2. NoClockAhead => EdgeInv'
      <3>1. SUFFICES ASSUME NoClockAhead, NEW s \in Sides, NEW id \in Ids,
                            Present(s, id)', mod'[s][id] > fileNow'
                     PROVE  FALSE
        BY DEF EdgeInv
      <3>2. mod[s][id] \in Int /\ mod[s][id] <= clock /\ mod[s][id] > clock /\ clock \in Int
        BY <1>1, <2>1, <3>1 DEF EditInv, PastInv, Present, TypeOK, Stamps
      <3>3. QED
        BY <3>2
    <2>3. VisibleInv' /\ OverwriteInv' /\ began' <= edits'
      BY <1>1, <2>1 DEF VisibleInv, OverwriteInv, Applying, TypeOK
    <2>4. QED
      BY <1>2, <2>2, <2>3 DEF EditInv, NoClockAhead
  <1>4. CASE OpenWindow
    <2>1. pc = "load" /\ pc' = "fetch" /\ UNCHANGED <<fileNow, began>> /\ unread = AllUnread
      BY <1>4 DEF OpenWindow, SightInv, ShownInv
    <2>2. NoClockAhead => EdgeInv'
      BY <1>1, <2>1 DEF EditInv, EdgeInv, EditedSince, Present
    <2>3. VisibleInv' /\ OverwriteInv' /\ began' <= edits'
      BY <1>1, <2>1 DEF VisibleInv, OverwriteInv, Applying, AllUnread, EditInv
    <2>4. QED
      BY <1>2, <2>2, <2>3 DEF EditInv, NoClockAhead
  <1>5. QED
    BY <1>3, <1>4

LEMMA ScanRowEdit ==
    ASSUME TypeOK, EditInv, NEW s \in Sides, NEW id \in Ids, ScanRow(s, id)
    PROVE  EditInv'
  <1>1. UNCHANGED <<clock, edits, mod, val, pc, fileNow, began, window, st, copy>>
        /\ pc \in {"fetch", "verify"}
    BY DEF ScanRow, UserState, tables
  <1>2. ASSUME NoClockAhead, pc = "fetch", NEW r \in Sides, NEW i \in Ids, i \notin unread'[r]
        PROVE  Visible(r, i)'
    <2>1. CASE r = s /\ i = id
      <3>1. FetchWindow = window
        BY <1>2 DEF FetchWindow, TypeOK
      <3>2. manifest'[s][id] = IF InWindow(mod[s][id], window) THEN mod[s][id] ELSE NoTime
        BY <3>1 DEF ScanRow, TypeOK
      <3>3. QED
        BY <1>1, <2>1, <3>2 DEF Visible
    <2>2. CASE ~(r = s /\ i = id)
      <3>1. manifest'[r][i] = manifest[r][i] /\ i \notin unread[r]
        BY <1>2, <2>2 DEF ScanRow, TypeOK
      <3>2. Visible(r, i)
        BY <1>2, <3>1 DEF EditInv, VisibleInv
      <3>3. QED
        BY <1>1, <3>1, <3>2 DEF Visible, EditedSince, Present
    <2>3. QED
      BY <2>1, <2>2
  <1>3. NoClockAhead => VisibleInv'
    BY <1>1, <1>2 DEF VisibleInv
  <1>4. NoClockAhead => PastInv' /\ EdgeInv'
    BY <1>1 DEF EditInv, PastInv, EdgeInv, EditedSince, Present
  <1>5. OverwriteInv' /\ began' <= edits'
    BY <1>1 DEF EditInv, OverwriteInv, Applying
  <1>6. QED
    BY <1>3, <1>4, <1>5 DEF EditInv, NoClockAhead

\* The operations of a plan go from the newer row of the manifests to the older
\* one; what the manifests do not show is older than the window, or was written
\* after the pass began.
LEMMA PlanApplyEdit ==
    ASSUME TypeOK, SightInv, EditInv, PlanApply
    PROVE  EditInv'
  <1>1. /\ UNCHANGED <<clock, edits, mod, val, fileNow, began, window, manifest, copy>>
        /\ pc = "fetch" /\ pc' = "apply" /\ Scanned
        /\ st' = [id \in Ids |-> IF id \in Planned THEN "todo" ELSE "none"]
    BY DEF PlanApply, UserState, tables
  <1>2. ASSUME NoClockAhead, NEW id \in Ids, id \in Planned
        PROVE  MayOverwrite(id)'
    <2>1. PICK s \in Sides, d \in Sides : s = Src(id) /\ d = Dst(id)
      BY SidesType
    <2>2. Src(id)' = s /\ Dst(id)' = d
      BY <1>1, <2>1 DEF Src, Dst
    <2>3. Newer(manifest[s][id], manifest[d][id])
      BY <1>2, <2>1, PlannedGoesForward
    <2>4. /\ manifest[s][id] \in Int /\ window.start <= manifest[s][id]
          /\ mod[d][id] \in Int \cup {NoTime} /\ window.start \in Int /\ fileNow \in Int
          /\ window.end = fileNow
      BY <1>1, <2>3 DEF TypeOK, Stamps, Newer, SightInv, ShownInv, StartInv
    <2>5. Visible(d, id)
      BY <1>1, <1>2 DEF EditInv, VisibleInv, Scanned
    <2>6. \/ ~Present(d, id) \/ EditedSince(d, id) \/ mod[d][id] < manifest[s][id]
      <3>1. SUFFICES ASSUME Present(d, id), ~EditedSince(d, id)
                     PROVE  mod[d][id] < manifest[s][id]
        OBVIOUS
      <3>2. mod[d][id] \in Int /\ ~(mod[d][id] > fileNow)
        BY <1>1, <1>2, <2>4, <3>1 DEF EditInv, EdgeInv, Present
      <3>3. CASE window.start <= mod[d][id]
        <4>1. InWindow(mod[d][id], window)
          BY <2>4, <3>1, <3>2, <3>3 DEF InWindow, Present
        <4>2. manifest[d][id] = mod[d][id] /\ manifest[d][id] # NoTime
          BY <2>5, <3>1, <4>1 DEF Visible, Present
        <4>3. QED
          BY <2>3, <2>4, <3>2, <4>2 DEF Newer, CompareModification
      <3>4. CASE ~(window.start <= mod[d][id])
        BY <2>4, <3>2, <3>4
      <3>5. QED
        BY <3>3, <3>4
    <2>7. QED
      BY <1>1, <2>2, <2>6 DEF MayOverwrite, EditedSince, Present
  <1>3. NoClockAhead => OverwriteInv'
    BY <1>1, <1>2 DEF OverwriteInv, In
  <1>4. NoClockAhead => PastInv'
    BY <1>1 DEF EditInv, PastInv, Present
  <1>5. EdgeInv' /\ VisibleInv' /\ began' <= edits'
    BY <1>1 DEF EditInv, EdgeInv, VisibleInv
  <1>6. QED
    BY <1>3, <1>4, <1>5 DEF EditInv, NoClockAhead

\* A step that moves the operation on id to another state, given what the step
\* did to row id and to the copy of it.
LEMMA MoveEdit ==
    ASSUME TypeOK, EditInv, Applying, NEW id \in Ids, NEW state,
           WorkerStep(id, state), UNCHANGED pc,
           \A r \in Sides, i \in Ids \ {id} :
               mod'[r][i] = mod[r][i] /\ val'[r][i] = val[r][i],
           \A i \in Ids \ {id} : copy'[i] = copy[i],
           NoClockAhead => \A r \in Sides : Present(r, id)' => mod'[r][id] <= clock,
           NoClockAhead => (copy'[id].mod # NoTime => copy'[id].mod <= clock),
           NoClockAhead => (state \in {"todo", "got", "resent", "post"} => MayOverwrite(id)')
    PROVE  EditInv'
  <1>1. /\ UNCHANGED <<clock, edits, pc, fileNow, began, window, manifest>>
        /\ pc \in {"apply", "drain"}
    BY DEF WorkerStep, Applying
  <1>2. st'[id] = state /\ \A i \in Ids \ {id} : st'[i] = st[i]
    BY DEF WorkerStep, TypeOK
  <1>3. NoClockAhead => PastInv'
    <2>1. SUFFICES ASSUME NoClockAhead PROVE PastInv'
      OBVIOUS
    <2>2. ASSUME NEW i \in Ids
          PROVE  /\ \A r \in Sides : Present(r, i)' => mod'[r][i] <= clock
                 /\ copy'[i].mod # NoTime => copy'[i].mod <= clock
      <3>1. CASE i = id
        BY <2>1, <3>1
      <3>2. CASE i # id
        BY <2>1, <3>2 DEF EditInv, PastInv, Present
      <3>3. QED
        BY <3>1, <3>2
    <2>3. QED
      BY <1>1, <2>2 DEF PastInv
  <1>4. ASSUME NoClockAhead, NEW i \in Ids, st'[i] \in {"todo", "got", "resent", "post"}
        PROVE  MayOverwrite(i)'
    <2>1. CASE i = id
      BY <1>2, <1>4, <2>1
    <2>2. CASE i # id
      <3>1. PICK s \in Sides, d \in Sides : s = Src(i) /\ d = Dst(i)
        BY SidesType
      <3>2. Src(i)' = s /\ Dst(i)' = d /\ mod'[d][i] = mod[d][i] /\ val'[d][i] = val[d][i]
            /\ copy'[i] = copy[i] /\ st'[i] = st[i]
        BY <1>1, <1>2, <2>2, <3>1 DEF Src, Dst
      <3>3. MayOverwrite(i)
        BY <1>1, <1>4, <3>2 DEF EditInv, OverwriteInv, In, Applying
      <3>4. QED
        BY <1>1, <3>1, <3>2, <3>3 DEF MayOverwrite, EditedSince, Present
    <2>3. QED
      BY <2>1, <2>2
  <1>5. NoClockAhead => OverwriteInv'
    BY <1>4 DEF OverwriteInv, In
  <1>6. EdgeInv' /\ VisibleInv' /\ began' <= edits'
    BY <1>1 DEF EditInv, EdgeInv, VisibleInv
  <1>7. QED
    BY <1>3, <1>5, <1>6 DEF EditInv, NoClockAhead

LEMMA WorkerEdit ==
    ASSUME TypeOK, SightInv, EditInv, NEW id \in Ids,
           Worker(id) \/ LoseReply(id) \/ Defer(id)
    PROVE  EditInv'
  <1>1. PICK s \in Sides, d \in Sides : s = Src(id) /\ d = Dst(id)
    BY SidesType
  <1>2. \A i \in Ids \ {id} : copy'[i] = copy[i]
    BY DEF Worker, GetSource, SourceGone, PatchDest, PatchMissing, PostDest, LoseReply, Defer,
           TypeOK
  <1>3. ASSUME NoClockAhead
        PROVE  /\ \A r \in Sides : Present(r, id) => mod[r][id] <= clock
               /\ copy[id].mod # NoTime => copy[id].mod <= clock
               /\ pc \in {"apply", "drain"} /\ st[id] \in {"todo", "got", "resent", "post"}
                     => MayOverwrite(id)
    BY <1>3 DEF EditInv, PastInv, OverwriteInv, In, Applying
  <1>4. ASSUME UNCHANGED <<mod, val>>
        PROVE  /\ \A r \in Sides, i \in Ids \ {id} :
                     mod'[r][i] = mod[r][i] /\ val'[r][i] = val[r][i]
               /\ NoClockAhead => \A r \in Sides : Present(r, id)' => mod'[r][id] <= clock
    BY <1>3, <1>4 DEF Present
  <1>5. ASSUME PatchLands(id) \/ PostLands(id), Applying, UNCHANGED <<pc, fileNow, endThrough>>
        PROVE  /\ \A r \in Sides, i \in Ids \ {id} :
                     mod'[r][i] = mod[r][i] /\ val'[r][i] = val[r][i]
               /\ NoClockAhead => \A r \in Sides : Present(r, id)' => mod'[r][id] <= clock
               /\ val'[d][id] = copy[id].val
    <2>1. /\ \A r \in Sides, i \in Ids :
                (mod'[r][i] = mod[r][i] /\ val'[r][i] = val[r][i]) \/ (r = d /\ i = id)
          /\ val'[d][id] = copy[id].val
          /\ mod'[d][id] \in {Stamp(d), copy[id].mod}
      BY <1>1, <1>5, LandsOnTarget
    <2>2. ASSUME NoClockAhead, NEW r \in Sides, Present(r, id)'
          PROVE  mod'[r][id] <= clock
      <3>1. CASE r = d
        BY <1>3, <2>1, <2>2, <3>1, StampIsPast DEF Present
      <3>2. CASE r # d
        BY <1>3, <2>1, <2>2, <3>2 DEF Present
      <3>3. QED
        BY <3>1, <3>2
    <2>3. QED
      BY <2>1, <2>2
  <1>6. ASSUME UNCHANGED <<mod, val, began, manifest>>, pc \in {"apply", "drain"},
               st[id] = "todo" \/ (st[id] \in {"got", "resent"} /\ ~Present(Dst(id), id))
        PROVE  NoClockAhead => MayOverwrite(id)'
    <2>1. SUFFICES ASSUME NoClockAhead PROVE MayOverwrite(id)'
      OBVIOUS
    <2>2. \/ ~Present(d, id) \/ EditedSince(d, id) \/ mod[d][id] < manifest[s][id]
      BY <1>1, <1>3, <1>6, <2>1 DEF MayOverwrite
    <2>3. Src(id)' = s /\ Dst(id)' = d
      BY <1>1, <1>6 DEF Src, Dst
    <2>4. QED
      BY <1>6, <2>2, <2>3 DEF MayOverwrite, EditedSince, Present
  <1>7. CASE GetSource(id)
    <2>1. /\ WorkerStep(id, "got") /\ UNCHANGED <<mod, val, pc, began, manifest>> /\ Applying
          /\ st[id] = "todo" /\ Present(s, id) /\ pc = "apply"
          /\ copy'[id].mod = mod[s][id]
      BY <1>1, <1>7 DEF GetSource, WorkerStep, Running, Applying, TypeOK
    <2>2. NoClockAhead => (copy'[id].mod # NoTime => copy'[id].mod <= clock)
      BY <1>3, <2>1
    <2>3. NoClockAhead => MayOverwrite(id)'
      BY <1>6, <2>1
    <2>4. QED
      BY <1>2, <1>4, <2>1, <2>2, <2>3, MoveEdit
  <1>8. CASE SourceGone(id)
    <2>1. /\ WorkerStep(id, "skipped") /\ UNCHANGED <<mod, val, pc, copy>> /\ Applying
      BY <1>8 DEF SourceGone, Running, Applying
    <2>2. QED
      BY <1>2, <1>3, <1>4, <2>1, MoveEdit
  <1>9. CASE PatchMissing(id)
    <2>1. /\ WorkerStep(id, "post") /\ UNCHANGED <<mod, val, pc, copy, began, manifest>> /\ Applying
          /\ st[id] \in {"got", "resent"} /\ ~Present(Dst(id), id) /\ pc = "apply"
      BY <1>9 DEF PatchMissing, WorkerStep, Running, Applying
    <2>2. NoClockAhead => MayOverwrite(id)'
      BY <1>6, <2>1
    <2>3. QED
      BY <1>2, <1>3, <1>4, <2>1, <2>2, MoveEdit
  <1>10. CASE Defer(id)
    <2>1. /\ WorkerStep(id, "deferred") /\ UNCHANGED <<mod, val, pc>> /\ Applying
          /\ copy'[id].mod = NoTime
      BY <1>10 DEF Defer, Running, Applying, NoCopy, TypeOK
    <2>2. QED
      BY <1>2, <1>4, <2>1, MoveEdit
  <1>11. CASE PatchDest(id) \/ PostDest(id)
    <2>1. /\ WorkerStep(id, "done") /\ UNCHANGED <<pc, fileNow, endThrough>> /\ Applying
          /\ (PatchLands(id) \/ PostLands(id))
          /\ copy'[id].mod = NoTime
      BY <1>11 DEF PatchDest, PostDest, WorkerStep, Running, Applying, NoCopy, TypeOK
    <2>2. QED
      BY <1>2, <1>5, <2>1, MoveEdit
  <1>12. CASE LoseReply(id)
    <2>1. /\ WorkerStep(id, "resent") /\ UNCHANGED <<pc, fileNow, endThrough, copy, manifest>>
          /\ Applying /\ (PatchLands(id) \/ PostLands(id))
      BY <1>12 DEF LoseReply, WorkerStep, Applying
    <2>2. st'[id] = "resent" /\ Dst(id)' = d
      BY <1>1, <2>1 DEF WorkerStep, TypeOK, Dst, Src
    <2>3. MayOverwrite(id)'
      BY <1>5, <2>1, <2>2 DEF MayOverwrite
    <2>4. QED
      BY <1>2, <1>3, <1>5, <2>1, <2>3, MoveEdit
  <1>13. QED
    BY <1>7, <1>8, <1>9, <1>10, <1>11, <1>12 DEF Worker

\* Steps that only move the pass on, or the clock.
LEMMA QuietStepEdit ==
    ASSUME TypeOK, SightInv, EditInv,
           \/ Tick \/ StopSending \/ Disconnect \/ ApplyDone \/ VerifyPlan
           \/ \E id \in Ids : Fatal(id)
           \/ UNCHANGED vars
    PROVE  EditInv'
  <1>1. /\ UNCHANGED <<edits, mod, val, fileNow, began, window, copy>>
        /\ clock' \in {clock, clock + 1}
        /\ pc' \in {"load", "fetch"} => pc' = pc
    <2>1. CASE Tick \/ StopSending \/ Disconnect
      BY <2>1 DEF Tick, StopSending, Disconnect, UserState, tables, volatile
    <2>2. CASE ApplyDone \/ VerifyPlan
      BY <2>2 DEF ApplyDone, VerifyPlan, UserState, tables
    <2>3. CASE (\E id \in Ids : Fatal(id)) \/ UNCHANGED vars
      BY <2>3 DEF Fatal, UserState, tables, volatile, vars
    <2>4. QED
      BY <2>1, <2>2, <2>3
  <1>2. NoClockAhead => PastInv'
    <2>1. SUFFICES ASSUME NoClockAhead PROVE PastInv'
      OBVIOUS
    <2>2. \A t \in Stamps : t # NoTime /\ t <= clock => t <= clock'
      BY <1>1 DEF TypeOK, Stamps
    <2>3. \A s \in Sides, id \in Ids : mod[s][id] \in Stamps /\ copy[id].mod \in Stamps
      BY DEF TypeOK, RowCopy
    <2>4. PastInv
      BY <2>1 DEF EditInv
    <2>5. ASSUME NEW s \in Sides, NEW id \in Ids, Present(s, id)'
          PROVE  mod'[s][id] <= clock'
      BY <1>1, <2>2, <2>3, <2>4, <2>5 DEF PastInv, Present
    <2>6. ASSUME NEW id \in Ids, copy'[id].mod # NoTime
          PROVE  copy'[id].mod <= clock'
      BY <1>1, <2>2, <2>3, <2>4, <2>6, SidesType DEF PastInv
    <2>7. QED
      BY <2>5, <2>6 DEF PastInv
  <1>3. NoClockAhead => EdgeInv'
    BY <1>1 DEF EditInv, EdgeInv, EditedSince, Present
  <1>4. NoClockAhead => VisibleInv'
    <2>1. pc' = "fetch" => UNCHANGED <<manifest, unread>>
      BY DEF Tick, StopSending, Disconnect, ApplyDone, VerifyPlan, Fatal, UserState, volatile, vars
    <2>2. QED
      BY <1>1, <2>1 DEF EditInv, VisibleInv, Visible, EditedSince, Present
  <1>5. NoClockAhead => OverwriteInv'
    <2>1. SUFFICES ASSUME NoClockAhead, Applying', NEW id \in Ids,
                          st'[id] \in {"todo", "got", "resent", "post"}
                   PROVE  MayOverwrite(id)'
      BY DEF OverwriteInv, In
    <2>2. Applying /\ UNCHANGED manifest /\ st'[id] = st[id]
      BY <2>1 DEF Tick, StopSending, Disconnect, ApplyDone, VerifyPlan, Fatal, UserState, volatile,
                  vars, Applying
    <2>3. MayOverwrite(id)
      BY <2>1, <2>2 DEF EditInv, OverwriteInv, In
    <2>4. PICK s \in Sides, d \in Sides : s = Src(id) /\ d = Dst(id)
      BY SidesType
    <2>5. Src(id)' = s /\ Dst(id)' = d
      BY <2>2, <2>4 DEF Src, Dst
    <2>6. QED
      BY <1>1, <2>2, <2>3, <2>4, <2>5 DEF MayOverwrite, EditedSince, Present
  <1>6. QED
    BY <1>1, <1>2, <1>3, <1>4, <1>5 DEF EditInv, NoClockAhead

\* The verifier reads the rows and leaves them alone.
LEMMA RecheckEdit ==
    ASSUME TypeOK, EditInv, NEW id \in Ids, RecheckBlue(id) \/ RecheckGreen(id)
    PROVE  EditInv'
  <1>1. /\ UNCHANGED <<clock, edits, mod, val, pc, began>> /\ pc = "recheck"
        /\ \A i \in Ids \ {id} : copy'[i] = copy[i]
        /\ copy'[id].mod \in {mod["blue"][id], NoTime}
    BY DEF RecheckBlue, RecheckGreen, WorkerStep, TypeOK, NoCopy
  <1>2. NoClockAhead => PastInv'
    BY <1>1 DEF EditInv, PastInv, Present, Sides
  <1>3. EdgeInv' /\ VisibleInv' /\ OverwriteInv' /\ began' <= edits'
    BY <1>1 DEF EditInv, EdgeInv, VisibleInv, OverwriteInv, Applying
  <1>4. QED
    BY <1>2, <1>3 DEF EditInv, NoClockAhead

\* What a user writes while a pass is under way was written since it began.
LEMMA UserEdit ==
    ASSUME TypeOK, EditInv, NEW s \in Sides, NEW id \in Ids,
           Edit(s, id) \/ Create(s, id) \/ Delete(s, id)
    PROVE  EditInv'
  <1>1. /\ UNCHANGED <<clock, pc, fileNow, began, window, unread, manifest, st, copy>>
        /\ edits' = edits + 1
    BY DEF Edit, Create, Delete, volatile
  <1>2. \A r \in Sides, i \in Ids :
           (mod'[r][i] = mod[r][i] /\ val'[r][i] = val[r][i]) \/ (r = s /\ i = id)
    BY DEF Edit, Create, Delete, Write, TypeOK
  <1>3. \/ mod'[s][id] = Stamp(s) /\ val'[s][id] = edits + 1
        \/ mod'[s][id] = NoTime
    BY DEF Edit, Create, Delete, Write, TypeOK
  <1>4. began' <= edits' /\ edits + 1 > began
    BY <1>1 DEF EditInv, TypeOK
  <1>5. ~Present(s, id)' \/ EditedSince(s, id)'
    BY <1>1, <1>3, <1>4 DEF Present, EditedSince
  <1>6. NoClockAhead => PastInv'
    <2>1. SUFFICES ASSUME NoClockAhead PROVE PastInv'
      OBVIOUS
    <2>2. ASSUME NEW r \in Sides, NEW i \in Ids, Present(r, i)'
          PROVE  mod'[r][i] <= clock
      <3>1. CASE r = s /\ i = id
        BY <1>3, <2>1, <2>2, <3>1, StampIsPast DEF Present
      <3>2. CASE ~(r = s /\ i = id)
        BY <1>2, <2>1, <2>2, <3>2 DEF EditInv, PastInv, Present
      <3>3. QED
        BY <3>1, <3>2
    <2>3. QED
      BY <1>1, <2>1, <2>2 DEF EditInv, PastInv
  <1>7. \A r \in Sides, i \in Ids : r # s \/ i # id =>
           Present(r, i)' = Present(r, i) /\ EditedSince(r, i)' = EditedSince(r, i)
    BY <1>1, <1>2 DEF Present, EditedSince
  <1>8. NoClockAhead => EdgeInv'
    <2>1. SUFFICES ASSUME NoClockAhead, pc \in {"load", "fetch"}, NEW r \in Sides, NEW i \in Ids,
                          Present(r, i)', mod'[r][i] > fileNow
                   PROVE  EditedSince(r, i)'
      BY <1>1 DEF EdgeInv
    <2>2. CASE r = s /\ i = id
      BY <1>5, <2>1, <2>2
    <2>3. CASE ~(r = s /\ i = id)
      BY <1>2, <1>7, <2>1, <2>3 DEF EditInv, EdgeInv
    <2>4. QED
      BY <2>2, <2>3
  <1>9. NoClockAhead => VisibleInv'
    <2>1. SUFFICES ASSUME NoClockAhead, pc = "fetch", NEW r \in Sides, NEW i \in Ids,
                          i \notin unread[r]
                   PROVE  Visible(r, i)'
      BY <1>1 DEF VisibleInv
    <2>2. CASE r = s /\ i = id
      BY <1>5, <2>2 DEF Visible
    <2>3. CASE ~(r = s /\ i = id)
      <3>1. Visible(r, i)
        BY <2>1 DEF EditInv, VisibleInv
      <3>2. mod'[r][i] = mod[r][i]
        BY <1>2, <2>3
      <3>3. QED
        BY <1>1, <1>7, <2>3, <3>1, <3>2 DEF Visible
    <2>4. QED
      BY <2>2, <2>3
  <1>10. NoClockAhead => OverwriteInv'
    <2>1. SUFFICES ASSUME NoClockAhead, Applying, NEW i \in Ids,
                          st[i] \in {"todo", "got", "resent", "post"}
                   PROVE  MayOverwrite(i)'
      BY <1>1 DEF OverwriteInv, In, Applying
    <2>2. PICK d \in Sides : d = Dst(i) /\ Dst(i)' = d /\ Src(i)' = Src(i)
      BY <1>1, SidesType DEF Src, Dst
    <2>3. CASE d = s /\ i = id
      BY <1>5, <2>2, <2>3 DEF MayOverwrite
    <2>4. CASE ~(d = s /\ i = id)
      <3>1. MayOverwrite(i)
        BY <2>1 DEF EditInv, OverwriteInv, In
      <3>2. mod'[d][i] = mod[d][i] /\ val'[d][i] = val[d][i]
        BY <1>2, <2>4
      <3>3. QED
        BY <1>1, <1>7, <2>2, <2>4, <3>1, <3>2 DEF MayOverwrite
    <2>5. QED
      BY <2>3, <2>4
  <1>11. QED
    BY <1>4, <1>6, <1>8, <1>9, <1>10 DEF EditInv, NoClockAhead

LEMMA NextEdit == TypeOK /\ SightInv /\ EditInv /\ [Next]_vars => EditInv'
  <1>1. SUFFICES ASSUME TypeOK, SightInv, EditInv, [Next]_vars PROVE EditInv'
    OBVIOUS
  <1>2. CASE Tick \/ UNCHANGED vars
    BY <1>1, <1>2, QuietStepEdit
  <1>3. CASE User
    BY <1>1, <1>3, UserEdit DEF User
  <1>4. CASE BeginFile
    BY <1>1, <1>4, OpenEdit
  <1>5. ASSUME EndPass, UNCHANGED UserState PROVE EditInv'
    BY <1>1, <1>5, EndPassEdit DEF UserState, tables
  <1>6. CASE PassStep
    <2>1. ASSUME NEW id \in Ids, Worker(id) PROVE EditInv'
      BY <1>1, <2>1, WorkerEdit
    <2>2. ASSUME NEW id \in Ids, Verifier(id) PROVE EditInv'
      BY <1>1, <1>5, <2>2, RecheckEdit DEF Verifier, RecheckFails
    <2>3. ASSUME NEW s \in Sides, NEW id \in Ids, ScanRow(s, id) PROVE EditInv'
      BY <1>1, <2>3, ScanRowEdit
    <2>4. CASE PlanDryRun \/ PlanEmpty \/ EndDrain \/ Save
      BY <1>5, <2>4 DEF PlanDryRun, PlanEmpty, EndDrain, Save
    <2>5. QED
      BY <1>1, <1>6, <2>1, <2>2, <2>3, <2>4, OpenEdit, PlanApplyEdit, QuietStepEdit DEF PassStep
  <1>7. CASE Fault
    <2>1. CASE Abort \/ Crash
      BY <1>5, <2>1 DEF Abort, Crash
    <2>2. QED
      BY <1>1, <1>7, <2>1, WorkerEdit, QuietStepEdit DEF Fault
  <1>8. QED
    BY <1>1, <1>2, <1>3, <1>4, <1>6, <1>7 DEF Next

\* What a pass knows of the rows users wrote before it began.
THEOREM EditInvariant == Spec => []EditInv
  <1>1. Init => EditInv
    <2>1. SUFFICES ASSUME Init PROVE EditInv
      OBVIOUS
    <2>2. /\ clock = 1 /\ edits = 0 /\ began = 0 /\ pc = "idle"
          /\ \A id \in Ids : copy[id].mod = NoTime
          /\ \A s \in Sides, id \in Ids : mod[s][id] \in {0, NoTime}
      BY <2>1 DEF Init, SeedClock, NoCopy
    <2>3. PastInv
      BY <2>2 DEF PastInv, Present
    <2>4. EdgeInv /\ VisibleInv /\ OverwriteInv
      BY <2>2 DEF EdgeInv, VisibleInv, OverwriteInv, Applying
    <2>5. QED
      BY <2>2, <2>3, <2>4 DEF EditInv
  <1>2. QED
    BY <1>1, NextEdit, TypeCorrect, SightInvariant, PTL DEF Spec
-----------------------------------------------------------------------------
(* What a pass writes over.                                                    *)

\* A row that is newer than the copy it would be replaced with, by the stamps the
\* planner compares, is written over only if users wrote it since the pass began,
\* in every deployment whose clocks are not ahead: no timing, no mode, no lost
\* reply and no fault makes a pass undo an edit that was there when it began.
THEOREM NewerRowsSurvive == Spec => OverwritesOnlyOlder
  <1>1. ASSUME TypeOK, SightInv, EditInv, [Next]_vars, NEW s \in Sides, NEW id \in Ids,
               NoClockAhead, SyncWrites(s, id)
        PROVE  \/ ~Present(s, id) \/ val'[s][id] = val[s][id]
               \/ mod[s][id] < manifest[Other(s)][id]
               \/ val[s][id] > began
    <2>1. /\ Applying /\ st[id] \in {"got", "resent", "post"} /\ s = Dst(id)
          /\ val'[s][id] = copy[id].val
      BY <1>1, OnlyLandingsWrite
    <2>2. Other(s) = Src(id)
      BY <2>1, SidesType DEF Dst
    <2>3. MayOverwrite(id)
      BY <1>1, <2>1 DEF EditInv, OverwriteInv, In
    <2>4. QED
      BY <2>1, <2>2, <2>3 DEF MayOverwrite, EditedSince
  <1>2. TypeOK /\ SightInv /\ EditInv /\ [Next]_vars =>
           [\A s \in Sides, id \in Ids : NoClockAhead /\ SyncWrites(s, id) =>
               \/ ~Present(s, id) \/ val'[s][id] = val[s][id]
               \/ mod[s][id] < manifest[Other(s)][id]
               \/ val[s][id] > began]_vars
    BY <1>1
  <1>3. QED
    BY <1>2, TypeCorrect, SightInvariant, EditInvariant, PTL DEF Spec, OverwritesOnlyOlder
-----------------------------------------------------------------------------
(* Where the checkpoint moves.                                                 *)

\* If nothing is lost on a row when the checkpoint moves to Asked, the move
\* leaves the row no further behind than it was, or leaves it to the other mode.
LEMMA MovingKeepsUp ==
    ASSUME TypeOK, SightInv, OverlapCoversSkew, pc \in {"fetch", "recheck"},
           NEW id \in Ids, Kept(id), safeThrough' = Asked,
           UNCHANGED <<mod, val, syncDeletes>>, Missed(id)'
    PROVE  Missed(id) \/ OutOfMode(id)
  <1>1. /\ Asked \in Int /\ Asked # NoTime /\ MaxLag \in Nat /\ Overlap \in Nat
        /\ Lookback \in Nat /\ fileNow \in Int /\ clock \in Int
        /\ \A s \in Sides : mod[s][id] \in Int \cup {NoTime}
        /\ "blue" \in Sides /\ "green" \in Sides
    BY TimesAssumption DEF TypeOK, Asked, Stamps, Sides
  <1>2. /\ InSync(id)' = InSync(id) /\ Tied(id)' = Tied(id) /\ Deleted(id)' = Deleted(id)
        /\ \A s \in Sides : Present(s, id)' = Present(s, id)
    BY <1>1 DEF InSync, Tied, Deleted, Present
  <1>3. ~InSync(id) /\ ~Tied(id) /\ ~Deleted(id) /\ ~Reached(id)'
    BY <1>2 DEF Missed
  <1>4. ASSUME NEW s \in Sides, LateOn(s, id) PROVE FALSE
    <2>1. Present(s, id) /\ mod[s][id] \in Int /\ mod[s][id] >= Asked - MaxLag
      BY <1>1, <1>4 DEF LateOn, Present
    <2>2. NextStart' = Asked - Overlap
      BY <1>1 DEF NextStart
    <2>3. mod[s][id] >= Asked - Overlap
      BY <1>1, <2>1 DEF OverlapCoversSkew
    <2>4. QED
      BY <1>2, <1>3, <2>1, <2>2, <2>3 DEF Reached
  <1>5. CASE Behind(id)
    <2>1. window.start \in Int /\ NextStart \in Int /\ window.start <= NextStart
      BY <1>1 DEF SightInv, TimeInv, StartInv, NextStart, TypeOK, Stamps
    <2>2. \A s \in Sides : Present(s, id) => ~(mod[s][id] >= NextStart)
      BY <1>1, <1>5, <2>1 DEF Behind, Present
    <2>3. ~Reached(id)
      BY <2>2 DEF Reached
    <2>4. QED
      BY <1>3, <2>3 DEF Missed
  <1>6. QED
    BY <1>3, <1>4, <1>5 DEF Kept

\* A pass that saves its checkpoint after a verification, or because there was
\* nothing to do, leaves no row behind that was not behind before, in every
\* deployment whose overlap covers the skew of the clocks: however long the pass
\* took, whatever mode it ran in, and whatever was lost or failed on the way.
THEOREM VerifiedPassesKeepUp ==
    ASSUME OverlapCoversSkew PROVE Spec => VerifiedPassKeepsUp
  <1>1. ASSUME TypeOK, SightInv, [Next]_vars, safeThrough' # safeThrough,
               pc \in {"fetch", "recheck"}, NEW id \in Ids, Missed(id)'
        PROVE  Missed(id) \/ OutOfMode(id)
    <2>1. PlanEmpty \/ Save
      <3>1. ~(Tick \/ User \/ BeginFile \/ UNCHANGED vars)
        BY <1>1 DEF Tick, User, Edit, Create, Delete, BeginFile, disk, vars
      <3>2. PassStep => PlanEmpty \/ Save
        BY <1>1
        DEF PassStep, disk, OpenWindow, ScanRow, PlanDryRun, PlanApply, Worker, GetSource,
            SourceGone, PatchDest, PatchMissing, PostDest, WorkerStep, EndDrain,
            StopSending, ApplyDone, VerifyPlan, Verifier, RecheckBlue, RecheckGreen,
            RecheckFails
      <3>3. ~Fault
        BY <1>1 DEF Fault, disk, LoseReply, Defer, WorkerStep, Fatal, Abort, Crash, Disconnect
      <3>4. QED
        BY <1>1, <3>1, <3>2, <3>3 DEF Next
    <2>2. UNCHANGED <<mod, val, syncDeletes>>
      BY <2>1 DEF PlanEmpty, Save, UserState, tables
    <2>3. CASE PlanEmpty
      <3>1. /\ pc = "fetch" /\ Scanned /\ Planned = {} /\ safeThrough' = window.end
            /\ window.end = fileNow
        BY <1>1, <2>3 DEF PlanEmpty, SightInv, StartInv
      <3>2. safeThrough' = Asked /\ Kept(id)
        BY <1>1, <3>1, UnplannedIsKept DEF Asked
      <3>3. QED
        BY <1>1, <2>2, <3>2, MovingKeepsUp
    <2>4. CASE Save
      <3>1. pc = "recheck" /\ In({"todo", "got"}) = {} /\ safeThrough' = endThrough
        BY <1>1, <2>4 DEF Save
      <3>2. st[id] \notin {"todo", "got"}
        BY <3>1 DEF In
      <3>3. safeThrough' = Asked /\ Kept(id)
        BY <1>1, <3>1, <3>2 DEF Asked, SightInv, RecheckInv
      <3>4. QED
        BY <1>1, <2>2, <3>3, MovingKeepsUp
    <2>5. QED
      BY <2>1, <2>3, <2>4
  <1>2. TypeOK /\ SightInv /\ [Next]_vars =>
           [safeThrough' # safeThrough /\ pc \in {"fetch", "recheck"} =>
               \A id \in Ids : Missed(id)' => Missed(id) \/ OutOfMode(id)]_vars
    BY <1>1
  <1>3. QED
    BY <1>2, TypeCorrect, SightInvariant, PTL DEF Spec, VerifiedPassKeepsUp
=============================================================================
