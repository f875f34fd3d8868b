-------------------------- MODULE TablePassInv_proofs --------------------------
(***************************************************************************)
(* NoSilentMiss holds in every deployment that satisfies Deployment.       *)
(*                                                                         *)
(* PassInv is proved inductive, one lemma per kind of step: the steps that *)
(* write a row (users, PATCH, POST), the steps that end a pass, with and   *)
(* without saving the checkpoint, and the steps that only move the pass.   *)
(***************************************************************************)
EXTENDS TablePassInv, TablePass_proofs

\* A stamp given now is in reach of the next window, and fresh during a pass.
LEMMA StampIsHigh ==
    ASSUME TypeOK, ClockInv, Deployment, NEW s \in Sides
    PROVE  /\ Stamp(s) \in Int /\ Stamp(s) # NoTime
           /\ Stamp(s) >= Floor
           /\ pc # "idle" => Stamp(s) >= fileNow - MaxLag
  <1>1. Stamp(s) \in Int /\ Stamp(s) >= clock - MaxLag /\ MaxLag \in Nat
    BY TimesAssumption DEF TypeOK, Stamp
  <1>2. Stamp(s) >= Floor
    <2>1. CASE safeThrough = NoTime
      BY <1>1, <2>1 DEF TypeOK, ClockInv, Floor, SeedClock
    <2>2. CASE safeThrough # NoTime
      BY <1>1, <2>2, TimesAssumption DEF TypeOK, Stamps, ClockInv, Floor, Deployment
    <2>3. QED
      BY <2>1, <2>2
  <1>3. pc # "idle" => Stamp(s) >= fileNow - MaxLag
    BY <1>1 DEF TypeOK, ClockInv
  <1>4. QED
    BY <1>1, <1>2, <1>3, TimesAssumption

\* What is fresh during a pass is in reach of the checkpoint the pass started from.
LEMMA FreshIsCovered ==
    ASSUME TypeOK, ClockInv, Deployment, pc # "idle"
    PROVE  Floor \in Int /\ fileNow - MaxLag \in Int /\ fileNow - MaxLag >= Floor
  <1>1. CASE safeThrough = NoTime
    BY <1>1, TimesAssumption DEF TypeOK, ClockInv, Floor, SeedClock
  <1>2. CASE safeThrough # NoTime
    BY <1>2, TimesAssumption DEF TypeOK, Stamps, ClockInv, Floor, Deployment
  <1>3. QED
    BY <1>1, <1>2

\* The window a pass opens reaches back to the floor.
LEMMA WindowReachesFloor ==
    ASSUME TypeOK, ClockInv, WindowInv, Deployment, pc \notin {"idle", "load"}
    PROVE  /\ window.start \in Int /\ window.start <= Floor
           /\ window.end = fileNow /\ fileNow \in Int
  <1>1. CASE safeThrough = NoTime
    BY <1>1, TimesAssumption
    DEF TypeOK, ClockInv, WindowInv, Floor, SeedClock, BootsInTime
  <1>2. CASE safeThrough # NoTime
    BY <1>2, TimesAssumption DEF TypeOK, Stamps, WindowInv, Floor
  <1>3. QED
    BY <1>1, <1>2

\* The effect on the rows of a write at the server's own time.
LEMMA StampedWrite ==
    ASSUME TypeOK, PassInv, Deployment, NEW s \in Sides, NEW id \in Ids, NEW v \in Nat,
           Write(s, id, Stamp(s), v),
           UNCHANGED <<clock, syncDeletes, disk, fileNow>>
    PROVE  /\ \A r \in Sides, i \in Ids :
                 \/ mod'[r][i] = mod[r][i] /\ val'[r][i] = val[r][i]
                 \/ r = s /\ i = id
           /\ mod'[s][id] = Stamp(s) /\ val'[s][id] = v
           /\ pc # "idle" => FreshOn(s, id)'
           /\ Covered(id)'
  <1>1. /\ mod'[s][id] = Stamp(s) /\ val'[s][id] = v
        /\ \A r \in Sides, i \in Ids :
              \/ mod'[r][i] = mod[r][i] /\ val'[r][i] = val[r][i]
              \/ r = s /\ i = id
    BY DEF TypeOK, Write
  <1>2. /\ Stamp(s) # NoTime /\ Stamp(s) >= Floor
        /\ pc # "idle" => Stamp(s) >= fileNow - MaxLag
    BY StampIsHigh DEF PassInv
  <1>3. Floor' = Floor
    BY DEF Floor, disk
  <1>4. Covered(id)'
    BY <1>1, <1>2, <1>3 DEF Covered, Present
  <1>5. pc # "idle" => FreshOn(s, id)'
    BY <1>1, <1>2 DEF FreshOn, Present
  <1>6. QED
    BY <1>1, <1>4, <1>5

\* A row nobody writes keeps what was known of it.
LEMMA SameRow ==
    ASSUME NEW i \in Ids,
           \A r \in Sides : mod'[r][i] = mod[r][i] /\ val'[r][i] = val[r][i],
           syncDeletes'[i] = syncDeletes[i], deferredLog \subseteq deferredLog'
    PROVE  /\ Excused(i) => Excused(i)'
           /\ Deleted(i)' = Deleted(i)
           /\ \A r \in Sides : Present(r, i)' = Present(r, i)
           /\ fileNow' = fileNow => \A r \in Sides : FreshOn(r, i)' = FreshOn(r, i)
           /\ fileNow' = fileNow /\ Settled(i) => Settled(i)'
           /\ safeThrough' = safeThrough /\ Covered(i) => Covered(i)'
  <1>1. "blue" \in Sides /\ "green" \in Sides
    BY DEF Sides
  <1>2. /\ \A r \in Sides : Present(r, i)' = Present(r, i)
        /\ Deleted(i)' = Deleted(i)
    BY DEF Present, Deleted
  <1>3. Excused(i) => Excused(i)'
    BY <1>1, <1>2 DEF Excused, InSync, Tied, Present, Deleted
  <1>4. fileNow' = fileNow => \A r \in Sides : FreshOn(r, i)' = FreshOn(r, i)
    BY <1>2 DEF FreshOn
  <1>5. fileNow' = fileNow /\ Settled(i) => Settled(i)'
    BY <1>3, <1>4 DEF Settled, Fresh
  <1>6. safeThrough' = safeThrough /\ Covered(i) => Covered(i)'
    BY <1>2, <1>3 DEF Covered, Floor
  <1>7. QED
    BY <1>2, <1>3, <1>4, <1>5, <1>6

\* CopyInv speaks of the operations in flight and of the rows they read.
LEMMA SameCopy ==
    ASSUME CopyInv, UNCHANGED <<mod, val, manifest, st, copy, fileNow, syncDeletes>>,
           Applying' => Applying
    PROVE  CopyInv'
  <1>1. In({"got", "resent", "post"})' = In({"got", "resent", "post"})
    BY DEF In
  <1>2. \A i : Src(i)' = Src(i)
    BY DEF Src
  <1>3. ASSUME Applying', NEW i \in In({"got", "resent", "post"})
        PROVE  /\ copy'[i].mod # NoTime
               /\ \/ Present(Src(i), i)' /\ val'[Src(i)'][i] = copy'[i].val
                  \/ FreshOn(Src(i), i)'
                  \/ Deleted(i)'
    <2>1. /\ copy[i].mod # NoTime
          /\ \/ Present(Src(i), i) /\ val[Src(i)][i] = copy[i].val
             \/ FreshOn(Src(i), i)
             \/ Deleted(i)
      BY <1>3 DEF CopyInv
    <2>2. QED
      BY <1>2, <2>1 DEF Present, FreshOn, Deleted
  <1>4. QED
    BY <1>1, <1>3 DEF CopyInv

-----------------------------------------------------------------------------
(* The steps that write no row.                                            *)

LEMMA TickInv == TypeOK /\ PassInv /\ Tick => PassInv'
  <1>1. SUFFICES ASSUME TypeOK, PassInv, Tick PROVE PassInv'
    OBVIOUS
  <1>2. UNCHANGED <<edits, mod, val, syncDeletes, safeThrough, deferredLog, pc, opts,
                    fileNow, window, unread, manifest, st, copy, endThrough, ctxDone>>
    BY <1>1 DEF Tick, tables, disk, volatile
  <1>3. ClockInv'
    BY <1>1, <1>2, TimesAssumption
    DEF Tick, PassInv, ClockInv, InBudget, BootsInTime, TypeOK, Stamps, Checking, SeedClock
  <1>4. \A i \in Ids :
          /\ (Covered(i) => Covered(i)') /\ (Settled(i) => Settled(i)')
          /\ Deleted(i)' = Deleted(i)
          /\ \A r \in Sides : Present(r, i)' = Present(r, i)
          /\ \A r \in Sides : FreshOn(r, i)' = FreshOn(r, i)
    BY <1>2, SameRow
  <1>5. WindowInv'
    BY <1>1, <1>2 DEF PassInv, WindowInv
  <1>6. ManifestInv'
    BY <1>1, <1>2, <1>4 DEF PassInv, ManifestInv, AllUnread, Fetching, Exact
  <1>9. CopyInv'
    BY <1>1, <1>2, SameCopy DEF PassInv, Applying
  <1>7. PlanInv' /\ CoverInv'
    BY <1>1, <1>2, <1>4 DEF PassInv, PlanInv, CoverInv, Applying, Checking, Src
  <1>8. QED
    BY <1>3, <1>5, <1>6, <1>7, <1>9 DEF PassInv

\* A pass that ends leaves nothing but the two tables and the disk.
LEMMA IdleInv ==
    ASSUME EndPass,
           clock' >= SeedClock, BootsInTime(clock)',
           safeThrough' # NoTime => safeThrough' <= clock',
           \A i \in Ids : Covered(i)'
    PROVE  PassInv'
  <1>1. pc' = "idle" /\ ctxDone' = FALSE /\ manifest' = EmptyManifest
    BY DEF EndPass
  <1>2. ClockInv'
    BY <1>1 DEF ClockInv, Checking
  <1>3. WindowInv'
    BY <1>1 DEF WindowInv
  <1>4. ManifestInv'
    <2>1. unread' = AllUnread'
      BY DEF EndPass, AllUnread
    <2>2. QED
      BY <1>1, <2>1 DEF ManifestInv, EmptyManifest, Fetching
  <1>5. CopyInv' /\ PlanInv'
    BY <1>1 DEF CopyInv, PlanInv, Applying, Checking
  <1>6. CoverInv'
    BY DEF CoverInv
  <1>7. QED
    BY <1>2, <1>3, <1>4, <1>5, <1>6 DEF PassInv

\* A pass that ends without saving: an error, a crash, a dry run.
LEMMA EndWithoutSaving ==
    ASSUME TypeOK, PassInv, EndPass, UNCHANGED <<UserState, disk>>
    PROVE  PassInv'
  <1>1. UNCHANGED <<clock, mod, val, syncDeletes, safeThrough, deferredLog>>
    BY DEF UserState, tables, disk
  <1>2. \A i \in Ids : Covered(i)'
    BY <1>1, SameRow DEF PassInv, CoverInv
  <1>3. QED
    BY <1>1, <1>2, IdleInv DEF PassInv, ClockInv, BootsInTime

\* A pass that ends with saving a checkpoint the rows it settled can bear.
LEMMA EndWithSaving ==
    ASSUME TypeOK, PassInv, Deployment, EndPass, UNCHANGED <<UserState, deferredLog>>,
           pc # "idle", \A i \in Ids : Settled(i),
           NEW t \in Int, safeThrough' = t, t <= clock, t <= fileNow + PassBudget
    PROVE  PassInv'
  <1>1. UNCHANGED <<clock, mod, val, syncDeletes, deferredLog>>
    BY DEF UserState, tables
  <1>2. t # NoTime /\ BootsInTime(clock)'
    BY TimesAssumption DEF BootsInTime
  <1>3. \A i \in Ids : Covered(i)'
    <2>1. SUFFICES ASSUME NEW i \in Ids PROVE Covered(i)'
      OBVIOUS
    <2>2. /\ Excused(i) => Excused(i)'
          /\ \A r \in Sides : Present(r, i)' = Present(r, i)
      BY <1>1, SameRow
    <2>3. Floor' = t - Overlap /\ t - Overlap <= fileNow - MaxLag
      BY <1>2, TimesAssumption DEF Floor, TypeOK, Deployment
    <2>4. ASSUME NEW r \in Sides, FreshOn(r, i) PROVE mod'[r][i] >= Floor'
      <3>1. mod[r][i] \in Int /\ mod[r][i] >= fileNow - MaxLag
        BY <2>4 DEF FreshOn, Present, TypeOK, Stamps
      <3>2. QED
        BY <1>1, <2>3, <3>1, TimesAssumption DEF TypeOK
    <2>5. QED
      BY <2>2, <2>4 DEF Settled, Fresh, FreshOn, Covered
  <1>4. QED
    BY <1>1, <1>2, <1>3, IdleInv DEF PassInv, ClockInv

LEMMA BeginFileInv == TypeOK /\ PassInv /\ Deployment /\ BeginFile => PassInv'
  <1>1. SUFFICES ASSUME TypeOK, PassInv, Deployment, BeginFile PROVE PassInv'
    OBVIOUS
  <1>2. /\ UNCHANGED <<clock, mod, val, syncDeletes, safeThrough, deferredLog, window,
                       unread, manifest, st, copy, endThrough, ctxDone>>
        /\ pc = "idle" /\ pc' = "load" /\ fileNow' = clock /\ opts' \in RunOptions
    BY <1>1 DEF BeginFile, UserState, tables, disk
  <1>3. ClockInv'
    BY <1>1, <1>2, TimesAssumption
    DEF PassInv, ClockInv, BootsInTime, TypeOK, Checking, SeedClock
  <1>4. WindowInv'
    BY <1>1, <1>2 DEF PassInv, WindowInv, Deployment
  <1>5. \A i \in Ids : /\ (Covered(i) => Covered(i)') /\ Deleted(i)' = Deleted(i)
                       /\ \A r \in Sides : Present(r, i)' = Present(r, i)
    BY <1>2, SameRow
  <1>6. ManifestInv' /\ CoverInv'
    BY <1>1, <1>2, <1>5 DEF PassInv, ManifestInv, CoverInv, Fetching, AllUnread
  <1>7. CopyInv' /\ PlanInv'
    BY <1>2 DEF CopyInv, PlanInv, Applying, Checking
  <1>8. QED
    BY <1>3, <1>4, <1>6, <1>7 DEF PassInv

LEMMA OpenWindowInv == TypeOK /\ PassInv /\ OpenWindow => PassInv'
  <1>1. SUFFICES ASSUME TypeOK, PassInv, OpenWindow PROVE PassInv'
    OBVIOUS
  <1>2. /\ UNCHANGED <<clock, mod, val, syncDeletes, safeThrough, deferredLog, opts,
                       fileNow, unread, manifest, st, copy, endThrough, ctxDone>>
        /\ pc = "load" /\ pc' = "fetch"
        /\ window' = IF safeThrough = NoTime
                     THEN [start |-> fileNow - Lookback, end |-> fileNow]
                     ELSE [start |-> safeThrough - Overlap, end |-> fileNow]
    BY <1>1 DEF OpenWindow, UserState, tables, disk, ComputeSyncWindow
  <1>3. ClockInv'
    BY <1>1, <1>2 DEF PassInv, ClockInv, BootsInTime, Checking
  <1>4. WindowInv'
    BY <1>1, <1>2 DEF PassInv, WindowInv
  <1>5. \A i \in Ids : /\ (Covered(i) => Covered(i)') /\ Deleted(i)' = Deleted(i)
                       /\ \A r \in Sides : Present(r, i)' = Present(r, i)
    BY <1>2, SameRow
  <1>6. ManifestInv' /\ CoverInv'
    BY <1>1, <1>2, <1>5 DEF PassInv, ManifestInv, CoverInv, Fetching, AllUnread
  <1>7. CopyInv' /\ PlanInv'
    BY <1>2 DEF CopyInv, PlanInv, Applying, Checking
  <1>8. QED
    BY <1>3, <1>4, <1>6, <1>7 DEF PassInv

LEMMA ScanRowInv ==
    ASSUME TypeOK, PassInv, NEW s \in Sides, NEW id \in Ids, ScanRow(s, id)
    PROVE  PassInv'
  <1>2. /\ UNCHANGED <<clock, mod, val, syncDeletes, safeThrough, deferredLog, opts, pc,
                       fileNow, window, st, copy, endThrough, ctxDone>>
        /\ pc \in {"fetch", "verify"}
    BY DEF ScanRow, UserState, tables, disk
  <1>3. /\ \A r \in Sides, i \in Ids : (r = s /\ i = id) \/ manifest'[r][i] = manifest[r][i]
        /\ manifest'[s][id] =
               IF InWindow(mod[s][id], FetchWindow) THEN mod[s][id] ELSE NoTime
        /\ \A r \in Sides, i \in Ids : i \notin unread'[r] =>
               i \notin unread[r] \/ (r = s /\ i = id)
    BY DEF ScanRow, TypeOK
  <1>4. ClockInv' /\ WindowInv'
    BY <1>2 DEF PassInv, ClockInv, WindowInv, BootsInTime, Checking
  <1>5. \A i \in Ids :
          /\ (Covered(i) => Covered(i)') /\ (Settled(i) => Settled(i)')
          /\ Deleted(i)' = Deleted(i)
          /\ \A r \in Sides : Present(r, i)' = Present(r, i)
          /\ \A r \in Sides : FreshOn(r, i)' = FreshOn(r, i)
    BY <1>2, SameRow
  <1>6. ManifestInv'
    <2>1. \A r \in Sides, i \in Ids :
            manifest'[r][i] # NoTime => Present(r, i)' \/ Deleted(i)'
      BY <1>3, <1>5 DEF PassInv, ManifestInv, InWindow, Present
    <2>2. ASSUME Fetching', NEW r \in Sides, NEW i \in Ids, i \notin unread'[r]
          PROVE  Exact(r, i)'
      <3>1. Fetching /\ FetchWindow = window
        BY <1>2, <2>2 DEF Fetching, FetchWindow, TypeOK
      <3>2. CASE r = s /\ i = id
        BY <1>2, <1>3, <3>1, <3>2 DEF Exact
      <3>3. CASE ~(r = s /\ i = id)
        <4>1. Exact(r, i)
          BY <1>3, <2>2, <3>1, <3>3 DEF PassInv, ManifestInv
        <4>2. QED
          BY <1>2, <1>3, <1>5, <3>3, <4>1 DEF Exact
      <3>4. QED
        BY <3>2, <3>3
    <2>3. QED
      BY <1>2, <2>1, <2>2 DEF ManifestInv
  <1>7. CopyInv' /\ PlanInv' /\ CoverInv'
    BY <1>2, <1>5 DEF PassInv, CopyInv, PlanInv, CoverInv, Applying, Checking
  <1>8. QED
    BY <1>4, <1>6, <1>7 DEF PassInv

-----------------------------------------------------------------------------
(* The steps of the workers.                                               *)

\* A step that moves the operation on id to another state, given what the step
\* did to row id and to the copy of it.
LEMMA MoveOperation ==
    ASSUME TypeOK, PassInv, Applying, NEW id \in Ids,
           NEW state \in OpState \ {"none", "unsent", "todo"},
           st[id] # "none", WorkerStep(id, state), UNCHANGED pc,
           \A r \in Sides, i \in Ids \ {id} :
               mod'[r][i] = mod[r][i] /\ val'[r][i] = val[r][i],
           \A r \in Sides : Present(r, id) => Present(r, id)',
           \A i \in Ids \ {id} : copy'[i] = copy[i],
           Covered(id)',
           Settled(id)' \/ state \in {"got", "resent", "post", "deferred"},
           state \in {"got", "resent", "post"} =>
               /\ copy'[id].mod # NoTime
               /\ \/ Present(Src(id), id)' /\ val'[Src(id)][id] = copy'[id].val
                  \/ FreshOn(Src(id), id)'
                  \/ Deleted(id)'
    PROVE  PassInv'
  <1>1. /\ UNCHANGED <<clock, edits, syncDeletes, safeThrough, deferredLog, pc, opts,
                       fileNow, window, unread, manifest, endThrough, ctxDone>>
        /\ st' = [st EXCEPT ![id] = state]
        /\ pc \in {"apply", "drain"}
    BY DEF WorkerStep, disk, Applying
  <1>2. /\ st'[id] = state
        /\ \A i \in Ids \ {id} : st'[i] = st[i]
    BY <1>1 DEF TypeOK
  <1>3. \A i : Src(i)' = Src(i)
    BY <1>1 DEF Src
  <1>4. \A i \in Ids \ {id} :
          /\ (Covered(i) => Covered(i)') /\ (Settled(i) => Settled(i)')
          /\ Deleted(i)' = Deleted(i)
          /\ \A r \in Sides : Present(r, i)' = Present(r, i)
          /\ \A r \in Sides : FreshOn(r, i)' = FreshOn(r, i)
    BY <1>1, SameRow
  <1>5. ClockInv' /\ WindowInv'
    BY <1>1 DEF PassInv, ClockInv, WindowInv, BootsInTime, Checking
  <1>6. ManifestInv'
    <2>1. Deleted(id)' = Deleted(id)
      BY <1>1 DEF Deleted
    <2>2. \A r \in Sides, i \in Ids :
            manifest'[r][i] # NoTime => Present(r, i)' \/ Deleted(i)'
      BY <1>1, <1>4, <2>1 DEF PassInv, ManifestInv
    <2>3. QED
      BY <1>1, <2>2 DEF ManifestInv, Fetching
  <1>7. CopyInv'
    <2>1. SUFFICES ASSUME NEW i \in In({"got", "resent", "post"})'
                   PROVE  /\ copy'[i].mod # NoTime
                          /\ \/ Present(Src(i), i)' /\ val'[Src(i)'][i] = copy'[i].val
                             \/ FreshOn(Src(i), i)'
                             \/ Deleted(i)'
      BY DEF CopyInv, Present, FreshOn
    <2>2. i \in Ids /\ st'[i] \in {"got", "resent", "post"}
      BY <2>1 DEF In
    <2>3. CASE i = id
      BY <1>2, <1>3, <2>2, <2>3
    <2>4. CASE i # id
      <3>1. /\ copy[i].mod # NoTime
            /\ \/ Present(Src(i), i) /\ val[Src(i)][i] = copy[i].val
               \/ FreshOn(Src(i), i)
               \/ Deleted(i)
        BY <1>2, <2>2, <2>4 DEF PassInv, CopyInv, In
      <3>2. QED
        BY <1>3, <1>4, <2>2, <2>4, <3>1, SidesType DEF Present, FreshOn
    <2>5. QED
      BY <2>3, <2>4
  <1>8. PlanInv'
    <2>1. ~Checking'
      BY <1>1 DEF Checking
    <2>2. ASSUME NEW i \in Ids
          PROVE  /\ st'[i] # "unsent"
                 /\ st'[i] # "none" => manifest'[Src(i)'][i] # NoTime
                 /\ Settled(i)' \/ st'[i] \in {"todo", "got", "resent", "post", "deferred"}
      <3>1. /\ st[i] # "unsent"
            /\ st[i] # "none" => manifest[Src(i)][i] # NoTime
            /\ Settled(i) \/ st[i] \in {"todo", "got", "resent", "post", "deferred"}
        BY DEF PassInv, PlanInv
      <3>2. CASE i = id
        BY <1>1, <1>2, <1>3, <3>1, <3>2
      <3>3. CASE i # id
        BY <1>1, <1>2, <1>3, <1>4, <3>1, <3>3
      <3>4. QED
        BY <3>2, <3>3
    <2>3. QED
      BY <2>1, <2>2 DEF PlanInv
  <1>9. CoverInv'
    BY <1>4 DEF PassInv, CoverInv
  <1>10. QED
    BY <1>5, <1>6, <1>7, <1>8, <1>9 DEF PassInv

\* A request that lands settles the row it was sent for, and leaves the others.
LEMMA Lands ==
    ASSUME TypeOK, PassInv, Deployment, Applying, NEW id \in Ids,
           NEW s \in Sides, s = Src(id), NEW d \in Sides, d = Dst(id),
           st[id] \in {"got", "resent", "post"}, PatchLands(id) \/ PostLands(id),
           UNCHANGED <<clock, syncDeletes, disk, fileNow>>
    PROVE  /\ \A r \in Sides, i \in Ids \ {id} :
                 mod'[r][i] = mod[r][i] /\ val'[r][i] = val[r][i]
           /\ mod'[s][id] = mod[s][id] /\ val'[s][id] = val[s][id]
           /\ \A r \in Sides : Present(r, id) => Present(r, id)'
           /\ Covered(id)' /\ Settled(id)'
  <1>1. d # s
    BY SidesType
  <1>2. copy[id] \in RowCopy /\ copy[id].val \in Nat /\ copy[id].mod \in Stamps
    BY DEF TypeOK, RowCopy
  <1>3. pc # "idle"
    BY DEF Applying
  <1>4. /\ copy[id].mod # NoTime
        /\ \/ Present(s, id) /\ val[s][id] = copy[id].val
           \/ FreshOn(s, id)
           \/ Deleted(id)
    BY DEF PassInv, CopyInv, In
  <1>5. CASE Write(d, id, Stamp(d), copy[id].val)
    <2>1. /\ \A r \in Sides, i \in Ids :
                \/ mod'[r][i] = mod[r][i] /\ val'[r][i] = val[r][i]
                \/ r = d /\ i = id
          /\ mod'[d][id] = Stamp(d)
          /\ FreshOn(d, id)' /\ Covered(id)'
      BY <1>1, <1>2, <1>3, <1>5, StampedWrite
    <2>2. Settled(id)'
      BY <1>1, <2>1 DEF Settled, Fresh
    <2>3. Stamp(d) # NoTime
      BY <1>1, StampIsHigh DEF PassInv
    <2>4. QED
      BY <1>1, <2>1, <2>2, <2>3 DEF Present
  <1>6. CASE ~Present(d, id) /\ Write(d, id, copy[id].mod, copy[id].val)
    <2>1. /\ \A r \in Sides, i \in Ids :
                \/ mod'[r][i] = mod[r][i] /\ val'[r][i] = val[r][i]
                \/ r = d /\ i = id
          /\ mod'[d][id] = copy[id].mod /\ val'[d][id] = copy[id].val
      BY <1>1, <1>6 DEF TypeOK, Write
    <2>2. Settled(id)' /\ Covered(id)'
      <3>1. CASE Deleted(id)
        BY <3>1 DEF Settled, Covered, Excused, Deleted
      <3>2. CASE FreshOn(s, id)
        <4>1. FreshOn(s, id)' /\ mod'[s][id] \in Int
          BY <1>1, <2>1, <3>2 DEF FreshOn, Present, TypeOK, Stamps
        <4>2. mod'[s][id] >= Floor'
          <5>1. Floor' = Floor /\ Floor \in Int /\ fileNow - MaxLag >= Floor
                /\ fileNow - MaxLag \in Int
            BY <1>3, FreshIsCovered DEF PassInv, Floor, disk
          <5>2. QED
            BY <4>1, <5>1 DEF FreshOn
        <4>3. QED
          BY <1>1, <4>1, <4>2 DEF Settled, Fresh, Covered, FreshOn
      <3>3. CASE Present(s, id) /\ val[s][id] = copy[id].val
        <4>1. /\ \A r \in Sides : r = s \/ r = d
              /\ "blue" \in Sides /\ "green" \in Sides
          BY <1>1 DEF Sides
        <4>2. \A r \in Sides : Present(r, id)' /\ val'[r][id] = copy[id].val
          BY <1>1, <1>4, <2>1, <3>3, <4>1 DEF Present
        <4>3. InSync(id)'
          BY <4>1, <4>2 DEF InSync
        <4>4. QED
          BY <4>3 DEF Settled, Covered, Excused
      <3>4. QED
        BY <1>4, <3>1, <3>2, <3>3
    <2>3. QED
      BY <1>1, <1>4, <2>1, <2>2 DEF Present
  <1>7. QED
    BY <1>5, <1>6 DEF PatchLands, PostLands

\* The steps of a worker that write no row.
LEMMA QuietWorkerInv ==
    ASSUME TypeOK, PassInv, NEW id \in Ids,
           GetSource(id) \/ SourceGone(id) \/ PatchMissing(id) \/ Defer(id)
    PROVE  PassInv'
  <1>1. /\ UNCHANGED <<mod, val, pc, clock, syncDeletes, safeThrough, deferredLog,
                       fileNow, manifest>>
        /\ Applying /\ st[id] # "none"
    BY DEF GetSource, SourceGone, PatchMissing, Defer, WorkerStep, Running, Applying, disk
  <1>2. /\ Covered(id)' /\ (Settled(id) => Settled(id)')
        /\ Deleted(id)' = Deleted(id)
        /\ \A r \in Sides : Present(r, id)' = Present(r, id)
        /\ \A r \in Sides : FreshOn(r, id)' = FreshOn(r, id)
    BY <1>1, SameRow DEF PassInv, CoverInv
  <1>3. PICK s \in Sides : s = Src(id)
    BY SidesType
  <1>4. Src(id)' = s
    BY <1>1, <1>3 DEF Src
  <1>5. CASE GetSource(id)
    <2>1. copy' = [copy EXCEPT ![id] = [mod |-> mod[s][id], val |-> val[s][id]]]
          /\ Present(s, id)
      BY <1>3, <1>5 DEF GetSource
    <2>2. /\ copy'[id] = [mod |-> mod[s][id], val |-> val[s][id]]
          /\ \A i \in Ids \ {id} : copy'[i] = copy[i]
      BY <2>1 DEF TypeOK
    <2>3. /\ copy'[id].mod # NoTime /\ val'[Src(id)][id] = copy'[id].val
          /\ Present(Src(id), id)'
      BY <1>1, <1>2, <1>3, <1>4, <2>1, <2>2 DEF Present
    <2>4. WorkerStep(id, "got") /\ "got" \in OpState \ {"none", "unsent", "todo"}
      BY <1>5 DEF GetSource, OpState
    <2>5. QED
      BY <1>1, <1>2, <2>2, <2>3, <2>4, MoveOperation
  <1>6. CASE SourceGone(id)
    <2>1. manifest[s][id] # NoTime /\ ~Present(s, id)
      BY <1>1, <1>3, <1>6 DEF PassInv, PlanInv, SourceGone
    <2>2. Settled(id)
      BY <2>1 DEF PassInv, ManifestInv, Settled, Excused
    <2>3. WorkerStep(id, "skipped") /\ "skipped" \in OpState \ {"none", "unsent", "todo"}
          /\ UNCHANGED copy
      BY <1>6 DEF SourceGone, OpState
    <2>4. QED
      BY <1>1, <1>2, <2>2, <2>3, MoveOperation
  <1>7. CASE PatchMissing(id)
    <2>1. WorkerStep(id, "post") /\ "post" \in OpState \ {"none", "unsent", "todo"}
          /\ UNCHANGED copy /\ st[id] \in {"got", "resent"}
      BY <1>7 DEF PatchMissing, OpState
    <2>2. /\ copy[id].mod # NoTime
          /\ \/ Present(s, id) /\ val[s][id] = copy[id].val
             \/ FreshOn(s, id)
             \/ Deleted(id)
      BY <1>1, <1>3, <2>1 DEF PassInv, CopyInv, In
    <2>3. /\ copy'[id].mod # NoTime
          /\ \/ Present(Src(id), id)' /\ val'[Src(id)][id] = copy'[id].val
             \/ FreshOn(Src(id), id)'
             \/ Deleted(id)'
      BY <1>1, <1>3, <1>4, <2>1, <2>2 DEF Present, FreshOn, Deleted
    <2>4. QED
      BY <1>1, <1>2, <2>1, <2>3, MoveOperation
  <1>8. CASE Defer(id)
    <2>1. WorkerStep(id, "deferred") /\ "deferred" \in OpState \ {"none", "unsent", "todo"}
          /\ \A i \in Ids \ {id} : copy'[i] = copy[i]
      BY <1>8 DEF Defer, OpState, TypeOK
    <2>2. QED
      BY <1>1, <1>2, <2>1, MoveOperation
  <1>9. QED
    BY <1>5, <1>6, <1>7, <1>8

\* The steps in which a PATCH or a POST reaches the server.
LEMMA LandingInv ==
    ASSUME TypeOK, PassInv, Deployment, NEW id \in Ids,
           PatchDest(id) \/ PostDest(id) \/ LoseReply(id)
    PROVE  PassInv'
  <1>1. /\ UNCHANGED <<clock, syncDeletes, disk, fileNow, manifest, pc>>
        /\ Applying /\ st[id] \in {"got", "resent", "post"}
        /\ PatchLands(id) \/ PostLands(id)
    BY DEF PatchDest, PostDest, LoseReply, WorkerStep, Running, Applying
  <1>2. PICK s \in Sides, d \in Sides : s = Src(id) /\ d = Dst(id)
    BY SidesType
  <1>3. /\ \A r \in Sides, i \in Ids \ {id} :
              mod'[r][i] = mod[r][i] /\ val'[r][i] = val[r][i]
        /\ mod'[s][id] = mod[s][id] /\ val'[s][id] = val[s][id]
        /\ \A r \in Sides : Present(r, id) => Present(r, id)'
        /\ Covered(id)' /\ Settled(id)'
    BY <1>1, <1>2, Lands
  <1>4. \A i \in Ids \ {id} : copy'[i] = copy[i]
    BY DEF PatchDest, PostDest, LoseReply, TypeOK
  <1>5. CASE PatchDest(id) \/ PostDest(id)
    <2>1. WorkerStep(id, "done") /\ "done" \in OpState \ {"none", "unsent", "todo"}
      BY <1>5 DEF PatchDest, PostDest, OpState
    <2>2. QED
      BY <1>1, <1>3, <1>4, <2>1, MoveOperation
  <1>6. CASE LoseReply(id)
    <2>1. WorkerStep(id, "resent") /\ "resent" \in OpState \ {"none", "unsent", "todo"}
          /\ UNCHANGED copy
      BY <1>6 DEF LoseReply, OpState
    <2>2. /\ copy[id].mod # NoTime
          /\ \/ Present(s, id) /\ val[s][id] = copy[id].val
             \/ FreshOn(s, id)
             \/ Deleted(id)
      BY <1>1, <1>2 DEF PassInv, CopyInv, In
    <2>3. Src(id)' = s
      BY <1>1, <1>2 DEF Src
    <2>4. /\ copy'[id].mod # NoTime
          /\ \/ Present(Src(id), id)' /\ val'[Src(id)][id] = copy'[id].val
             \/ FreshOn(Src(id), id)'
             \/ Deleted(id)'
      BY <1>1, <1>2, <1>3, <2>1, <2>2, <2>3 DEF Present, FreshOn, Deleted
    <2>5. QED
      BY <1>1, <1>3, <1>4, <2>1, <2>4, MoveOperation
  <1>7. QED
    BY <1>5, <1>6

\* An error of a worker stops the others and changes nothing else.
LEMMA FatalInv ==
    ASSUME TypeOK, PassInv, NEW id \in Ids, Fatal(id)
    PROVE  PassInv'
  <1>1. /\ UNCHANGED <<clock, edits, mod, val, syncDeletes, safeThrough, deferredLog, opts,
                       fileNow, window, unread, manifest, st, copy, endThrough, ctxDone>>
        /\ pc = "apply" /\ pc' = "drain"
    BY DEF Fatal, UserState, tables, disk, volatile
  <1>2. ClockInv' /\ WindowInv'
    BY <1>1 DEF PassInv, ClockInv, WindowInv, BootsInTime, Checking
  <1>3. \A i \in Ids :
          /\ (Covered(i) => Covered(i)') /\ (Settled(i) => Settled(i)')
          /\ Deleted(i)' = Deleted(i)
          /\ \A r \in Sides : Present(r, i)' = Present(r, i)
    BY <1>1, SameRow
  <1>4. ManifestInv'
    BY <1>1, <1>3 DEF PassInv, ManifestInv, Fetching
  <1>5. CopyInv'
    BY <1>1, SameCopy DEF PassInv, Applying
  <1>6. PlanInv' /\ CoverInv'
    <2>1. \A i : Src(i)' = Src(i)
      BY <1>1 DEF Src
    <2>2. QED
      BY <1>1, <1>3, <2>1 DEF PassInv, PlanInv, CoverInv, Applying, Checking
  <1>7. QED
    BY <1>2, <1>4, <1>5, <1>6 DEF PassInv

-----------------------------------------------------------------------------
(* Planning, finishing the apply, verifying.                               *)

\* Without a direction, the plan has an operation for every row whose two times
\* in the manifests differ.
LEMMA PlannedWithoutJournal ==
    ASSUME TypeOK, opts.oneWay = "both"
    PROVE  Planned = {id \in Ids : \/ Newer(manifest["blue"][id], manifest["green"][id])
                                   \/ Newer(manifest["green"][id], manifest["blue"][id])}
  BY PlannedByMode

LEMMA PlannedHasSource ==
    ASSUME TypeOK, opts.oneWay = "both", NEW id \in Planned
    PROVE  manifest[Src(id)][id] # NoTime
  BY PlannedWithoutJournal DEF Src, Newer

\* The planner leaves out only rows that need nothing: they are equal, or tied,
\* or deleted, or were stamped so late that the next window has them.
LEMMA PlanLeavesOutSettled ==
    ASSUME TypeOK, PassInv, Deployment, Fetching, Scanned, NEW id \in Ids, id \notin Planned
    PROVE  Settled(id)
  <1>1. /\ "blue" \in Sides /\ "green" \in Sides
        /\ opts.oneWay = "both" /\ pc \notin {"idle", "load"}
    BY DEF Sides, Fetching, PassInv, WindowInv
  <1>2. /\ ~Newer(manifest["blue"][id], manifest["green"][id])
        /\ ~Newer(manifest["green"][id], manifest["blue"][id])
    BY <1>1, PlannedWithoutJournal
  <1>3. \A s \in Sides : Exact(s, id)
    BY DEF PassInv, ManifestInv, Scanned
  <1>4. CASE Excused(id) \/ Fresh(id)
    BY <1>4 DEF Settled
  <1>5. CASE ~Excused(id) /\ ~Fresh(id)
    <2>1. PICK s \in Sides : Present(s, id) /\ mod[s][id] >= Floor
      BY <1>5 DEF PassInv, CoverInv, Covered
    <2>2. \A r \in Sides :
            manifest[r][id] = IF InWindow(mod[r][id], window) THEN mod[r][id] ELSE NoTime
      BY <1>3, <1>5 DEF Exact, Fresh, Excused
    <2>3. /\ mod[s][id] \in Int /\ mod[s][id] < fileNow - MaxLag
          /\ window.start <= Floor /\ window.end = fileNow
          /\ window.start \in Int /\ Floor \in Int /\ fileNow \in Int
      <3>1. mod[s][id] \in Int
        BY <2>1 DEF TypeOK, Stamps, Present
      <3>2. Floor \in Int /\ fileNow - MaxLag \in Int
        BY <1>1, FreshIsCovered DEF PassInv
      <3>3. ~(mod[s][id] >= fileNow - MaxLag)
        BY <1>5, <2>1 DEF Fresh, FreshOn
      <3>4. QED
        BY <1>1, <3>1, <3>2, <3>3, WindowReachesFloor DEF PassInv
    <2>4. InWindow(mod[s][id], window)
      BY <2>1, <2>3, TimesAssumption DEF InWindow, Present
    <2>5. manifest[s][id] = mod[s][id] /\ manifest[s][id] # NoTime
      BY <2>1, <2>2, <2>4 DEF Present
    <2>6. manifest["blue"][id] = manifest["green"][id]
      <3>1. \A r \in Sides : manifest[r][id] \in Int \cup {NoTime}
        BY DEF TypeOK, Stamps
      <3>2. s = "blue" \/ s = "green"
        BY DEF Sides
      <3>3. QED
        BY <1>1, <1>2, <2>5, <3>1, <3>2 DEF Newer, CompareModification
    <2>7. Tied(id)
      <3>1. s = "blue" \/ s = "green"
        BY DEF Sides
      <3>2. manifest["blue"][id] # NoTime /\ manifest["green"][id] # NoTime
        BY <2>5, <2>6, <3>1
      <3>3. manifest["blue"][id] = mod["blue"][id] /\ manifest["green"][id] = mod["green"][id]
        BY <1>1, <2>2, <3>2
      <3>4. QED
        BY <2>6, <3>2, <3>3 DEF Tied, Present
    <2>8. QED
      BY <1>5, <2>7 DEF Excused
  <1>6. QED
    BY <1>4, <1>5

LEMMA PlanEmptyInv == TypeOK /\ PassInv /\ Deployment /\ PlanEmpty => PassInv'
  <1>1. SUFFICES ASSUME TypeOK, PassInv, Deployment, PlanEmpty PROVE PassInv'
    OBVIOUS
  <1>2. \A id \in Ids : Settled(id)
    BY <1>1, PlanLeavesOutSettled DEF PlanEmpty, Fetching
  <1>3. /\ EndPass /\ UNCHANGED <<UserState, deferredLog>> /\ pc = "fetch"
        /\ safeThrough' = window.end /\ window.end = fileNow
    BY <1>1 DEF PlanEmpty, PassInv, WindowInv
  <1>4. fileNow \in Int /\ fileNow <= clock /\ fileNow <= fileNow + PassBudget
    BY <1>1, <1>3, TimesAssumption DEF PassInv, ClockInv, TypeOK
  <1>5. QED
    BY <1>1, <1>2, <1>3, <1>4, EndWithSaving

LEMMA PlanApplyInv == TypeOK /\ PassInv /\ Deployment /\ PlanApply => PassInv'
  <1>1. SUFFICES ASSUME TypeOK, PassInv, Deployment, PlanApply PROVE PassInv'
    OBVIOUS
  <1>2. /\ UNCHANGED <<clock, mod, val, syncDeletes, safeThrough, deferredLog, opts,
                       fileNow, window, unread, manifest, copy, endThrough, ctxDone>>
        /\ pc = "fetch" /\ pc' = "apply" /\ Scanned
        /\ st' = [id \in Ids |-> IF id \in Planned THEN "todo" ELSE "none"]
    BY <1>1 DEF PlanApply, UserState, tables, disk
  <1>3. ClockInv' /\ WindowInv'
    BY <1>1, <1>2 DEF PassInv, ClockInv, WindowInv, BootsInTime, Checking
  <1>4. \A i \in Ids :
          /\ (Covered(i) => Covered(i)') /\ (Settled(i) => Settled(i)')
          /\ Deleted(i)' = Deleted(i)
          /\ \A r \in Sides : Present(r, i)' = Present(r, i)
    BY <1>2, SameRow
  <1>5. ManifestInv' /\ CoverInv'
    BY <1>1, <1>2, <1>4 DEF PassInv, ManifestInv, CoverInv, Fetching
  <1>6. CopyInv'
    BY <1>2 DEF CopyInv, In
  <1>7. PlanInv'
    <2>1. \A i : Src(i)' = Src(i)
      BY <1>2 DEF Src
    <2>2. opts.oneWay = "both"
      BY <1>1, <1>2 DEF PassInv, WindowInv
    <2>3. \A i \in Ids : i \in Planned => manifest[Src(i)][i] # NoTime
      BY <1>1, <2>2, PlannedHasSource
    <2>4. \A i \in Ids : i \notin Planned => Settled(i)
      BY <1>1, <1>2, PlanLeavesOutSettled DEF Fetching
    <2>5. QED
      BY <1>2, <1>4, <2>1, <2>3, <2>4 DEF PlanInv, Applying, Checking
  <1>8. QED
    BY <1>3, <1>5, <1>6, <1>7 DEF PassInv

LEMMA ApplyDoneInv == TypeOK /\ PassInv /\ Deployment /\ ApplyDone => PassInv'
  <1>1. SUFFICES ASSUME TypeOK, PassInv, Deployment, ApplyDone PROVE PassInv'
    OBVIOUS
  <1>2. /\ UNCHANGED <<clock, mod, val, syncDeletes, safeThrough, opts, fileNow, window,
                       copy, ctxDone>>
        /\ pc = "apply" /\ pc' \in {"verify", "save"} /\ endThrough' = clock
        /\ manifest' = EmptyManifest
        /\ In({"todo", "got", "resent", "post"}) = {}
        /\ deferredLog' = deferredLog \cup In({"deferred"})
    BY <1>1 DEF ApplyDone, UserState, tables, Deployment
  <1>3. ClockInv' /\ WindowInv'
    BY <1>1, <1>2 DEF PassInv, ClockInv, WindowInv, BootsInTime, Checking, TypeOK
  <1>4. \A i \in Ids :
          /\ (Covered(i) => Covered(i)') /\ (Settled(i) => Settled(i)')
    BY <1>2, SameRow
  <1>5. ManifestInv' /\ CopyInv'
    BY <1>2 DEF ManifestInv, EmptyManifest, Fetching, CopyInv, Applying
  <1>6. \A i \in Ids : Settled(i)'
    <2>1. SUFFICES ASSUME NEW i \in Ids PROVE Settled(i)'
      OBVIOUS
    <2>2. Settled(i) \/ st[i] = "deferred"
      BY <1>1, <1>2 DEF PassInv, PlanInv, Applying, In
    <2>3. CASE st[i] = "deferred"
      BY <1>2, <2>3 DEF In, Settled, Excused
    <2>4. QED
      BY <1>4, <2>2, <2>3
  <1>7. PlanInv' /\ CoverInv'
    BY <1>1, <1>2, <1>4, <1>6 DEF PassInv, PlanInv, CoverInv, Applying
  <1>8. QED
    BY <1>3, <1>5, <1>7 DEF PassInv

\* The verifier reads, and either goes on or fails the pass.
LEMMA CheckingInv ==
    ASSUME TypeOK, PassInv, Checking, pc' \in {"verify", "recheck", "save"},
           UNCHANGED <<clock, mod, val, syncDeletes, safeThrough, deferredLog, opts,
                       fileNow, window, manifest, endThrough, ctxDone>>
    PROVE  PassInv'
  <1>1. ClockInv' /\ WindowInv'
    BY DEF PassInv, ClockInv, WindowInv, BootsInTime, Checking
  <1>2. \A i \in Ids :
          /\ (Covered(i) => Covered(i)') /\ (Settled(i) => Settled(i)')
          /\ Deleted(i)' = Deleted(i)
          /\ \A r \in Sides : Present(r, i)' = Present(r, i)
    BY SameRow
  <1>3. ManifestInv' /\ CopyInv'
    BY <1>2 DEF PassInv, ManifestInv, Fetching, CopyInv, Applying
  <1>4. PlanInv' /\ CoverInv'
    BY <1>2 DEF PassInv, PlanInv, CoverInv, Applying, Checking
  <1>5. QED
    BY <1>1, <1>3, <1>4 DEF PassInv

LEMMA SaveInv == TypeOK /\ PassInv /\ Deployment /\ Save => PassInv'
  <1>1. SUFFICES ASSUME TypeOK, PassInv, Deployment, Save PROVE PassInv'
    OBVIOUS
  <1>2. Checking /\ pc # "idle"
    BY <1>1 DEF Save, Checking
  <1>3. /\ \A id \in Ids : Settled(id)
        /\ endThrough \in Int /\ endThrough <= clock /\ endThrough <= fileNow + PassBudget
    BY <1>1, <1>2 DEF PassInv, PlanInv, ClockInv, TypeOK
  <1>4. QED
    BY <1>1, <1>2, <1>3, EndWithSaving DEF Save

-----------------------------------------------------------------------------
(* The users.                                                              *)

\* An edit or a creation: a row stamped now, with the pass where it was.
LEMMA UserWriteInv ==
    ASSUME TypeOK, PassInv, Deployment, NEW s \in Sides, NEW id \in Ids,
           Edit(s, id) \/ Create(s, id)
    PROVE  PassInv'
  <1>1. /\ UNCHANGED <<clock, syncDeletes, safeThrough, deferredLog, pc, opts, fileNow,
                       window, unread, manifest, st, copy, endThrough, ctxDone, disk>>
        /\ edits + 1 \in Nat /\ Write(s, id, Stamp(s), edits + 1)
    BY DEF Edit, Create, disk, volatile, TypeOK
  <1>2. /\ \A r \in Sides, i \in Ids :
              \/ mod'[r][i] = mod[r][i] /\ val'[r][i] = val[r][i]
              \/ r = s /\ i = id
        /\ mod'[s][id] = Stamp(s)
        /\ pc # "idle" => FreshOn(s, id)'
        /\ Covered(id)'
    BY <1>1, StampedWrite
  <1>3. Stamp(s) # NoTime
    BY StampIsHigh DEF PassInv
  <1>4. \A i \in Ids \ {id} : /\ (Covered(i) => Covered(i)')
                              /\ (Settled(i) => Settled(i)')
    BY <1>1, <1>2, SameRow
  <1>5. \A r \in Sides, i \in Ids :
          /\ Deleted(i)' = Deleted(i)
          /\ Present(r, i) => Present(r, i)'
          /\ (mod'[r][i] = mod[r][i] /\ val'[r][i] = val[r][i]) \/ FreshOn(r, i)' \/ pc = "idle"
          /\ FreshOn(r, i) => FreshOn(r, i)' \/ pc = "idle"
    BY <1>1, <1>2, <1>3 DEF Deleted, Present, FreshOn
  <1>6. ClockInv' /\ WindowInv'
    BY <1>1 DEF PassInv, ClockInv, WindowInv, BootsInTime, Checking
  <1>7. ManifestInv'
    <2>1. ASSUME Fetching, NEW r \in Sides, NEW i \in Ids, Exact(r, i) PROVE Exact(r, i)'
      <3>1. pc # "idle"
        BY <2>1 DEF Fetching
      <3>2. CASE FreshOn(r, i)'
        BY <3>2 DEF Exact
      <3>3. CASE mod'[r][i] = mod[r][i] /\ ~FreshOn(r, i)'
        BY <1>1, <1>5, <2>1, <3>1, <3>3 DEF Exact, Present
      <3>4. QED
        BY <1>5, <3>1, <3>2, <3>3
    <2>2. QED
      BY <1>1, <1>5, <2>1 DEF PassInv, ManifestInv, Fetching, AllUnread
  <1>8. CopyInv'
    <2>1. SUFFICES ASSUME Applying, NEW i \in In({"got", "resent", "post"})
                   PROVE  /\ copy[i].mod # NoTime
                          /\ \/ Present(Src(i), i)' /\ val'[Src(i)][i] = copy[i].val
                             \/ FreshOn(Src(i), i)'
                             \/ Deleted(i)'
      <3>1. \A i : Src(i)' = Src(i)
        BY <1>1 DEF Src
      <3>2. In({"got", "resent", "post"})' = In({"got", "resent", "post"})
        BY <1>1 DEF In
      <3>3. QED
        BY <1>1, <3>1, <3>2 DEF CopyInv, Applying
    <2>2. PICK r \in Sides : r = Src(i)
      BY SidesType
    <2>3. pc # "idle" /\ i \in Ids
      BY <2>1 DEF Applying, In
    <2>4. /\ copy[i].mod # NoTime
          /\ \/ Present(r, i) /\ val[r][i] = copy[i].val
             \/ FreshOn(r, i)
             \/ Deleted(i)
      BY <2>1, <2>2 DEF PassInv, CopyInv
    <2>5. \/ Present(r, i)' /\ val'[r][i] = copy[i].val
          \/ FreshOn(r, i)'
          \/ Deleted(i)'
      BY <1>5, <2>3, <2>4
    <2>6. Src(i)' = r
      BY <1>1, <2>2 DEF Src
    <2>7. QED
      BY <2>2, <2>4, <2>5, <2>6 DEF Present, FreshOn
  <1>9. PlanInv'
    <2>1. \A i : Src(i)' = Src(i)
      BY <1>1 DEF Src
    <2>2. pc # "idle" => Settled(id)'
      BY <1>2 DEF Settled, Fresh
    <2>3. Applying \/ Checking => pc # "idle"
      BY DEF Applying, Checking
    <2>4. ASSUME NEW i \in Ids, Settled(i), pc # "idle" PROVE Settled(i)'
      BY <1>4, <2>2, <2>4
    <2>5. QED
      BY <1>1, <2>1, <2>3, <2>4 DEF PassInv, PlanInv, Applying, Checking
  <1>10. CoverInv'
    BY <1>2, <1>4 DEF PassInv, CoverInv
  <1>11. QED
    BY <1>6, <1>7, <1>8, <1>9, <1>10 DEF PassInv

\* A deletion excuses the row from then on.
LEMMA UserDeleteInv ==
    ASSUME TypeOK, PassInv, Deployment, NEW s \in Sides, NEW id \in Ids, Delete(s, id)
    PROVE  PassInv'
  <1>1. /\ UNCHANGED <<clock, safeThrough, deferredLog, pc, opts, fileNow,
                       window, unread, manifest, st, copy, endThrough, ctxDone>>
        /\ Write(s, id, NoTime, 0)
        /\ syncDeletes' = [syncDeletes EXCEPT ![id] = Stamp(s)]
    BY DEF Delete, disk, volatile
  <1>2. /\ \A r \in Sides, i \in Ids \ {id} : mod'[r][i] = mod[r][i] /\ val'[r][i] = val[r][i]
        /\ \A r \in Sides \ {s} : mod'[r][id] = mod[r][id] /\ val'[r][id] = val[r][id]
        /\ \A i \in Ids \ {id} : syncDeletes'[i] = syncDeletes[i]
        /\ Deleted(id)'
    <2>1. Stamp(s) # NoTime
      BY StampIsHigh DEF PassInv
    <2>2. QED
      BY <1>1, <2>1 DEF Write, TypeOK, Deleted
  <1>3. \A i \in Ids \ {id} :
          /\ (Covered(i) => Covered(i)') /\ (Settled(i) => Settled(i)')
          /\ Deleted(i)' = Deleted(i)
          /\ \A r \in Sides : Present(r, i)' = Present(r, i)
          /\ \A r \in Sides : FreshOn(r, i)' = FreshOn(r, i)
    BY <1>1, <1>2, SameRow
  <1>4. Covered(id)' /\ Settled(id)'
    BY <1>2 DEF Covered, Settled, Excused
  <1>5. ClockInv' /\ WindowInv'
    BY <1>1 DEF PassInv, ClockInv, WindowInv, BootsInTime, Checking
  <1>6. ManifestInv'
    <2>1. ASSUME NEW r \in Sides, NEW i \in Ids, Exact(r, i) PROVE Exact(r, i)'
      <3>1. CASE i = id
        <4>1. CASE r = s
          <5>1. ~Present(r, id)'
            BY <1>1, <4>1 DEF Write, TypeOK, Present
          <5>2. QED
            BY <1>2, <3>1, <5>1 DEF Exact
        <4>2. CASE r # s
          BY <1>1, <1>2, <2>1, <3>1, <4>2 DEF Exact, FreshOn, Present
        <4>3. QED
          BY <4>1, <4>2
      <3>2. CASE i # id
        BY <1>1, <1>2, <1>3, <2>1, <3>2 DEF Exact
      <3>3. QED
        BY <3>1, <3>2
    <2>2. QED
      BY <1>1, <1>2, <1>3, <2>1 DEF PassInv, ManifestInv, Fetching, AllUnread
  <1>7. CopyInv'
    <2>1. In({"got", "resent", "post"})' = In({"got", "resent", "post"})
      BY <1>1 DEF In
    <2>2. ASSUME Applying, NEW i \in In({"got", "resent", "post"})
          PROVE  /\ copy[i].mod # NoTime
                 /\ \/ Present(Src(i), i)' /\ val'[Src(i)'][i] = copy[i].val
                    \/ FreshOn(Src(i), i)'
                    \/ Deleted(i)'
      <3>1. PICK r \in Sides : r = Src(i)
        BY SidesType
      <3>2. Src(i)' = r /\ i \in Ids
        BY <1>1, <2>2, <3>1 DEF Src, In
      <3>3. /\ copy[i].mod # NoTime
            /\ \/ Present(r, i) /\ val[r][i] = copy[i].val
               \/ FreshOn(r, i)
               \/ Deleted(i)
        BY <2>2, <3>1 DEF PassInv, CopyInv
      <3>4. CASE i = id
        BY <1>2, <3>3, <3>4
      <3>5. CASE i # id
        BY <1>2, <1>3, <3>2, <3>3, <3>5 DEF Present, FreshOn
      <3>6. QED
        BY <3>4, <3>5
    <2>3. QED
      BY <1>1, <2>1, <2>2 DEF CopyInv, Applying
  <1>8. PlanInv'
    <2>1. \A i : Src(i)' = Src(i)
      BY <1>1 DEF Src
    <2>2. QED
      BY <1>1, <1>3, <1>4, <2>1 DEF PassInv, PlanInv, Applying, Checking
  <1>9. CoverInv'
    BY <1>3, <1>4 DEF PassInv, CoverInv
  <1>10. QED
    BY <1>5, <1>6, <1>7, <1>8, <1>9 DEF PassInv
-----------------------------------------------------------------------------
(* The theorem.                                                            *)

LEMMA InitInv == Init /\ Deployment => PassInv
  <1>1. SUFFICES ASSUME Init, Deployment PROVE PassInv
    OBVIOUS
  <1>2. ClockInv
    BY <1>1, TimesAssumption
    DEF Init, ClockInv, BootsInTime, SeedClock, Checking, Deployment
  <1>3. WindowInv /\ ManifestInv
    BY <1>1 DEF Init, WindowInv, ManifestInv, EmptyManifest, Fetching
  <1>4. CopyInv /\ PlanInv
    BY <1>1 DEF Init, CopyInv, PlanInv, Applying, Checking
  <1>5. \A id \in Ids : InSync(id)
    <2>1. "blue" \in Sides /\ "green" \in Sides
      BY DEF Sides
    <2>2. QED
      BY <1>1, <2>1 DEF Init, InSync, Present
  <1>6. CoverInv
    BY <1>5 DEF CoverInv, Covered, Excused
  <1>7. QED
    BY <1>2, <1>3, <1>4, <1>6 DEF PassInv

LEMMA FaultInv == TypeOK /\ PassInv /\ Deployment /\ Fault => PassInv'
  <1>1. SUFFICES ASSUME TypeOK, PassInv, Deployment, Fault PROVE PassInv'
    OBVIOUS
  <1>2. ASSUME NEW id \in Ids, LoseReply(id) PROVE PassInv'
    BY <1>1, <1>2, LandingInv
  <1>3. ASSUME NEW id \in Ids, Defer(id) PROVE PassInv'
    BY <1>1, <1>3, QuietWorkerInv
  <1>4. ASSUME NEW id \in Ids, Fatal(id) PROVE PassInv'
    BY <1>1, <1>4, FatalInv
  <1>5. CASE Abort \/ Crash
    BY <1>1, <1>5, EndWithoutSaving DEF Abort, Crash
  <1>6. CASE Disconnect
    BY <1>1, <1>6 DEF Disconnect, Deployment
  <1>7. QED
    BY <1>1, <1>2, <1>3, <1>4, <1>5, <1>6 DEF Fault

LEMMA VerifierInv ==
    ASSUME TypeOK, PassInv, NEW id \in Ids, Verifier(id)
    PROVE  PassInv'
  <1>1. CASE RecheckBlue(id) \/ RecheckGreen(id)
    BY <1>1, CheckingInv DEF RecheckBlue, RecheckGreen, WorkerStep, disk, Checking
  <1>2. CASE RecheckFails(id)
    BY <1>2, EndWithoutSaving DEF RecheckFails
  <1>3. QED
    BY <1>1, <1>2 DEF Verifier

LEMMA PassStepInv == TypeOK /\ PassInv /\ Deployment /\ PassStep => PassInv'
  <1>1. SUFFICES ASSUME TypeOK, PassInv, Deployment, PassStep PROVE PassInv'
    OBVIOUS
  <1>2. CASE OpenWindow
    BY <1>1, <1>2, OpenWindowInv
  <1>3. ASSUME NEW s \in Sides, NEW id \in Ids, ScanRow(s, id) PROVE PassInv'
    BY <1>1, <1>3, ScanRowInv
  <1>4. CASE PlanDryRun \/ EndDrain
    BY <1>1, <1>4, EndWithoutSaving DEF PlanDryRun, EndDrain
  <1>5. CASE PlanEmpty
    BY <1>1, <1>5, PlanEmptyInv
  <1>6. CASE PlanApply
    BY <1>1, <1>6, PlanApplyInv
  <1>7. ASSUME NEW id \in Ids, Worker(id) PROVE PassInv'
    BY <1>1, <1>7, QuietWorkerInv, LandingInv DEF Worker
  <1>8. CASE StopSending
    BY <1>1, <1>8 DEF StopSending, PassInv, WindowInv
  <1>9. CASE ApplyDone
    BY <1>1, <1>9, ApplyDoneInv
  <1>10. CASE VerifyPlan
    BY <1>1, <1>10, CheckingInv DEF VerifyPlan, UserState, tables, disk, Checking
  <1>11. ASSUME NEW id \in Ids, Verifier(id) PROVE PassInv'
    BY <1>1, <1>11, VerifierInv
  <1>12. CASE Save
    BY <1>1, <1>12, SaveInv
  <1>13. QED
    BY <1>1, <1>2, <1>3, <1>4, <1>5, <1>6, <1>7, <1>8, <1>9, <1>10, <1>11, <1>12
    DEF PassStep

LEMMA NextInv == TypeOK /\ PassInv /\ Deployment /\ [Next]_vars => PassInv'
  <1>1. SUFFICES ASSUME TypeOK, PassInv, Deployment, [Next]_vars PROVE PassInv'
    OBVIOUS
  <1>2. CASE Tick
    BY <1>1, <1>2, TickInv
  <1>3. CASE User
    BY <1>1, <1>3, UserWriteInv, UserDeleteInv DEF User
  <1>4. CASE BeginFile
    BY <1>1, <1>4, BeginFileInv
  <1>5. CASE PassStep
    BY <1>1, <1>5, PassStepInv
  <1>6. CASE Fault
    BY <1>1, <1>6, FaultInv
  <1>7. CASE UNCHANGED vars
    <2>1. UNCHANGED <<clock, edits, mod, val, syncDeletes, safeThrough, deferredLog, pc,
                      opts, fileNow, window, unread, manifest, st, copy, endThrough, ctxDone>>
      BY <1>7 DEF vars, tables, disk, volatile
    <2>2. QED
      BY <1>1, <2>1
      DEF PassInv, ClockInv, WindowInv, ManifestInv, CopyInv, PlanInv, CoverInv,
          BootsInTime, Checking, Fetching, Applying, Exact, FreshOn, Fresh, Present,
          Deleted, In, Src, Settled, Covered, Excused, InSync, Tied, Floor
  <1>8. QED
    BY <1>1, <1>2, <1>3, <1>4, <1>5, <1>6, <1>7 DEF Next

\* The invariant, at every moment of every pass.
THEOREM PassInvariant == ASSUME Deployment PROVE Spec => []PassInv
  <1>1. Init => PassInv
    BY InitInv
  <1>2. TypeOK /\ PassInv /\ [Next]_vars => PassInv'
    BY NextInv
  <1>3. QED
    BY <1>1, <1>2, TypeCorrect, PTL DEF Spec

\* No silent miss, for every table, every number of workers, every skew and every
\* interleaving of the users with the pass, in a deployment that keeps to the rule
\* PassBudget + MaxLag <= Overlap, runs both ways, and is not cancelled.
THEOREM NoMissInDeployment == ASSUME Deployment PROVE Spec => []NoSilentMiss
  <1>1. TypeOK /\ PassInv => NoSilentMiss
    <2>1. SUFFICES ASSUME TypeOK, PassInv, NEW id \in Ids
                   PROVE  \/ InSync(id) \/ Tied(id) \/ Reached(id)
                          \/ Deleted(id) \/ id \in deferredLog
      BY DEF NoSilentMiss
    <2>2. CASE Excused(id)
      BY <2>2 DEF Excused
    <2>3. CASE \E s \in Sides : Present(s, id) /\ mod[s][id] >= Floor
      <3>1. NextStart \in Int /\ Floor \in Int /\ NextStart <= Floor
        BY <2>1, TimesAssumption
        DEF PassInv, ClockInv, BootsInTime, NextStart, Floor, TypeOK, Stamps, SeedClock
      <3>2. PICK s \in Sides : Present(s, id) /\ mod[s][id] >= Floor
        BY <2>3
      <3>3. mod[s][id] \in Int
        BY <2>1, <3>2 DEF TypeOK, Stamps, Present
      <3>4. QED
        BY <3>1, <3>2, <3>3 DEF Reached
    <2>4. QED
      BY <2>1, <2>2, <2>3 DEF PassInv, CoverInv, Covered
  <1>2. QED
    BY <1>1, TypeCorrect, PassInvariant, PTL
=============================================================================
