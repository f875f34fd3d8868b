------------------------------- MODULE TablePass -------------------------------
(***************************************************************************)
(* One table replicated by FreeSync: the two FileMaker copies, the users   *)
(* who edit them, and the passes runFileGroup (internal/run/sync.go) makes *)
(* over the table, one after the other for ever.                           *)
(*                                                                         *)
(* A pass fixes its window when the file is started, reads the manifests   *)
(* of both copies row by row, plans, copies the rows of the plan with a    *)
(* pool of workers, optionally verifies, and advances the checkpoint.      *)
(* Users edit between any two of these steps.  One action is one request   *)
(* to a server, or one step of the program between two requests.           *)
(*                                                                         *)
(* The contents of a row are abstracted to the number of the user          *)
(* operation that wrote them (val); the modification time is the stamp the *)
(* server gives (mod).  Times are seconds of FreeSync's own clock; a       *)
(* server's clock is Lag[s] seconds behind it.                             *)
(*                                                                         *)
(* Not here: the retry loops inside one request (one Defer or Fatal stands *)
(* for the attempts that ran out, one LoseReply for the attempts that      *)
(* landed unseen), writes that land after the program has given the        *)
(* request up (RecordWriter has them), batches (a batch only delays later  *)
(* operations), paging, and the other tables of the file (they are the     *)
(* time that may pass between BeginFile and OpenWindow).                   *)
(***************************************************************************)
EXTENDS SyncDomain, FiniteSets

CONSTANTS
    Overlap,      \* overlapMinutes: how far a window reaches behind the checkpoint
    Lookback,     \* initialLookback: the window of a table without a checkpoint
    Lag,          \* Lag[s]: seconds the clock of server s is behind ours
    MaxLag,       \* a bound on Lag
    PassBudget,   \* bound on the seconds from the start of a file to the end of apply
    VerifyStrict, \* verifyMode "strict"
    MaxWorkers,   \* applyWorkers
    RunOptions,   \* the [apply, oneWay] a pass may be started with
    Faults,       \* which of FaultKinds may happen
    MaxClock,     \* bound on the clock, for model checking
    MaxEdits      \* bound on the user operations, for model checking

FaultKinds == {"lock", "read", "fatal", "lostreply", "crash", "disconnect",
               "delete", "logfail"}
SeedClock == 1
NoCopy == [mod |-> NoTime, val |-> 0]

ASSUME TimesAssumption ==
    /\ NoTime \notin Int
    /\ {Overlap, Lookback, MaxLag, PassBudget} \subseteq Nat
    /\ Lag \in [Sides -> Int]
    /\ \A s \in Sides : Lag[s] <= MaxLag

ASSUME OptionsAssumption ==
    /\ RunOptions \subseteq [apply : BOOLEAN, oneWay : OneWayModes]
    /\ Faults \subseteq FaultKinds
    /\ VerifyStrict \in BOOLEAN
    /\ {MaxWorkers, MaxClock, MaxEdits} \subseteq Nat

VARIABLES
    clock,        \* FreeSync's clock
    edits,        \* number of user operations so far
    mod, val,     \* the two tables: stamp and contents of row id on side s
    syncDeletes,  \* syncDeletes[id]: DeletedAt of the last deletion, NoTime if none
    safeThrough,  \* the saved checkpoint of the table, NoTime when there is none
    deferredLog,  \* ids appended to the .deferred.jsonl file
    pc,           \* where the pass is
    opts,         \* how it was started
    fileNow,      \* "now" of runFileGroup, taken once for the whole file
    began,        \* how many user operations there were then; for properties only
    window,       \* the window of the table
    unread,       \* unread[s]: ids the manifest fetch of side s has still to read
    manifest,     \* manifest[s][id]: the stamp read, NoTime when not in the window
    st,           \* st[id]: how far the operation of the plan on id is
    copy,         \* copy[id]: the row a worker (or the verifier) read
    endThrough,   \* the checkpoint the pass will save
    ctxDone       \* the context of the run was cancelled

tables == <<mod, val, syncDeletes>>
disk == <<safeThrough, deferredLog>>
volatile == <<opts, fileNow, began, window, unread, manifest, st, copy, endThrough, ctxDone>>
vars == <<clock, edits, tables, disk, pc, volatile>>

OpState == {"none", "todo", "got", "resent", "post", "done", "skipped",
            "deferred", "unsent"}
PcState == {"idle", "load", "fetch", "apply", "drain", "verify", "recheck", "save"}
EmptyManifest == [s \in Sides |-> [id \in Ids |-> NoTime]]
AllUnread == [s \in Sides |-> Ids]

In(states) == {id \in Ids : st[id] \in states}
InFlight == In({"got", "resent", "post"})
Stamp(s) == clock - Lag[s]          \* the time server s would give a write now
Present(s, id) == mod[s][id] # NoTime
Deleted(id) == syncDeletes[id] # NoTime
\* Where the next pass would start its window.
NextStart == IF safeThrough = NoTime THEN clock - Lookback ELSE safeThrough - Overlap
-----------------------------------------------------------------------------
\* Two copies of the same file: equal contents, whatever their stamps.
Init ==
    /\ clock = SeedClock
    /\ edits = 0
    /\ mod \in [Sides -> [Ids -> {0, NoTime}]]
    /\ \A id \in Ids : (mod["blue"][id] = NoTime) <=> (mod["green"][id] = NoTime)
    /\ val = [s \in Sides |-> [id \in Ids |-> 0]]
    /\ syncDeletes = [id \in Ids |-> NoTime]
    /\ safeThrough \in {NoTime, SeedClock}
    /\ deferredLog = {}
    /\ pc = "idle"
    /\ opts = [apply |-> FALSE, oneWay |-> "both"]
    /\ fileNow = SeedClock
    /\ began = 0
    /\ window = [start |-> SeedClock, end |-> SeedClock]
    /\ unread = AllUnread
    /\ manifest = EmptyManifest
    /\ st = [id \in Ids |-> "none"]
    /\ copy = [id \in Ids |-> NoCopy]
    /\ endThrough = SeedClock
    /\ ctxDone = FALSE
-----------------------------------------------------------------------------
(* Time and users.                                                         *)

\* The assumptions on timing: apply ends within PassBudget of the start of the
\* file, and the first pass that saves a checkpoint comes while the initial
\* lookback still reaches back to the seeding of the two copies.
InBudget(t) == pc \in {"load", "fetch", "apply", "drain"} => t <= fileNow + PassBudget
BootsInTime(t) == safeThrough = NoTime => t - Lookback <= SeedClock - MaxLag

Tick ==
    /\ clock < MaxClock
    /\ InBudget(clock + 1)
    /\ BootsInTime(clock + 1)
    /\ clock' = clock + 1
    /\ UNCHANGED <<edits, tables, disk, pc, volatile>>

Write(s, id, t, v) ==
    /\ mod' = [mod EXCEPT ![s][id] = t]
    /\ val' = [val EXCEPT ![s][id] = v]

Edit(s, id) ==
    /\ edits < MaxEdits
    /\ Present(s, id)
    /\ edits' = edits + 1
    /\ Write(s, id, Stamp(s), edits + 1)
    /\ UNCHANGED <<clock, syncDeletes, disk, pc, volatile>>

\* Primary keys are UUIDs: a user never creates an id a second time.
Create(s, id) ==
    /\ edits < MaxEdits
    /\ \A r \in Sides : ~Present(r, id)
    /\ ~Deleted(id)
    /\ edits' = edits + 1
    /\ Write(s, id, Stamp(s), edits + 1)
    /\ UNCHANGED <<clock, syncDeletes, disk, pc, volatile>>

\* The OnRecordDelete script of the file records the deletion in SyncDeletes.
Delete(s, id) ==
    /\ "delete" \in Faults
    /\ edits < MaxEdits
    /\ Present(s, id)
    /\ edits' = edits + 1
    /\ Write(s, id, NoTime, 0)
    /\ syncDeletes' = [syncDeletes EXCEPT ![id] = Stamp(s)]
    /\ UNCHANGED <<clock, disk, pc, volatile>>

User == \E s \in Sides, id \in Ids : Edit(s, id) \/ Create(s, id) \/ Delete(s, id)
-----------------------------------------------------------------------------
(* The pass: opening it, its window and its manifests.                     *)

UserState == <<clock, edits, tables>>

\* The pass is over, by a return, an error or a crash: only the disk is left.
EndPass ==
    /\ pc' = "idle"
    /\ opts' = [apply |-> FALSE, oneWay |-> "both"]
    /\ fileNow' = SeedClock
    /\ began' = 0
    /\ window' = [start |-> SeedClock, end |-> SeedClock]
    /\ unread' = AllUnread
    /\ manifest' = EmptyManifest
    /\ st' = [id \in Ids |-> "none"]
    /\ copy' = [id \in Ids |-> NoCopy]
    /\ endThrough' = SeedClock
    /\ ctxDone' = FALSE

BeginFile ==
    /\ pc = "idle"
    /\ pc' = "load"
    /\ fileNow' = clock
    /\ began' = edits
    /\ opts' \in RunOptions
    /\ UNCHANGED <<UserState, disk, window, unread, manifest, st, copy, endThrough, ctxDone>>

\* bootstrapMode "fixed" when there is no checkpoint.
OpenWindow ==
    /\ pc = "load"
    /\ pc' = "fetch"
    /\ window' = IF safeThrough = NoTime
                 THEN [start |-> fileNow - Lookback, end |-> fileNow]
                 ELSE ComputeSyncWindow(safeThrough, Overlap, fileNow)
    /\ UNCHANGED <<UserState, disk, opts, fileNow, began, unread, manifest, st, copy, endThrough, ctxDone>>

\* The verifying fetch reaches up to endThrough, and reads blue before green.
FetchWindow == [window EXCEPT !.end = IF pc = "verify" THEN endThrough ELSE window.end]

ScanRow(s, id) ==
    /\ pc \in {"fetch", "verify"}
    /\ ~ctxDone
    /\ id \in unread[s]
    /\ pc = "verify" /\ s = "green" => unread["blue"] = {}
    /\ unread' = [unread EXCEPT ![s] = @ \ {id}]
    /\ manifest' = [manifest EXCEPT ![s][id] =
                      IF InWindow(mod[s][id], FetchWindow) THEN mod[s][id] ELSE NoTime]
    /\ UNCHANGED <<UserState, disk, pc, opts, fileNow, began, window, st, copy, endThrough, ctxDone>>

Scanned == \A s \in Sides : unread[s] = {}

\* Faulty: the direction filter is forgotten.
PlanBothWays == BuildPlan(manifest["blue"], manifest["green"], {})

\* The delete journal is not wired: runFileGroup plans with a nil journal.
Plan == FilterPlanOneWay(BuildPlan(manifest["blue"], manifest["green"], {}), opts.oneWay)
Planned == {op.id : op \in Plan}

\* The source and the target of the operation on id.
Src(id) == IF Newer(manifest["blue"][id], manifest["green"][id]) THEN "blue" ELSE "green"
Dst(id) == Other(Src(id))

PlanDryRun ==
    /\ pc = "fetch" /\ Scanned
    /\ Planned # {}
    /\ ~opts.apply
    /\ EndPass
    /\ UNCHANGED <<UserState, disk>>

\* An empty plan advances the checkpoint, in a dry run too.
PlanEmpty ==
    /\ pc = "fetch" /\ Scanned
    /\ Planned = {}
    /\ safeThrough' = window.end
    /\ EndPass
    /\ UNCHANGED <<UserState, deferredLog>>

PlanApply ==
    /\ pc = "fetch" /\ Scanned
    /\ Planned # {}
    /\ opts.apply
    /\ pc' = "apply"
    /\ st' = [id \in Ids |-> IF id \in Planned THEN "todo" ELSE "none"]
    /\ UNCHANGED <<UserState, disk, opts, fileNow, began, window, unread, manifest, copy, endThrough, ctxDone>>
-----------------------------------------------------------------------------
(* The pass: applying the plan with MaxWorkers workers.                    *)

WorkerFree == Cardinality(InFlight) < MaxWorkers

\* Everything a step of a worker on id leaves alone; it moves st[id] to state.
WorkerStep(id, state) ==
    /\ st' = [st EXCEPT ![id] = state]
    /\ UNCHANGED <<clock, edits, syncDeletes, disk, opts, fileNow, began, window,
                   unread, manifest, endThrough, ctxDone>>

Running == pc = "apply" /\ ~ctxDone

GetSource(id) ==
    /\ Running /\ WorkerFree
    /\ st[id] = "todo"
    /\ Present(Src(id), id)
    /\ copy' = [copy EXCEPT ![id] = [mod |-> mod[Src(id)][id], val |-> val[Src(id)][id]]]
    /\ WorkerStep(id, "got")
    /\ UNCHANGED <<mod, val, pc>>

\* The source answers 404: the operation is dropped without an error.
SourceGone(id) ==
    /\ Running /\ WorkerFree
    /\ st[id] = "todo"
    /\ ~Present(Src(id), id)
    /\ WorkerStep(id, "skipped")
    /\ UNCHANGED <<mod, val, pc, copy>>

\* The PATCH leaves out the modification field: the server stamps the row.
PatchLands(id) ==
    /\ Present(Dst(id), id)
    /\ Write(Dst(id), id, Stamp(Dst(id)), copy[id].val)

\* The POST carries the modification field: the server keeps it, or stamps.
PostLands(id) ==
    /\ ~Present(Dst(id), id)
    /\ \E t \in {Stamp(Dst(id)), copy[id].mod} : Write(Dst(id), id, t, copy[id].val)

\* A request sent again after its reply was lost finds the row it wrote; for a
\* POST sent again, this stands for the second record of the same primary key.
PatchDest(id) ==
    /\ Running
    /\ st[id] \in {"got", "resent"}
    /\ PatchLands(id)
    /\ copy' = [copy EXCEPT ![id] = NoCopy]
    /\ WorkerStep(id, "done")
    /\ UNCHANGED pc

PatchMissing(id) ==
    /\ Running
    /\ st[id] \in {"got", "resent"}
    /\ ~Present(Dst(id), id)
    /\ WorkerStep(id, "post")
    /\ UNCHANGED <<mod, val, pc, copy>>

PostDest(id) ==
    /\ Running
    /\ st[id] = "post"
    /\ PostLands(id)
    /\ copy' = [copy EXCEPT ![id] = NoCopy]
    /\ WorkerStep(id, "done")
    /\ UNCHANGED pc

\* The server carries the request out, the program does not learn of it: a lost
\* reply, or a request in flight when the context is cancelled.
LoseReply(id) ==
    /\ pc \in {"apply", "drain"}
    /\ "lostreply" \in Faults \/ pc = "drain" \/ ctxDone
    /\ \/ st[id] = "got" /\ PatchLands(id)
       \/ st[id] = "post" /\ PostLands(id)
    /\ WorkerStep(id, "resent")
    /\ UNCHANGED <<pc, copy>>

\* Faulty: exhausted attempts are logged and forgotten.
DeferSilently(id) ==
    /\ Running
    /\ \/ "lock" \in Faults /\ st[id] \in {"got", "resent"} /\ Present(Dst(id), id)
       \/ "lock" \in Faults /\ st[id] = "post"
       \/ "read" \in Faults /\ st[id] = "todo" /\ WorkerFree
    /\ copy' = [copy EXCEPT ![id] = NoCopy]
    /\ WorkerStep(id, "skipped")
    /\ UNCHANGED <<mod, val, pc>>

\* The attempts against a locked target, or a source that cannot be read, ran out.
Defer(id) ==
    /\ Running
    /\ \/ "lock" \in Faults /\ st[id] \in {"got", "resent"} /\ Present(Dst(id), id)
       \/ "lock" \in Faults /\ st[id] = "post"
       \/ "read" \in Faults /\ st[id] = "todo" /\ WorkerFree
    /\ copy' = [copy EXCEPT ![id] = NoCopy]
    /\ WorkerStep(id, "deferred")
    /\ UNCHANGED <<mod, val, pc>>

\* Faulty: any error of a worker only skips its operation.
FatalAsSkip(id) ==
    /\ pc = "apply"
    /\ "fatal" \in Faults \/ ctxDone
    /\ \/ st[id] \in {"got", "resent", "post"}
       \/ st[id] = "todo" /\ WorkerFree
    /\ copy' = [copy EXCEPT ![id] = NoCopy]
    /\ WorkerStep(id, "skipped")
    /\ UNCHANGED <<mod, val, pc>>

\* Any other error of a worker cancels the others.
Fatal(id) ==
    /\ pc = "apply"
    /\ "fatal" \in Faults \/ ctxDone
    /\ \/ st[id] \in {"got", "resent", "post"}
       \/ st[id] = "todo" /\ WorkerFree
    /\ pc' = "drain"
    /\ UNCHANGED <<UserState, disk, volatile>>

\* Faulty: the failed batch waits until its last operation was sent.
EndDrainWhenSent ==
    /\ pc = "drain" /\ In({"todo"}) = {}
    /\ EndPass
    /\ UNCHANGED <<UserState, disk>>

\* The workers have returned: applyPlan reports the error, the table fails.
EndDrain ==
    /\ pc = "drain"
    /\ EndPass
    /\ UNCHANGED <<UserState, disk>>

\* sendLoop sees the cancelled context and stops sending, which is no error.
StopSending ==
    /\ pc = "apply" /\ ctxDone
    /\ In({"todo"}) # {}
    /\ st' = [id \in Ids |-> IF st[id] = "todo" THEN "unsent" ELSE st[id]]
    /\ UNCHANGED <<UserState, disk, pc, opts, fileNow, began, window, unread, manifest, copy,
                   endThrough, ctxDone>>

\* Faulty: the checkpoint is taken from the wrong end of the window.
ApplyDoneFromStart ==
    /\ pc = "apply"
    /\ In({"todo", "got", "resent", "post"}) = {}
    /\ \/ deferredLog' = deferredLog \cup In({"deferred"})
       \/ "logfail" \in Faults /\ deferredLog' = deferredLog
    /\ endThrough' = window.start
    /\ pc' = IF VerifyStrict /\ In({"deferred"}) = {} THEN "verify" ELSE "save"
    /\ st' = [id \in Ids |-> "none"]
    /\ unread' = AllUnread
    /\ manifest' = EmptyManifest
    /\ UNCHANGED <<UserState, safeThrough, opts, fileNow, began, window, copy, ctxDone>>

\* applyPlan returned nil for every batch.  Failing to log the deferred
\* operations is a warning.  Strict verification is skipped if there are any.
ApplyDone ==
    /\ pc = "apply"
    /\ In({"todo", "got", "resent", "post"}) = {}
    /\ \/ deferredLog' = deferredLog \cup In({"deferred"})
       \/ "logfail" \in Faults /\ deferredLog' = deferredLog
    /\ endThrough' = clock
    /\ pc' = IF VerifyStrict /\ In({"deferred"}) = {} THEN "verify" ELSE "save"
    /\ st' = [id \in Ids |-> "none"]
    /\ unread' = AllUnread
    /\ manifest' = EmptyManifest
    /\ UNCHANGED <<UserState, safeThrough, opts, fileNow, began, window, copy, ctxDone>>
-----------------------------------------------------------------------------
(* The pass: verifying and saving.                                         *)

VerifyPlan ==
    /\ pc = "verify" /\ Scanned
    /\ pc' = "recheck"
    /\ st' = [id \in Ids |-> IF id \in Planned THEN "todo" ELSE "none"]
    /\ UNCHANGED <<UserState, disk, opts, fileNow, began, window, unread, manifest, copy,
                   endThrough, ctxDone>>

\* verifyReplicaFields takes the ids of the second plan one at a time.
RecheckBlue(id) ==
    /\ pc = "recheck" /\ ~ctxDone
    /\ st[id] = "todo" /\ In({"got"}) = {}
    /\ Present("blue", id)
    /\ copy' = [copy EXCEPT ![id] = [mod |-> mod["blue"][id], val |-> val["blue"][id]]]
    /\ WorkerStep(id, "got")
    /\ UNCHANGED <<mod, val, pc>>

\* Faulty: the fields are not compared.
RecheckAnyGreen(id) ==
    /\ pc = "recheck" /\ ~ctxDone
    /\ st[id] = "got"
    /\ Present("green", id)
    /\ copy' = [copy EXCEPT ![id] = NoCopy]
    /\ WorkerStep(id, "done")
    /\ UNCHANGED <<mod, val, pc>>

RecheckGreen(id) ==
    /\ pc = "recheck" /\ ~ctxDone
    /\ st[id] = "got"
    /\ Present("green", id)
    /\ val["green"][id] = copy[id].val
    /\ copy' = [copy EXCEPT ![id] = NoCopy]
    /\ WorkerStep(id, "done")
    /\ UNCHANGED <<mod, val, pc>>

RecheckFails(id) ==
    /\ pc = "recheck" /\ ~ctxDone
    /\ \/ st[id] = "todo" /\ In({"got"}) = {} /\ ~Present("blue", id)
       \/ st[id] = "got" /\ ~(Present("green", id) /\ val["green"][id] = copy[id].val)
    /\ EndPass
    /\ UNCHANGED <<UserState, disk>>

Save ==
    /\ pc = "save" \/ (pc = "recheck" /\ In({"todo", "got"}) = {})
    /\ safeThrough' = endThrough
    /\ EndPass
    /\ UNCHANGED <<UserState, deferredLog>>
-----------------------------------------------------------------------------
(* What may go wrong around the pass.                                      *)

\* An error return of runFileGroup outside applyPlan.
Abort ==
    /\ "fatal" \in Faults \/ ctxDone
    /\ \/ pc \in {"load", "fetch", "verify", "recheck", "save"}
       \/ pc = "apply" /\ In({"todo"}) = Planned
    /\ EndPass
    /\ UNCHANGED <<UserState, disk>>

Crash ==
    /\ "crash" \in Faults
    /\ pc # "idle"
    /\ EndPass
    /\ UNCHANGED <<UserState, disk>>

\* The HTTP client that asked for the run went away: r.Context() is cancelled.
Disconnect ==
    /\ "disconnect" \in Faults
    /\ pc # "idle" /\ ~ctxDone
    /\ ctxDone' = TRUE
    /\ UNCHANGED <<UserState, disk, pc, opts, fileNow, began, window, unread, manifest, st, copy,
                   endThrough>>
-----------------------------------------------------------------------------
Worker(id) ==
    \/ GetSource(id) \/ SourceGone(id)
    \/ PatchDest(id) \/ PatchMissing(id) \/ PostDest(id)

Verifier(id) == RecheckBlue(id) \/ RecheckGreen(id) \/ RecheckFails(id)

\* The steps the program takes by itself once it was started.
PassStep ==
    \/ OpenWindow
    \/ \E s \in Sides, id \in Ids : ScanRow(s, id)
    \/ PlanDryRun \/ PlanEmpty \/ PlanApply
    \/ \E id \in Ids : Worker(id)
    \/ EndDrain \/ StopSending \/ ApplyDone
    \/ VerifyPlan
    \/ \E id \in Ids : Verifier(id)
    \/ Save

Fault ==
    \/ \E id \in Ids : LoseReply(id) \/ Defer(id) \/ Fatal(id)
    \/ Abort \/ Crash \/ Disconnect

Next == Tick \/ User \/ BeginFile \/ PassStep \/ Fault

Spec == Init /\ [][Next]_vars

\* What a cancelled context leads to without any further fault.
CancelledStep == ctxDone /\ (Abort \/ \E id \in Ids : Fatal(id))

\* The scheduler starts pass after pass, and the program and the servers go on
\* with a pass that was started.  Users, the clock and faults owe nothing.
Fairness == WF_vars(BeginFile) /\ WF_vars(PassStep) /\ WF_vars(CancelledStep)

FairSpec == Spec /\ Fairness
-----------------------------------------------------------------------------
(* Correctness.                                                            *)

Stamps == Int \cup {NoTime}
RowCopy == [mod : Stamps, val : Nat]

\* Every variable has its type; a stamp is a time or NoTime.
TypeOK ==
    /\ clock \in Nat /\ edits \in Nat
    /\ mod \in [Sides -> [Ids -> Stamps]]
    /\ val \in [Sides -> [Ids -> Nat]]
    /\ syncDeletes \in [Ids -> Stamps]
    /\ safeThrough \in Stamps
    /\ deferredLog \subseteq Ids
    /\ pc \in PcState
    /\ opts \in [apply : BOOLEAN, oneWay : OneWayModes]
    /\ fileNow \in Nat /\ began \in Nat
    /\ window \in [start : Int, end : Int]
    /\ unread \in [Sides -> SUBSET Ids]
    /\ manifest \in [Sides -> [Ids -> Stamps]]
    /\ st \in [Ids -> OpState]
    /\ copy \in [Ids -> RowCopy]
    /\ endThrough \in Nat
    /\ ctxDone \in BOOLEAN

InSync(id) ==
    /\ Present("blue", id) <=> Present("green", id)
    /\ Present("blue", id) => val["blue"][id] = val["green"][id]

\* Two different rows with one stamp: last-write-wins has no winner.
Tied(id) == Present("blue", id) /\ mod["blue"][id] = mod["green"][id]

\* The next pass would see a copy of the row.
Reached(id) == \E s \in Sides : Present(s, id) /\ mod[s][id] >= NextStart

\* No silent miss: a row that differs between the two copies is still ahead of
\* the checkpoint, so that the next window has one of its copies, unless its
\* operation was handed to the deferred log.  (The checkpoint rule of
\* runFileGroup, lines 222-340: the overlap must cover the pass and the skew.)
NoSilentMiss ==
    \A id \in Ids :
        InSync(id) \/ Tied(id) \/ Reached(id) \/ Deleted(id) \/ id \in deferredLog

\* The same without the excuse: a deferred operation is not retried by anything
\* but the window ("no missed updates (overlap + verification)", SPEC.md:308).
NoMissedUpdate ==
    \A id \in Ids : InSync(id) \/ Tied(id) \/ Reached(id) \/ Deleted(id)

Missed(id) == ~(InSync(id) \/ Tied(id) \/ Reached(id) \/ Deleted(id))

\* The newer copy of the row is on the side a one-way run writes to.
OutOfMode(id) ==
    \/ opts.oneWay = "to-blue" /\ Newer(mod["blue"][id], mod["green"][id])
    \/ opts.oneWay = "to-green" /\ Newer(mod["green"][id], mod["blue"][id])

\* A checkpoint that was verified, or had nothing to verify, leaves no row behind
\* that the one before did not, however long the pass took and whatever failed
\* in it, except that a one-way run leaves the rows of the other direction.
\* (runFileGroup, lines 241-248 and 299-344.)
VerifiedPassKeepsUp ==
    [][safeThrough' # safeThrough /\ pc \in {"fetch", "recheck"} =>
          \A id \in Ids : Missed(id)' => Missed(id) \/ OutOfMode(id)]_vars

\* A step of the program, not of a user, changed row id on side s.
SyncWrites(s, id) ==
    edits' = edits /\ <<mod'[s][id], val'[s][id]>> # <<mod[s][id], val[s][id]>>

\* No server's clock is ahead of FreeSync's.  The rows of a server that is ahead may
\* be stamped past the end of a window that starts after they were written.
NoClockAhead == \A s \in Sides : Lag[s] >= 0

\* What a user wrote before a pass began is safe from the pass unless the stamps
\* say that it is older than the copy the pass replaces it with ("latest timestamp
\* wins", SPEC.md:113): a row the manifests show as newer, or do not show at all,
\* is never written over, however long ago they were read, and although a copy
\* lands without a look at the row it replaces (sync.go:758).  A row users wrote
\* since the pass began has no such protection, and with a clock ahead none has.
OverwritesOnlyOlder ==
    [][\A s \in Sides, id \in Ids : NoClockAhead /\ SyncWrites(s, id) =>
          \/ ~Present(s, id) \/ val'[s][id] = val[s][id]
          \/ mod[s][id] < manifest[Other(s)][id]
          \/ val[s][id] > began]_vars

\* A dry run writes no row, a one-way run only the side it names.
WritesOnlyWhereAsked ==
    [][\A s \in Sides, id \in Ids : SyncWrites(s, id) =>
          /\ opts.apply
          /\ opts.oneWay = "to-blue" => s = "blue"
          /\ opts.oneWay = "to-green" => s = "green"]_vars

\* A pass never runs for ever, whatever fails in it.
PassEnds == pc # "idle" ~> pc = "idle"

\* When users leave the table alone, the two copies become equal and stay so.
Converges == <>[](\A id \in Ids : InSync(id) \/ Tied(id))
=============================================================================
