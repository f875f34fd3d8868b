# FreeSync: a model of the sync engine

FreeSync keeps two FileMaker servers, *blue* and *green*, equal. It has no change feed: every
pass asks both servers which rows were modified in a window of time, compares the modification
stamps, copies the newer row over the older one through OData, and saves how far it got (the
*checkpoint*, `safeThrough`) so that the next window can be short. Everything that can be lost is
lost through the checkpoint: a row that differs and lies behind it is never looked at again.

These modules model the engine (`internal/run`, `internal/domain`, `internal/state`, the manifests,
records and schemas of `internal/odata`, and the server and command of `cmd/freesync`), check it with
TLC, and prove with TLAPS every safety property of the runs, the checkpoint rule first. Line numbers refer to the files under `src/`.

## 1. The system

| component | state it keeps | operations | talks to |
|---|---|---|---|
| planner (`internal/domain`) | none | `BuildPlan`, `CompareModification`, `ComputeSyncWindow`, `filterPlanOneWay` | called by the table pass |
| table pass (`runFileGroup`) | window, manifests, plan, deferred operations of one table | open the window, fetch, plan, apply, verify, save | servers, planner, pool, checkpoint store, deferred log |
| apply pool (`applyPlan`) | jobs channel, error channel, workers, deferred slice of a batch | send, work, report, cancel, wait | servers; its context comes from the trigger |
| strict verifier | second manifests and plan | fetch again, compare rows field by field | servers |
| bootstrap search (`bootstrap.go`) | the interval | probe, halve, fall back | servers |
| checkpoint store (`internal/state`) | one JSON document on disk | load, merge, write a temporary file, rename | shared by every table, file and process of a state path |
| deferred log | a `.jsonl` file | append | nothing reads it |
| trigger (`serve`, `/run`) | the `running` flag | acquire, run, reply, release | `Once`, which loops over files and tables |
| manifest pager (`manifest.go`) | rows so far, cursor or link | ask for a page, go on | servers; called by the table pass and the verifier |
| record access and retries (`client.go`, `record.go`, `sync.go`) | attempt counters of one operation | GET, PATCH, look up, POST, retry | servers; called by the workers |
| schema and field allowlist (`metadata.go`, `sync.go`) | the allowlist of a table | ask both servers, intersect | servers; used by every write of the table |
| run command, table discovery | none between runs | start a run, list the tables of both servers | the state file, beside the server |
| configuration | none between runs | parse, validate | files |
| FileMaker servers (external) | rows with stamps, `SyncDeletes` | user edits, OData requests | users |

What is hard about it:

* **Nothing is atomic.** Users edit both tables between any two requests of a pass: while the
  manifests are read, after a worker read the source, before it patches the target.
* **Three clocks.** Windows and checkpoints come from FreeSync's clock, stamps from two servers'.
* **Partial failure.** A locked row is given up, a batch fails, a file fails, the caller goes away,
  the process dies; whatever happened, the checkpoint must not promise more than was done.
* **Unreliable requests.** Three retry loops in one another; a write may be done, not done, or done
  later when its answer does not come; pages of one manifest are read while rows move.
* **Concurrency.** A worker pool with one error slot and a shared cancellation; concurrent HTTP
  requests; a command and a server that share a state file.

What makes each component correct: the planner computes the last-write-wins merge and never moves a
row backwards, even on partial manifests; a pass never leaves a differing row behind the checkpoint
and overwrites only rows it may; the pool reports the first error, loses no operation and never
hangs; the search never narrows onto nothing; the store never loses, tears or moves back a
checkpoint; the trigger runs one pass at a time, always releases the flag and says ok only when every
table went through (with deferred operations or without); the pager skips no row; a worker says "copied"
only of a row it wrote with every field it is allowed, and creates none twice; a field both tables store is
left out only where a server describes it otherwise. `PROJECT.json` lists the hazards line by line with the properties that guard them.

## 2. Modules

| module | models | its actions and the code |
|---|---|---|
| `SyncDomain` | the planner, as operators | `BuildPlan` yields the set of operations of `plan.go:47-101`; the order of the list is left out |
| `LwwMerge` | what the plan of one pass asks for, on tables at rest, with a delete journal | `Pass` = windowed manifests, plan, filter, and its operations done: the versions of the rows (`rows`) are copied, their stamps (`stamps`) are whatever the server gives. The program refuses delete operations (801), so for those it is only what the planner asks for |
| `TablePass` | one table under `runFileGroup`, with users, clocks and faults | see below |
| `TablePassInv` | the inductive invariants of `TablePass`, `PassInv`, `SightInv` and `EditInv`, and the deployments they need | |
| `ApplyContract` | what `applyPlan`, called batch after batch, promises | `Take`, `Settle`, `Cancel`, `Succeed`, `Fail` |
| `ApplyPool` | the goroutines of `applyPlan` and the batch loop around it | `Send`/`CloseJobs` are `sendLoop`, `Settle` is `work`, `Report` and `CancelOthers` are lines 845-850, `Return...` what follows `wg.Wait()` |
| `Bootstrap` | `findDivergenceBoundaryBinary` and its probe | one action per head read and per branch |
| `CheckpointStore` | `LoadSafeThrough`, `SaveSafeThrough` of several processes, and the times they save | one action per system call; `BeginGroup` (165) and `Applied` (296) read the clock for the saves to come; it has no `Next` of its own |
| `RunService` | the handler of `POST /run`, the `run` command, table discovery, and the loops of `Once` and `runFileGroup`, composed with `CheckpointStore` | one action per return of the handler, per start of a file (`BeginFile`, `FileFails`), per start and end of a table, and per step of a save |
| `ManifestPager` | `FetchManifestWithProgress`, `manifestCursor` | one action per page and way to go on (`FollowLink`, `NextByCursor`, `NoCursor`, `LastPage`, `PageFails`), and per user operation |
| `FieldSchema` | the two sources of the schema of a table and `buildSyncFieldAllowlist`, as operators | the JSON of one is the `FieldClass` of a field, the XML of the other its annotation, independent of each other and of what the field is; a row of `FileMaker_Fields` may be past the one page that is read |
| `RowContract` | what `applyPlan` expects of the copy of one row | `Prepare`, `Read`, `Land`, `Lose`, `Skip`, `Defer`, `Fail` |
| `RecordWriter` | `work` for one operation, with `getRecordForID`, `patchRecordForID`, `retryRecordLock`, `doRequest` | one action per kind of answer to the request the worker is at |
| `MC...` | the values the runs give to the constants | |
| `TablePass_proofs`, `TablePassInv_proofs`, `LwwMerge_proofs`, `ApplyPool_proofs`, `Bootstrap_proofs`, `RunService_proofs`, `ManifestPager_proofs`, `RecordWriter_proofs` | the inductive invariants, lemmas and theorems of section 5 | |

`TablePass` extends `SyncDomain` and plans with its `BuildPlan`; `Bootstrap` and `LwwMerge` do too.
`ApplyPool` implements `ApplyContract` (`INSTANCE ... WITH` the refinement mapping of its last lines).
`RecordWriter` extends `FieldSchema` and implements `RowContract` in the same way; `RunService` instantiates
`CheckpointStore` with its runs as the processes.
`TablePass` takes from the other modules what they show: one run at a time (`RunService`), a save
that is all or nothing (`CheckpointStore`), a batch that ends before the next starts (`ApplyPool`), a
manifest that has every row with a stamp it had during the fetch (`ManifestPager`), and an operation that
ends as copied, skipped, deferred or failed, with the row written whole, or with a lost answer
(`RecordWriter`).

**TablePass.** The tables are `mod[s][id]`, the stamp, and `val[s][id]`, the contents, abstracted to
the number of the user operation that wrote them; so "the copies are equal" is an equality of
numbers and "a newer edit" an order on them. One action is one request or one local step:

* `BeginFile` (165: `now`), `OpenWindow` (178-220), `ScanRow` (a row of a manifest; the two servers
  are read concurrently, row by row, which covers pages and rows that move between them),
  `PlanDryRun`/`PlanEmpty`/`PlanApply` (230-276);
* per operation `GetSource`, `SourceGone`, `PatchDest`, `PatchMissing`, `PostDest` (741-805), with at most
  `MaxWorkers` under way. A PATCH carries no modification field, so the server stamps the row; a POST
  carries it, and the server keeps it or stamps;
* `Defer` (retries ran out), `LoseReply` (the server did it, the program does not know), `Fatal` then
  `EndDrain` (an error: the others are cancelled, the table fails), `StopSending` (cancelled context);
* `ApplyDone` (280-297: the checkpoint will be `time.Now()`), `VerifyPlan`, `Recheck...` (299-339), `Save`;
* `Abort` (an error return elsewhere), `Crash`, `Disconnect` (the client of `/run` goes away).

## 3. Runs

| run | question | instance |
|---|---|---|
| `MCLwwMerge` | does the planner, on windowed manifests, ask for the merge, and does the plan made again from the new stamps move nothing? | 2 rows, 3 times, up to 2 tombstones, every start |
| `MCTablePass` | is a differing row ever behind the checkpoint? is `PassInv` an invariant? | 2 rows, 2 workers, clocks of the servers 1 s ahead and 1 s behind, locks, errors |
| `MCTablePassModes` | does every pass end, write only where asked, and spare the newer rows users wrote before it; what does strict verification give without the timing rule? | 1 row, all modes, dry runs, all faults, passes longer than the overlap, one server behind |
| `MCTablePassConverge` | do the copies become equal once users stop? | 1 row, 5 s, 3 edits, lost replies, a slow clock |
| `MCApplyPool` | does the pool keep its contract, report the root cause, and end? | 3 workers, 5 operations in batches of 4 |
| `MCBootstrap` | does the search keep its invariant, and end where it should? | 2 rows, 7 instants, heads of 1 row, 4 iterations, an edit between probes |
| `MCManifestPager` | does a manifest miss or invent a row, and does the fetch end? | 3 rows, pages of 2, two seconds of 2 ticks, 2 user operations between pages |
| `MCRecordWriter` | does a worker keep the contract of a copy, twice-created rows and fields included, and end? | 1 row, 2 fields, 8 tables whose two schema sources may disagree, 2 x 2 and 2 x 3 attempts, 2 user operations, every kind of lost request |
| `MCRunService` | one run at a time, released and answered, honest replies, a whole state file? | 2 runs, one of them perhaps a command, 2 files of 2 and 1 tables, 2 readings of the clock, crashes anywhere |

Why these bounds: an operation of the plan on one row meets the others through `MaxWorkers`, the
cancelled context and the strict verifier's "nothing deferred" only, so two rows show what more would;
with two rows three seconds hold a save, an edit and a second pass whose window starts after the seeding,
and with one row five hold passes whose window starts after an edit; two edits make one copy stale or
put the two sides in conflict, three do both; three workers let two fail while the third still works, and 5 in
batches of 4 has more operations than workers and an incomplete batch; heads of one row over a table of two make the probe miss differences;
three rows in pages of two have a second page, a page that is full and the last, and rows that move behind the cursor, and two
ticks to a second are a stamp with a fraction; two attempts of each write loop have a first, a repeated and a last one, and three
reads a middle one; two readings of the clock are those of one run (two file groups, or a file group and the end of its apply) or of
two runs, one after the other or overlapping, whose saves cross or come in either order, and every table of a group is saved with one
reading; a crossed save that tore the file is met by the load of the next table. The binary search over six seconds ends by its span
after at most three halvings, with an iteration to spare, as the program's does (24 halvings of a minute's multiple reach 31 years); the
theorems cover the limit too.
The bounds `MaxClock`, `MaxEdits`, `MaxTouches`, `MaxTime` and `MaxJournal` only limit TLC.

Every property has a mutant in `PROJECT.json`: a plausible bug in a definition (the `Faulty:` operators
beside the definitions) that makes TLC report that property. What the composition of parts adds to a part is
checked where the parts meet: `RowContract` and `ApplyContract` are the interfaces of the workers, and
`ServerNeverCrosses` shows that the assumptions of `FileIsWhole` and `NeverGoesBack`, that no two processes are in a
save, or in a run, together, hold of a server without a command beside it.

`FetchEnds` assumes stamps of whole seconds, which is how FileMaker stamps rows. A row imported with a fraction
breaks it: the cursor is formatted in whole seconds (`manifest.go:155`), lies in front of its own row, and a full
page of such rows is asked for again for ever. `ManifestIsCurrent` holds with fractions too. `OneRecord` has an
excuse, the lost answer, that the code needs: `doRequest` sends a POST again after a timeout (`client.go:68`), and a
target that does not refuse the key then has two records. `VerifiedPassKeepsUp` excuses a one-way run for
the rows of the other direction, which stay behind the checkpoint it saves (`sync.go:243`). `OverwritesOnlyOlder` is
about the rows users wrote before a pass began, told by the order of the edits and not by stamps, on servers that are not ahead
of FreeSync's clock (`NoClockAhead`). `CopiedInFull` excuses a field that a server cuts off or calls computed (`LeftOut`).
`NeverGoesBack` says nothing of the times two overlapping runs save. `FollowLink` of the pager assumes that a server's link goes on
after the last row of its page, in the order of the request; the program follows any link (`manifest.go:76`), and FileMaker's
is external: with a link by offset, rows that move could be skipped.

Runs that end in a counterexample, each against a promise of the repository:

* `MCMissDeferred`: with verification off, a row whose target stayed locked is behind the checkpoint
  saved at 340. `SPEC.md:308`: "no missed updates (overlap + verification)".
* `MCMissSlowPass`: the checkpoint after an apply is the clock (296), not the end of the window that was
  read; with a pass longer than the overlap, edits made meanwhile are lost. `SPEC.md:173`:
  "`safeThroughTimestamp = windowEnd`".
* `MCMissCancelled`: when the caller goes away while no request is under way, `sendLoop` stops, no worker
  has an error to report, and the checkpoint advances over what was never sent. `SPEC.md:22`:
  "Prove correctness before advancing state".

Deviations of the same kind that have no run of their own: a one-way run advances the checkpoint of
two-way runs (243); in strict mode one deferred operation switches the verification of all the others
off (334); an edit of the target between manifest and PATCH is overwritten (758); a copied row is stamped
as new and echoes (757); a deleted row comes back, since the journal is not wired (230); the binary
search leaves older differing rows out of the first window (`bootstrap.go:48`); a command and the server that
save at the same time may tear the checkpoint file (`checkpoint.go:80`), and a command that overlaps a run of the server, without
meeting it in a save, may take a checkpoint back, since each saves a time read long before (165, 296).
A row edited before a pass on a server whose clock is ahead is stamped past the end of the window, invisible
(`manifest.go:147`), and overwritten by its older copy, although "latest timestamp wins" (`SPEC.md:113`). The fields of a
table past the first 1000 are left out of every copy without an error: `EntityPropertiesFromFileMakerFields` takes a full
page for complete (`metadata.go:79`), where its comment (`metadata.go:76`) and `docs/FILEMAKER_ODATA.md:57` speak of a fallback for
an incomplete answer, and `SPEC.md:203` of every field in both. A field with a blank `FieldClass` counts as writable (`metadata.go:189`),
unless the other server knows better.

## 4. Fairness

`TablePass`: weak fairness of `BeginFile` (a scheduler starts pass after pass, `deploy/k8s`), of the steps of a
started pass (every request has a timeout: 2 minutes at `sync.go:161`), and of the error returns once the
context is cancelled. No fairness for users, the clock or faults. `ApplyPool`: weak fairness of the sender
and of each goroutine, none for the cancellation. `Bootstrap`: the search is a loop over requests of at most 45
seconds. `ManifestPager`: the next page is read (a request has a timeout, and so has each retry). `RecordWriter`:
every request is answered or given up, with whatever outcome.
`RunService`: a handler or command goes on; clients, operators, panics and crashes owe nothing.

Convergence is checked with lost replies only: a fault that may strike in every pass (a permanent
error, a crash in each pass) prevents it in the program too.

## 5. What is proved

Every invariant and every action property of the runs that pass is proved, and both refinements: for every
set of rows, fields, requests and tables, every number of workers, operations, files and attempts, every skew, page
size and length of a second, every choice of faults, and every history of users. The theorems and the properties
they state are listed in `PROJECT.json`. Liveness is not proved (see the end of this section).

Each module has one inductive invariant, proved with one lemma per action, from which the theorems about it
follow. Those of the table pass are in `TablePassInv` and the others at the head of the `_proofs` module; each
was checked by TLC on the instance of its run before it was proved.

| invariant | theorems that follow | what it adds to the properties, and why it is needed |
|---|---|---|
| `PassInv` | `NoMissInDeployment` | see below |
| `SightInv` | `WritesStayInMode`, `VerifiedPassesKeepUp` | see below |
| `EditInv` | `NewerRowsSurvive` | see below |
| `PoolInv` | `BatchesAreBarriers`, `RootCauseIsReported`, `PoolKeepsContract` | no operation is in two workers, and its outcome is open while one works on it (`JobInv`); an operation without an outcome is still to be sent, held, or left out by a cancellation (`ProgressInv`: without it `Succeed` of the contract cannot be shown); whoever failed has reported or is about to, and nobody cancels the others before an error is in the channel (`ErrorInv`: with it a cancellation in the channel came from the caller) |
| `ServiceInv` | `OneRun`, `FlagReleased`, `ServerAloneNeverCrosses`, `StateFileIsWhole`, `CheckpointsAreOwn`, `FailuresStayInTheirFile`, `CheckpointsNeverGoBack`, `OkIsTrue` | the flag is set exactly while a handler holds it, so the runs of the server never overlap (`FlagInv`); the time a pass will save was read since its run began the file group (`TimeInv`); every document, in memory or on disk, has checkpoints earned by passes over their own tables, crossed saves or not (`DocumentInv`); while saves do not cross, the process in a save has all the checkpoints of the state file, and the temporary file is its own (`SaveInv`: so the rename neither tears nor loses one); while runs do not overlap, the document is the state file with one later time (`LoneInv`), because the run is ahead of the checkpoints it has yet to save (`AheadInv`: without it the time read at the start of the group could be older than the one in the file); tables are brought through in their order (`TableInv`) |
| `MergeInv` | `MergeIsTheLastWrite`, `NoRowGoesBack`, `EchoesMoveNothing` | the tables after a pass are `After(before, mode)`, and only rows it copied have a stamp that is not their version's; the rest is algebra of the planner's operators, row by row: what a row becomes depends on its two times, its last deletion and the window |
| `WriterInv` | `NoSecondRecord`, `RefusalsAreForced`, `CopiesAreComplete`, `WriterKeepsContract` | a write that may still arrive, or that landed without ending the operation, lost its answer (`LostInv`); a worker that writes has read (`ReadInv`); the POST finds no record unless an answer was lost (`RecordInv`); the allowlist has every stored field that no server leaves out, and no computed one that is not forced or called writable by both, whatever sources answered (`ListInv`, `FieldInv`) |
| `BootstrapInv` | `LowDiverges`, `FirstPassIsNotEmpty`, `BoundaryIsFound` | while nobody changes the tables the probe diverges at the low end and, once that end has moved, not at the high one; heads that differ mean that the windows' rows differ, whatever their length |
| `PagerInv` | `PagesAreCurrent` | a row that never left the window is recorded or lies ahead of the cursor, although the cursor is cut to whole seconds and rows move; rests on lemmas on the ranks of rows (`PageIsFirst`, `ShortPageIsLast`) |

`...TypeCorrect` theorems state `TypeOK` of each module (`TypeCorrect` that of the table pass).

**Assumptions.** The constants have the types the named `ASSUME`s of the modules give them. Those that say more than a
type: the workers and the rows of a manifest are finitely many, the times of `LwwMerge` have a last one, no server is
behind by more than `MaxLag`, two tables are two pairs of file and number. `PassInvariant` and `NoMissInDeployment`
assume `Deployment`, `VerifiedPassesKeepUp` assumes `OverlapCoversSkew` (`MaxLag <= Overlap`); all other theorems
assume nothing more.

`Deployment` names what the program relies on and does not enforce: runs go both ways, are not cancelled, the
deferred log can be written, and `PassBudget + MaxLag <= Overlap`: the overlap covers the longest pass (from the
start of the file group to the end of the table's apply) and the lag of the slower server. `TablePass` itself
has two more timing assumptions, as guards of `Tick`: a pass keeps to its budget, and the first checkpoint is saved
while the initial lookback still reaches back to the seeding of the copies. Without the rule on the overlap, and
without the one on cancellation, the violation runs above are the counterexamples. Without `OverlapCoversSkew`
the verified pass does fall behind: TLC finds it in the instance of `MCTablePassModes` with an overlap of 0.

**`PassInv`.** `NoSilentMiss` is not inductive: it says nothing of a pass that is under way. `PassInv` adds what the
save at the end needs: every row is *covered* by the old checkpoint (if the pass dies now, nothing is lost)
and, from the plan on, every row is *settled* or its operation is still to come. A row is settled if the copies
agree, are tied, deleted, logged as deferred, or if one copy was stamped since the file was started: then its
stamp is at least `fileNow - MaxLag`, and the checkpoint, at most `fileNow + PassBudget`, minus the overlap is not
later. The parts follow the pass: `ManifestInv` (a manifest shows what the table has, or what was stamped too
late to matter), `PlanInv`, `CopyInv` (the row a worker holds is its source's, unless the source has a fresh
stamp). Each action has a lemma; the writes (user edits, PATCH, POST) share `StampedWrite` and `Lands`, the ends of
a pass `EndWithoutSaving` and `EndWithSaving`, and the planner's contribution is `PlanLeavesOutSettled`: a row that is
not in the plan and differs is fresh, tied, deleted or deferred.

**`SightInv`.** The action properties hold in every deployment, so they cannot rest on `PassInv`. `SightInv` says
what the manifests are worth whatever the timing: they show what the tables have, or what was stamped since
they were *asked for* (the start of the file; for the verifier, the end of the apply: `Asked`). `AimInv`: an operation
in flight writes the side the mode allows. And `RecheckInv`: for every row the verifier is done with, nothing is lost when
the checkpoint moves to `Asked` (`Kept`). The planner's contribution is `UnplannedIsKept`, and `MovingKeepsUp` turns `Kept`
into `VerifiedPassKeepsUp`.

**`EditInv`.** `OverwritesOnlyOlder` tells the rows a pass may overwrite by when users wrote them, which stamps alone do not
say: with a server behind, a row written during the pass has an old stamp. `began` counts the edits at the start of the file
group, and a row is `EditedSince` if its content is younger. Where no clock is ahead, nothing is stamped in the future
(`PastInv`), so a row too new for the window was written since (`EdgeInv`); the manifests show every other row as it is
(`VisibleInv`); and the target of an operation in flight is absent, older than the time its source was planned with, written since
the pass began, or holds what the same request wrote the first time (`OverwriteInv`, from `PlannedGoesForward`).

**The refinements.** `PoolKeepsContract` and `WriterKeepsContract` show that the initial states of the detailed
specification map to initial states of the contract and every step to a step or a stutter. In the pool `Send` is
`Take`, `Settle` is `Settle`, the returns are `Succeed` and `Fail`, the caller's cancellation is `Cancel`, and the channel
traffic is not seen.

Only model-checked: liveness, that is `PassEnds`, `Converges`, `Terminates` (of the pool and of the search),
`FetchEnds`, `Finishes`, `EveryRequestIsAnswered`. It rests on fairness, and TLAPS does not reason about `ENABLED`. The
violation runs are counterexamples and have nothing to prove.

## 6. Not modelled

* Blank keys and two rows with one key in a manifest; keys that are numbers are rows the pager cannot use. A table listed twice in one file.
* In `TablePass`, a write that lands after its operation has ended: a lost write is done at once or never there (`LoseReply`);
  `RecordWriter` and `RowContract` have the late ones.
* The parsing of `$metadata` and of JSON (what it yields of a field is in `FieldSchema`), the normalisation of texts in the strict verifier, waiting times
  between retries, the wording of requests, logs and summaries.
* The two listings of table discovery: a discovered file gets any subset of its tables, or the run fails.
* Configuration and the command line: sequential parsing and validation without state, whose values are the
  CONSTANTS of the modules; deployment manifests.
* The retries of the schema requests: one `FetchSchemas` or `SchemaFails` stands for their outcome.
* Records whose primary key a user changes.
* Loss of the state file, and of written data in a power failure (`SaveSafeThrough` does not sync); a second
  replica of the server (it is to the state file what a command is, and to its own flag another server).
* Heads of the bootstrap probe with rows the program skips because they lack a key or a parsable stamp.

## 7. Plan

Done: `SyncDomain`, `LwwMerge`, `TablePass` and its proofs, `ApplyPool` against its contract, `Bootstrap`,
`ManifestPager`, `FieldSchema` and `RecordWriter` against its contract, `CheckpointStore` within `RunService`.
Every safety property of the runs is proved, and the two refinements.
Next, in this order:

1. Proofs between the modules: that what `TablePass` takes from the others (section 2) follows from their theorems, step
   by step where an action of `TablePass` stands for several of theirs; `RowContract` and `ApplyContract` have
   consequences of their own worth stating (an operation that is settled stays settled, nothing is taken twice).
2. Weaker assumptions for `NoMissInDeployment`: which of its parts are needed in each mode, and a theorem for one-way
   deployments.
3. The starvation of the tables behind one that keeps failing, as `TablePass` for two tables of one file under
   `RunService`.
