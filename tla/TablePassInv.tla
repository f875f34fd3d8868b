----------------------------- MODULE TablePassInv -----------------------------
(***************************************************************************)
(* The inductive invariants behind the properties of TablePass: PassInv,   *)
(* what holds of a row at every point of a pass, so that saving the        *)
(* checkpoint at the end of it is safe (NoSilentMiss); and SightInv, what  *)
(* the manifests of a pass are worth when it acts on them, and EditInv,    *)
(* which of the rows users wrote it may write over (its action             *)
(* properties).                                                            *)
(***************************************************************************)
EXTENDS TablePass

\* The deployments in which the checkpoint may be trusted.  Two-way runs that
\* the client does not cancel, a deferred log that can be written, an overlap
\* that covers the skew of the clocks and the duration of a pass.
Deployment ==
    /\ \A o \in RunOptions : o.oneWay = "both"
    /\ {"disconnect", "logfail"} \cap Faults = {}
    /\ PassBudget + MaxLag <= Overlap
    /\ MaxLag <= Lookback

\* A bound on NextStart that does not move with the clock.
Floor == IF safeThrough = NoTime THEN SeedClock - MaxLag ELSE safeThrough - Overlap

\* Stamped since the file was started: too late for this pass, and for certain
\* in the window of the next one.
FreshOn(s, id) == Present(s, id) /\ mod[s][id] >= fileNow - MaxLag
Fresh(id) == \E s \in Sides : FreshOn(s, id)

Excused(id) == InSync(id) \/ Tied(id) \/ Deleted(id) \/ id \in deferredLog

\* Row id is within reach of the next pass / will be if this pass saves now.
Covered(id) == Excused(id) \/ \E s \in Sides : Present(s, id) /\ mod[s][id] >= Floor
Settled(id) == Excused(id) \/ Fresh(id)

Fetching == pc = "fetch"
Applying == pc \in {"apply", "drain"}
Checking == pc \in {"verify", "recheck", "save"}

ClockInv ==
    /\ clock >= SeedClock
    /\ safeThrough # NoTime => safeThrough <= clock
    /\ BootsInTime(clock)
    /\ pc # "idle" =>
          /\ SeedClock <= fileNow /\ fileNow <= clock
          /\ safeThrough # NoTime => safeThrough <= fileNow
    /\ pc \in {"load", "fetch", "apply", "drain"} => clock <= fileNow + PassBudget
    /\ Checking => /\ fileNow <= endThrough /\ endThrough <= clock
                   /\ endThrough <= fileNow + PassBudget

WindowInv ==
    /\ pc # "idle" => opts.oneWay = "both"
    /\ ~ctxDone
    /\ pc \notin {"idle", "load"} =>
          /\ window.end = fileNow
          /\ window.start = IF safeThrough = NoTime THEN fileNow - Lookback
                            ELSE safeThrough - Overlap

\* What a manifest shows is what the table still has, or was written too late.
Exact(s, id) ==
    \/ manifest[s][id] = IF InWindow(mod[s][id], window) THEN mod[s][id] ELSE NoTime
    \/ FreshOn(s, id)
    \/ ~Present(s, id) /\ Deleted(id)

ManifestInv ==
    /\ pc \in {"idle", "load"} => unread = AllUnread
    /\ \A s \in Sides, id \in Ids :
          manifest[s][id] # NoTime => Present(s, id) \/ Deleted(id)
    /\ Fetching => \A s \in Sides, id \in Ids : id \notin unread[s] => Exact(s, id)

\* The copy a worker holds is the source's row, unless that is newer by now.
CopyInv ==
    Applying => \A id \in In({"got", "resent", "post"}) :
        /\ copy[id].mod # NoTime
        /\ \/ Present(Src(id), id) /\ val[Src(id)][id] = copy[id].val
           \/ FreshOn(Src(id), id)
           \/ Deleted(id)

PlanInv ==
    /\ Applying => \A id \in Ids :
          /\ st[id] # "unsent"
          /\ st[id] # "none" => manifest[Src(id)][id] # NoTime
          /\ Settled(id) \/ st[id] \in {"todo", "got", "resent", "post", "deferred"}
    /\ Checking => \A id \in Ids : Settled(id)

CoverInv == \A id \in Ids : Covered(id)

\* While a pass is under way, every row is settled, or its operation is still to
\* come; and if the pass dies now, every row is still covered by the checkpoint
\* it started from.  (runFileGroup may return an error between any two steps.)
PassInv == ClockInv /\ WindowInv /\ ManifestInv /\ CopyInv /\ PlanInv /\ CoverInv
-----------------------------------------------------------------------------
(* SightInv, which holds in every deployment.                                  *)

\* What VerifiedPassKeepsUp needs of a deployment, and NoSilentMiss of more.
OverlapCoversSkew == MaxLag <= Overlap

\* When the manifests were asked for: the end of their window.
Asked == IF pc \in {"verify", "recheck"} THEN endThrough ELSE fileNow

\* Stamped since: what the manifests may not show.
LateOn(s, id) == Present(s, id) /\ mod[s][id] >= Asked - MaxLag

Shown(s, id) ==
    \/ manifest[s][id] = IF InWindow(mod[s][id], [start |-> window.start, end |-> Asked])
                         THEN mod[s][id] ELSE NoTime
    \/ LateOn(s, id)
    \/ ~Present(s, id) /\ Deleted(id)

\* Both copies are older than the window.
Behind(id) == \A s \in Sides : Present(s, id) => mod[s][id] < window.start

\* Nothing is lost on row id when the checkpoint moves to Asked.
Kept(id) ==
    \/ InSync(id) \/ Tied(id) \/ Deleted(id) \/ OutOfMode(id) \/ Behind(id)
    \/ \E s \in Sides : LateOn(s, id)

TimeInv ==
    /\ pc # "idle" => fileNow <= clock
    /\ Checking => fileNow <= endThrough /\ endThrough <= clock

StartInv ==
    pc \notin {"idle", "load"} =>
        /\ window.end = fileNow
        /\ window.start = IF safeThrough = NoTime THEN fileNow - Lookback
                          ELSE safeThrough - Overlap

ShownInv ==
    /\ pc \in {"idle", "load"} => unread = AllUnread /\ manifest = EmptyManifest
    /\ \A s \in Sides, id \in Ids :
          manifest[s][id] # NoTime => window.start <= manifest[s][id]
    /\ pc \in {"fetch", "verify"} =>
          \A s \in Sides, id \in Ids : id \notin unread[s] => Shown(s, id)

\* The side a request on id writes is the side the mode allows.
InMode(id) ==
    /\ opts.oneWay = "to-blue" => Dst(id) = "blue"
    /\ opts.oneWay = "to-green" => Dst(id) = "green"

AimInv ==
    Applying =>
        /\ opts.apply
        /\ \A id \in Ids : st[id] # "none" => InMode(id)

\* The verifier compared the rows it is done with; the copy it holds is blue's.
RecheckInv ==
    pc = "recheck" => \A id \in Ids :
        /\ st[id] \in {"none", "todo", "got", "done"}
        /\ st[id] \in {"none", "done"} => Kept(id)
        /\ st[id] = "got" => \/ Present("blue", id) /\ val["blue"][id] = copy[id].val
                             \/ LateOn("blue", id)
                             \/ Deleted(id)

SightInv == TimeInv /\ StartInv /\ ShownInv /\ AimInv /\ RecheckInv
-----------------------------------------------------------------------------
(* EditInv: what a pass knows of the rows users wrote before it began, where no *)
(* clock is ahead.                                                              *)

EditedSince(s, id) == Present(s, id) /\ val[s][id] > began

\* Nothing is stamped in the future.
PastInv ==
    /\ \A s \in Sides, id \in Ids : Present(s, id) => mod[s][id] <= clock
    /\ \A id \in Ids : copy[id].mod # NoTime => copy[id].mod <= clock

\* What is too new for the window was written after the pass began.
EdgeInv ==
    pc \in {"load", "fetch"} => \A s \in Sides, id \in Ids :
        Present(s, id) /\ mod[s][id] > fileNow => EditedSince(s, id)

\* The manifest shows the row as it is, unless a user changed it.
Visible(s, id) ==
    \/ manifest[s][id] = IF InWindow(mod[s][id], window) THEN mod[s][id] ELSE NoTime
    \/ EditedSince(s, id)
    \/ ~Present(s, id)

VisibleInv ==
    pc = "fetch" => \A s \in Sides, id \in Ids : id \notin unread[s] => Visible(s, id)

\* What a request on id may overwrite: nothing, an older row, what a user wrote
\* since the pass began, or what the same request wrote the first time.
MayOverwrite(id) ==
    \/ ~Present(Dst(id), id) \/ EditedSince(Dst(id), id)
    \/ mod[Dst(id)][id] < manifest[Src(id)][id]
    \/ st[id] = "resent" /\ val[Dst(id)][id] = copy[id].val

OverwriteInv ==
    Applying => \A id \in In({"todo", "got", "resent", "post"}) : MayOverwrite(id)

EditInv ==
    /\ began <= edits
    /\ NoClockAhead => PastInv /\ EdgeInv /\ VisibleInv /\ OverwriteInv
=============================================================================
