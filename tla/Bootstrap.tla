------------------------------ MODULE Bootstrap ------------------------------
(***************************************************************************)
(* bootstrapMode "binary": where the first window of a table without a     *)
(* checkpoint begins (findDivergenceBoundaryBinary in                      *)
(* internal/run/bootstrap.go, with the probe runFileGroup gives it).       *)
(*                                                                         *)
(* A probe reads the head of the manifest of [ts, End] from both servers,  *)
(* the HeadSize oldest rows, and calls the window divergent when the two   *)
(* heads differ.  The search keeps halving [low, high].  The head of blue  *)
(* is read before the head of green, and users may edit a row at any time, *)
(* which takes it out of every window that ends at End.                    *)
(***************************************************************************)
EXTENDS SyncDomain, FiniteSets

CONSTANTS
    End,            \* "now" of runFileGroup, the end of all the windows
    MaxLookback,    \* how far back the search may go
    Lookback,       \* the fallback when a probe fails
    HeadSize,       \* rows of a head: 5 in the code
    MinSpan,        \* the search stops at this precision: one minute
    MaxIterations,  \* 24 in the code
    MaxTouches      \* bound on the user edits, for model checking

\* Primary keys are ordered: the head is sorted by stamp, then by key.
ASSUME BootstrapAssumption ==
    /\ Ids \subseteq Int /\ NoTime \notin Int
    /\ End \in Int /\ {MaxLookback, Lookback, MaxIterations, MaxTouches} \subseteq Nat
    /\ {HeadSize, MinSpan} \subseteq Nat \ {0}

VARIABLES
    mod,       \* mod[s][id]: the stamp of row id on side s
    phase,     \* "widest" before the first probe answered, "search", "done"
    low, high, \* the interval of the search
    iter,      \* probes of the search so far
    blueHead,  \* the head of blue of the probe that is under way
    start,     \* the answer, NoTime until there is one
    fellBack,  \* a probe failed
    touches    \* user edits so far

vars == <<mod, phase, low, high, iter, blueHead, start, fellBack, touches>>

NoHead == {NoTime}
Widest == End - MaxLookback
-----------------------------------------------------------------------------
WindowFrom(ts) == [start |-> ts, end |-> End]

Rows(s, ts) ==
    {row \in {[id |-> id, mod |-> mod[s][id]] : id \in Ids} : InWindow(row.mod, WindowFrom(ts))}

Before(q, r) == q.mod < r.mod \/ (q.mod = r.mod /\ q.id < r.id)

\* FetchManifestHead: the sorted rows are compared one by one, which for sorted
\* rows without repetition is comparing the sets.
Head(s, ts) ==
    {r \in Rows(s, ts) : Cardinality({q \in Rows(s, ts) : Before(q, r)}) < HeadSize}

HeadsDiffer(ts) == Head("blue", ts) # Head("green", ts)

Init ==
    /\ mod \in [Sides -> [Ids -> (Widest .. End) \cup {NoTime}]]
    /\ phase = "widest"
    /\ low = Widest /\ high = End
    /\ iter = 0
    /\ blueHead = NoHead
    /\ start = NoTime
    /\ fellBack = FALSE
    /\ touches = 0

\* Faulty: the half that would be probed next is compared with the precision.
NarrowEarly == phase = "search" /\ (iter = MaxIterations \/ (high - low) \div 2 <= MinSpan)

Narrow == phase = "search" /\ (iter = MaxIterations \/ high - low <= MinSpan)

\* Faulty: the middle is measured from the wrong end.
MidFromEnd == high + (high - low) \div 2

Mid == low + (high - low) \div 2
ProbeAt == IF phase = "widest" THEN low ELSE Mid

ReadBlueHead ==
    /\ phase # "done" /\ ~Narrow
    /\ blueHead = NoHead
    /\ blueHead' = Head("blue", ProbeAt)
    /\ UNCHANGED <<mod, phase, low, high, iter, start, fellBack, touches>>

Answer(ts) ==
    /\ phase' = "done"
    /\ start' = ts
    /\ blueHead' = NoHead

Divergent == blueHead # Head("green", ProbeAt)

\* No divergence in the widest window: keep it.
WidestInSync ==
    /\ phase = "widest" /\ blueHead # NoHead
    /\ ~Divergent
    /\ Answer(low)
    /\ UNCHANGED <<mod, low, high, iter, fellBack, touches>>

\* Faulty: the widest window is probed again and again.
WidestAgain ==
    /\ phase = "widest" /\ blueHead # NoHead
    /\ Divergent
    /\ blueHead' = NoHead
    /\ UNCHANGED <<mod, phase, low, high, iter, start, fellBack, touches>>

WidestDiverges ==
    /\ phase = "widest" /\ blueHead # NoHead
    /\ Divergent
    /\ phase' = "search"
    /\ blueHead' = NoHead
    /\ UNCHANGED <<mod, low, high, iter, start, fellBack, touches>>

\* Faulty: the half without the divergence is kept.
HalveWrongSide ==
    /\ phase = "search" /\ blueHead # NoHead
    /\ IF Divergent THEN high' = Mid /\ low' = low ELSE low' = Mid /\ high' = high
    /\ iter' = iter + 1
    /\ blueHead' = NoHead
    /\ UNCHANGED <<mod, phase, start, fellBack, touches>>

Halve ==
    /\ phase = "search" /\ blueHead # NoHead
    /\ IF Divergent THEN low' = Mid /\ high' = high ELSE high' = Mid /\ low' = low
    /\ iter' = iter + 1
    /\ blueHead' = NoHead
    /\ UNCHANGED <<mod, phase, start, fellBack, touches>>

\* Faulty: the side that is not divergent is kept for the start.
StopAtHigh ==
    /\ Narrow
    /\ Answer(high)
    /\ UNCHANGED <<mod, low, high, iter, fellBack, touches>>

Stop ==
    /\ Narrow
    /\ Answer(low)
    /\ UNCHANGED <<mod, low, high, iter, fellBack, touches>>

\* A request of a probe failed or took longer than its 45 seconds.
ProbeFails ==
    /\ phase # "done" /\ ~Narrow
    /\ Answer(End - Lookback)
    /\ fellBack' = TRUE
    /\ UNCHANGED <<mod, low, high, iter, touches>>

\* A user edits a row; its new stamp is after End.
Touch(s, id) ==
    /\ touches < MaxTouches
    /\ mod[s][id] # NoTime
    /\ mod' = [mod EXCEPT ![s][id] = End + 1]
    /\ touches' = touches + 1
    /\ UNCHANGED <<phase, low, high, iter, blueHead, start, fellBack>>

SearchStep == ReadBlueHead \/ WidestInSync \/ WidestDiverges \/ Halve \/ Stop

Next == SearchStep \/ ProbeFails \/ \E s \in Sides, id \in Ids : Touch(s, id)

Spec == Init /\ [][Next]_vars

\* The search is a loop over requests that time out.
FairSpec == Spec /\ WF_vars(SearchStep)
-----------------------------------------------------------------------------
(* Correctness.                                                            *)

\* Every variable has its type, and the window never reaches further back than
\* the configuration allows.
TypeOK ==
    /\ mod \in [Sides -> [Ids -> (Widest .. End + 1) \cup {NoTime}]]
    /\ phase \in {"widest", "search", "done"}
    /\ low \in Widest .. End /\ high \in low .. End
    /\ iter \in 0 .. MaxIterations
    /\ blueHead = NoHead \/ \A row \in blueHead : row.id \in Ids
    /\ start \in (Widest .. End) \cup {NoTime, End - Lookback}
    /\ fellBack \in BOOLEAN
    /\ touches \in 0 .. MaxTouches

\* "Invariant for search: low is divergent" (bootstrap.go:30-31), unless users
\* changed the tables meanwhile.
LowIsDivergent == phase = "search" /\ touches = 0 => HeadsDiffer(low)

\* The answer to a search over a table that differs somewhere.
Searched == phase = "done" /\ ~fellBack /\ touches = 0 /\ HeadsDiffer(Widest)

Windowed(s) == [id \in Ids |-> IF InWindow(mod[s][id], WindowFrom(start)) THEN mod[s][id] ELSE NoTime]

\* Whatever the probes saw through their short heads, the first window leads to
\* a plan with work in it: the search never narrows onto nothing and lets the
\* empty plan advance the checkpoint past the difference it started from.
FirstPassHasWork ==
    Searched => BuildPlan(Windowed("blue"), Windowed("green"), {}) # {}

\* "older starts are at least as divergent as newer" (bootstrap.go:10): what the
\* search expects of its probe, and the short heads do not always give it.
ProbeIsMonotone ==
    \A old, new \in Widest .. End : old < new /\ HeadsDiffer(new) => HeadsDiffer(old)

\* For a probe that keeps its contract the answer is "the latest start timestamp
\* that still indicates divergence" (bootstrap.go:5-6) up to MinSpan, unless the
\* iterations ran out.
FindsTheBoundary ==
    Searched /\ ProbeIsMonotone =>
        /\ HeadsDiffer(start)
        /\ iter < MaxIterations => \A ts \in start + MinSpan + 1 .. End : ~HeadsDiffer(ts)

\* The search ends.
Terminates == <>(phase = "done")
=============================================================================
