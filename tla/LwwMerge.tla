------------------------------- MODULE LwwMerge -------------------------------
(***************************************************************************)
(* What the plan of one pass asks for, on two tables at rest: the          *)
(* manifests show the rows whose time is at or after Start, BuildPlan      *)
(* compares them with a delete journal, and the one-way filter keeps one   *)
(* direction.  There is no concurrency here (TablePass has it): the first  *)
(* question is whether the planner, fed with windowed manifests, asks for  *)
(* the last-write-wins merge of the two tables.                            *)
(*                                                                         *)
(* A row is here the time of the user's write it holds, its version.  Its  *)
(* stamp is another matter: a server restamps the row a pass copies to it  *)
(* (no PATCH carries the modification field), so after the pass the copies *)
(* of a row may be the same version with different stamps, and plans made  *)
(* from the stamps have work again.  The second question is whether that   *)
(* work moves anything.  The program runs with a nil journal and refuses   *)
(* the delete operations a journal would lead to; of those this module     *)
(* says only what the planner asks for.                                    *)
(***************************************************************************)
EXTENDS SyncDomain, FiniteSets

CONSTANTS
    Times,      \* modification times
    MaxJournal  \* bound on the entries of the delete journal

\* Times are whole seconds, and the end of the window is one that none is beyond.
ASSUME MergeAssumption ==
    /\ Times \subseteq Int /\ NoTime \notin Int
    /\ \E last \in Times : \A t \in Times : t <= last

VARIABLES
    rows,       \* rows[s][id]: the version of the row on side s, NoTime when absent
    stamps,     \* stamps[s][id]: the modification time the server shows for it
    journal,    \* the delete journal, a set of [id, at]
    start,      \* start of the window; its end is later than every time
    before,     \* rows as they were before the pass
    ran         \* the mode of the pass that ran, "none" before it

vars == <<rows, stamps, journal, start, before, ran>>

Latest == CHOOSE t \in Times : \A u \in Times : t >= u
Window == [start |-> start, end |-> Latest]
View(r) == [s \in Sides |-> [id \in Ids |->
              IF InWindow(r[s][id], Window) THEN r[s][id] ELSE NoTime]]

PlanOn(r) == BuildPlan(View(r)["blue"], View(r)["green"], journal)

\* Faulty: the row is read from the side it is written to.
OutcomeOfTarget(plan, r) ==
    [s \in Sides |-> [id \in Ids |->
        LET kinds == {op.kind : op \in {o \in plan : o.id = id /\ Target(o.kind) = s}}
        IN  CASE kinds = {} -> r[s][id]
              [] kinds \cap {"CopyToGreen", "CopyToBlue"} # {} -> r[s][id]
              [] OTHER -> NoTime]]

\* The versions the two tables hold when the operations of a plan are done.
Outcome(plan, r) ==
    [s \in Sides |-> [id \in Ids |->
        LET kinds == {op.kind : op \in {o \in plan : o.id = id /\ Target(o.kind) = s}}
        IN  CASE kinds = {} -> r[s][id]
              [] kinds \cap {"CopyToGreen", "CopyToBlue"} # {} -> r[Other(s)][id]
              [] OTHER -> NoTime]]

\* The rows a plan copies to side s.
CopiedTo(plan, s) ==
    {id \in Ids : \E op \in plan :
        op.id = id /\ Target(op.kind) = s /\ op.kind \in {"CopyToGreen", "CopyToBlue"}}

Init ==
    /\ rows \in [Sides -> [Ids -> Times \cup {NoTime}]]
    /\ journal \in {j \in SUBSET [id : Ids, at : Times] : Cardinality(j) <= MaxJournal}
    /\ start \in Times
    /\ before = rows
    /\ stamps = rows
    /\ ran = "none"

\* A server gives the row it is sent whatever time its clock shows; the other
\* rows keep their stamps.
Pass(mode) ==
    /\ ran = "none"
    /\ LET plan == FilterPlanOneWay(PlanOn(stamps), mode)
           kept == Outcome(plan, stamps)
       IN  /\ rows' = Outcome(plan, rows)
           /\ \E fresh \in [CopiedTo(plan, "blue") \cup CopiedTo(plan, "green") -> Times] :
                 stamps' = [s \in Sides |-> [id \in Ids |->
                     IF id \in CopiedTo(plan, s) THEN fresh[id] ELSE kept[s][id]]]
    /\ ran' = mode
    /\ UNCHANGED <<journal, start, before>>

Next == \E mode \in OneWayModes : Pass(mode)

Spec == Init /\ [][Next]_vars
-----------------------------------------------------------------------------
(* The reference: what happened last to a row decides.                     *)

TombstoneOf(id) == DelMax(journal)[id]
NewestCopy(id) == MaxTime(before["blue"][id], before["green"][id])
Seen(id) == InWindow(NewestCopy(id), Window)
SeenOn(s, id) == InWindow(before[s][id], Window)

\* The time the last-write-wins merge leaves in both tables for this id.
Winner(id) ==
    IF TombstoneOf(id) # NoTime /\ NewestCopy(id) # NoTime
          /\ TombstoneOf(id) > NewestCopy(id)
    THEN NoTime
    ELSE NewestCopy(id)

\* After a two-way pass, a row whose newest copy was in the window is the
\* last-write-wins winner on both sides, although the older copy may have been
\* outside the manifests the planner compared.  A deletion reaches the copies
\* the window shows.
MergeIsLastWriteWins ==
    ran = "both" =>
        \A id \in Ids : Seen(id) =>
            \A s \in Sides :
                rows[s][id] = IF Winner(id) = NoTime /\ ~SeenOn(s, id)
                              THEN before[s][id] ELSE Winner(id)

\* A pass that compared partial manifests still never replaces a row by an older
\* one, and never removes a row that no later tombstone covers, in any mode.
NeverBackwards ==
    \A s \in Sides, id \in Ids :
        before[s][id] # NoTime =>
            \/ rows[s][id] # NoTime /\ rows[s][id] >= before[s][id]
            \/ /\ rows[s][id] = NoTime
               /\ TombstoneOf(id) # NoTime
               /\ TombstoneOf(id) > NewestCopy(id)

\* The plan strict verification makes: the stamps again, the same window, the
\* same direction.
SecondPlan == FilterPlanOneWay(PlanOn(stamps), ran)

\* Strict verification of a pass over tables at rest succeeds, in every mode.  Its
\* plan need not be empty, since the rows that were copied have a new stamp on one
\* side and may be asked for again, in either direction; but every operation in it
\* is on a row whose two copies hold the same write, which verifyReplicaFields
\* then finds equal (runFileGroup, lines 324-330).  Echoes move nothing.
SecondPlanOnlyEchoes ==
    ran # "none" /\ journal = {} =>
        \A op \in SecondPlan : rows["blue"][op.id] = rows["green"][op.id]
=============================================================================
