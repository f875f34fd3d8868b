--------------------------- MODULE LwwMerge_proofs ---------------------------
(***************************************************************************)
(* Proofs about LwwMerge, for every set of rows, every set of times with a *)
(* last one and every delete journal: what a pass leaves of a row depends  *)
(* on its two copies, its last deletion and the window alone, so the merge *)
(* of two tables is the merge of their rows.                               *)
(***************************************************************************)
EXTENDS LwwMerge, WellFoundedInduction, TLAPS

Tables == [Sides -> [Ids -> Times \cup {NoTime}]]

\* What a pass in the given mode makes of the tables r.
After(r, mode) == Outcome(FilterPlanOneWay(PlanOn(r), mode), r)

\* A time of the row id on side s, when the window shows it.
Shown(r, s, id) == IF InWindow(r[s][id], Window) THEN r[s][id] ELSE NoTime
KindsOn(r, id) ==
    KindsFor(Shown(r, "blue", id), Shown(r, "green", id), TombstoneOf(id))

\* Mode lets a pass write side s.
Writes(mode, s) == mode = "both" \/ mode = (IF s = "blue" THEN "to-blue" ELSE "to-green")

Copying(s) == IF s = "blue" THEN "CopyToBlue" ELSE "CopyToGreen"
Deleting(s) == IF s = "blue" THEN "DeleteFromBlue" ELSE "DeleteFromGreen"

\* A pass in the given mode over the tables r copies the row id to side s.
Copied(r, mode, s, id) == Writes(mode, s) /\ Copying(s) \in KindsOn(r, id)

\* The tables are those before the pass, or what the pass made of them; only the
\* rows it copied have another stamp than the time of the write they hold.
MergeInv ==
    /\ before \in Tables /\ rows \in Tables /\ stamps \in Tables
    /\ journal \subseteq [id : Ids, at : Times]
    /\ start \in Times
    /\ ran \in {"none"} \cup OneWayModes
    /\ rows = IF ran = "none" THEN before ELSE After(before, ran)
    /\ \A s \in Sides, id \in Ids :
          ran = "none" \/ ~Copied(before, ran, s, id) => stamps[s][id] = rows[s][id]
-----------------------------------------------------------------------------
(* Times.                                                                  *)

NatLess == OpToRel(<, Nat)

\* Times have a last one in every set that is not empty.
LEMMA LastTime ==
  ASSUME NEW S, S \subseteq Times, S # {}
  PROVE  \E t \in S : \A u \in S : t >= u
  <1>1. PICK last \in Times : \A t \in Times : t <= last
    BY MergeAssumption
  <1> DEFINE distances == {last - t : t \in S}
  <1>2. distances \subseteq Nat /\ distances # {}
    <2>1. \A t \in S : last - t \in Nat
      <3>1. \A t \in S : t \in Int /\ last \in Int /\ t <= last
        BY <1>1, MergeAssumption
      <3> QED  BY <3>1
    <2> QED  BY <2>1
  <1>3. IsWellFoundedOn(NatLess, Nat)
    BY NatLessThanWellFounded DEF NatLess
  <1>4. PICK d \in distances : \A e \in distances : <<e, d>> \notin NatLess
    <2> HIDE DEF distances
    <2> QED  BY <1>2, <1>3, WFMin
  <1>5. \A e \in distances : ~(e < d)
    <2> HIDE DEF distances
    <2> QED  BY <1>2, <1>4 DEF NatLess, OpToRel
  <1>6. PICK t \in S : d = last - t
    BY <1>4
  <1>7. ASSUME NEW u \in S
        PROVE  t >= u
    <2>1. last - u \in distances
      OBVIOUS
    <2>2. ~(last - u < last - t)
      BY <1>5, <1>6, <2>1
    <2>3. last \in Int /\ t \in Int /\ u \in Int
      BY MergeAssumption
    <2> QED  BY <2>2, <2>3
  <1> QED  BY <1>7

LEMMA LatestIsLast == Latest \in Times /\ \A t \in Times : t <= Latest
  <1>1. \E t \in Times : \A u \in Times : t >= u
    BY LastTime, MergeAssumption
  <1>2. Latest \in Times /\ \A u \in Times : Latest >= u
    BY <1>1 DEF Latest
  <1> QED  BY <1>2, MergeAssumption

\* delMax holds the last deletion of each id, and none for an id never deleted.
LEMMA LastDeletion ==
  ASSUME NEW j, j \subseteq [id : Ids, at : Times], NEW id \in Ids
  PROVE  LET times == {d.at : d \in {e \in j : e.id = id}} IN
         /\ times = {} => DelMax(j)[id] = NoTime
         /\ times # {} => DelMax(j)[id] \in times /\ \A t \in times : DelMax(j)[id] >= t
         /\ DelMax(j)[id] \in Times \cup {NoTime}
  <1> DEFINE times == {d.at : d \in {e \in j : e.id = id}}
  <1>1. times \subseteq Times
    OBVIOUS
  <1>2. DelMax(j)[id] = IF times = {} THEN NoTime
                        ELSE CHOOSE t \in times : \A u \in times : t >= u
    BY DEF DelMax
  <1> HIDE DEF times
  <1>3. CASE times = {}
    BY <1>2, <1>3 DEF times
  <1>4. CASE times # {}
    <2>1. \E t \in times : \A u \in times : t >= u
      BY <1>1, <1>4, LastTime
    <2>2. DelMax(j)[id] \in times /\ \A u \in times : DelMax(j)[id] >= u
      BY <1>2, <1>4, <2>1
    <2> QED  BY <1>1, <1>4, <2>2 DEF times
  <1> QED  BY <1>3, <1>4
-----------------------------------------------------------------------------
(* What a pass leaves of one row.                                          *)

LEMMA PlanOfRow ==
  ASSUME NEW r, NEW op
  PROVE  op \in PlanOn(r) <=> op \in Op /\ op.kind \in KindsOn(r, op.id)
  BY DEF PlanOn, BuildPlan, KindsOn, Shown, TombstoneOf, View, Op, Sides

\* A row is copied, deleted or left alone, whatever the rest of the plan does.
LEMMA RowAfter ==
  ASSUME NEW r, NEW mode \in OneWayModes, NEW s \in Sides, NEW id \in Ids
  PROVE  After(r, mode)[s][id] =
            IF Writes(mode, s) /\ Copying(s) \in KindsOn(r, id) THEN r[Other(s)][id]
            ELSE IF Writes(mode, s) /\ Deleting(s) \in KindsOn(r, id) THEN NoTime
            ELSE r[s][id]
  <1> DEFINE plan == FilterPlanOneWay(PlanOn(r), mode)
             kinds == {op.kind : op \in {o \in plan : o.id = id /\ Target(o.kind) = s}}
  <1>1. ASSUME NEW op
        PROVE  op \in plan <=> op \in PlanOn(r) /\ Writes(mode, Target(op.kind))
    BY DEF FilterPlanOneWay, Writes, OneWayModes, Target
  <1>2. \A k \in OpKind : k \in kinds <=>
           Writes(mode, s) /\ k \in KindsOn(r, id) /\ Target(k) = s
    <2> TAKE k \in OpKind
    <2> DEFINE op == [id |-> id, kind |-> k]
    <2>1. op \in Op /\ op.id = id /\ op.kind = k
      BY DEF Op
    <2>2. ASSUME Writes(mode, s), k \in KindsOn(r, id), Target(k) = s
          PROVE  k \in kinds
      <3>1. op \in plan
        BY <1>1, <2>1, <2>2, PlanOfRow
      <3> HIDE DEF plan, op
      <3> QED  BY <2>1, <2>2, <3>1
    <2>3. ASSUME k \in kinds
          PROVE  Writes(mode, s) /\ k \in KindsOn(r, id) /\ Target(k) = s
      <3>1. PICK o \in plan : o.id = id /\ Target(o.kind) = s /\ o.kind = k
        BY <2>3
      <3>2. o \in PlanOn(r) /\ Writes(mode, Target(o.kind))
        BY <1>1, <3>1
      <3> QED  BY <3>1, <3>2, PlanOfRow
    <2> QED  BY <2>2, <2>3
  <1>3. kinds \subseteq OpKind
    <2>1. \A o \in plan : o.kind \in OpKind
      BY <1>1, PlanOfRow DEF Op
    <2> HIDE DEF plan
    <2> QED  BY <2>1
  <1>4. After(r, mode)[s][id] =
           CASE kinds = {} -> r[s][id]
             [] kinds \cap {"CopyToGreen", "CopyToBlue"} # {} -> r[Other(s)][id]
             [] OTHER -> NoTime
    BY DEF After, Outcome
  <1> HIDE DEF kinds
  <1>5. \A k \in OpKind : Target(k) = s <=> k \in {Copying(s), Deleting(s)}
    BY DEF Sides, OpKind, Target, Copying, Deleting
  <1>6. Copying(s) \in OpKind /\ Deleting(s) \in OpKind
    BY DEF OpKind, Copying, Deleting
  <1>7. kinds \cap {"CopyToGreen", "CopyToBlue"} # {} <=> Copying(s) \in kinds
    BY <1>2, <1>3, <1>5, <1>6 DEF Copying, Deleting, OpKind
  <1>8. kinds = {} <=> Copying(s) \notin kinds /\ Deleting(s) \notin kinds
    BY <1>2, <1>3, <1>5, <1>6
  <1> QED  BY <1>2, <1>4, <1>5, <1>6, <1>7, <1>8

LEMMA CopiedMeaning ==
  ASSUME NEW r, NEW mode \in OneWayModes, NEW s \in Sides, NEW id \in Ids
  PROVE  id \in CopiedTo(FilterPlanOneWay(PlanOn(r), mode), s) <=> Copied(r, mode, s, id)
  <1> DEFINE plan == FilterPlanOneWay(PlanOn(r), mode)
             op == [id |-> id, kind |-> Copying(s)]
  <1>1. ASSUME NEW o
        PROVE  o \in plan <=> o \in PlanOn(r) /\ Writes(mode, Target(o.kind))
    BY DEF FilterPlanOneWay, Writes, OneWayModes, Target
  <1>2. op \in Op /\ op.id = id /\ op.kind = Copying(s) /\ Target(Copying(s)) = s
    BY DEF Op, OpKind, Copying, Target, Sides
  <1>3. ASSUME Copied(r, mode, s, id)
        PROVE  id \in CopiedTo(plan, s)
    <2>1. op \in plan
      BY <1>1, <1>2, <1>3, PlanOfRow DEF Copied
    <2> HIDE DEF plan, op
    <2> QED  BY <1>2, <2>1 DEF CopiedTo, Copying
  <1>4. ASSUME id \in CopiedTo(plan, s)
        PROVE  Copied(r, mode, s, id)
    <2>1. PICK o \in plan : o.id = id /\ Target(o.kind) = s
                             /\ o.kind \in {"CopyToGreen", "CopyToBlue"}
      BY <1>4 DEF CopiedTo
    <2>2. o \in PlanOn(r) /\ Writes(mode, s)
      BY <1>1, <2>1
    <2>3. o.kind = Copying(s)
      BY <2>1 DEF Copying, Target, Sides
    <2> QED  BY <2>1, <2>2, <2>3, PlanOfRow DEF Copied
  <1> QED  BY <1>3, <1>4

LEMMA AfterIsTables ==
  ASSUME NEW r \in Tables, NEW mode \in OneWayModes
  PROVE  After(r, mode) \in Tables
  <1>1. \A s \in Sides, id \in Ids : After(r, mode)[s][id] \in Times \cup {NoTime}
    BY RowAfter DEF Tables, Sides, Other
  <1>2. After(r, mode) = [s \in Sides |-> [id \in Ids |-> After(r, mode)[s][id]]]
    BY DEF After, Outcome
  <1> QED  BY <1>1, <1>2 DEF Tables
-----------------------------------------------------------------------------
(* The pass.                                                               *)

LEMMA InitMergeInv == Init => MergeInv
  BY DEF Init, MergeInv, Tables

LEMMA PassMergeInv ==
  ASSUME MergeInv, NEW mode \in OneWayModes, Pass(mode)
  PROVE  MergeInv'
  <1> DEFINE plan == FilterPlanOneWay(PlanOn(before), mode)
             Moved == CopiedTo(plan, "blue") \cup CopiedTo(plan, "green")
  <1>1. /\ ran = "none" /\ ran' = mode /\ UNCHANGED <<journal, start, before>>
        /\ before \in Tables /\ rows = before /\ "none" \notin OneWayModes
    BY DEF Pass, MergeInv, OneWayModes
  <1>2. stamps = before
    <2>1. \A s \in Sides, id \in Ids : stamps[s][id] = before[s][id]
      BY <1>1 DEF MergeInv
    <2>2. stamps \in Tables /\ before \in Tables
      BY DEF MergeInv
    <2> QED  BY <2>1, <2>2 DEF Tables
  <1>3. rows' = After(before, mode)
    BY <1>1, <1>2 DEF Pass, After
  <1>4. PICK fresh \in [Moved -> Times] :
           stamps' = [s \in Sides |-> [id \in Ids |->
                        IF id \in CopiedTo(plan, s) THEN fresh[id] ELSE After(before, mode)[s][id]]]
    BY <1>1, <1>2 DEF Pass, After
  <1>5. After(before, mode)' = After(before, mode)
    BY <1>1 DEF After, Outcome, PlanOn, View, Window
  <1>6. \A s \in Sides, id \in Ids : Copied(before, mode, s, id)' = Copied(before, mode, s, id)
    BY <1>1 DEF Copied, KindsOn, Shown, TombstoneOf, Window
  <1>7. After(before, mode) \in Tables
    BY <1>1, AfterIsTables
  <1> HIDE DEF plan
  <1>8. stamps' \in Tables
    <2>1. ASSUME NEW s \in Sides, NEW id \in Ids
          PROVE  stamps'[s][id] \in Times \cup {NoTime}
      <3>1. id \in CopiedTo(plan, s) => id \in Moved
        BY DEF Sides
      <3>2. After(before, mode)[s][id] \in Times \cup {NoTime}
        BY <1>7 DEF Tables
      <3> QED  BY <1>4, <3>1, <3>2
    <2> QED  BY <1>4, <2>1 DEF Tables
  <1>9. \A s \in Sides, id \in Ids :
           ~Copied(before, mode, s, id) => stamps'[s][id] = After(before, mode)[s][id]
    BY <1>4, CopiedMeaning DEF plan
  <1> QED
    <2>1. ran' # "none" /\ before' = before
      BY <1>1
    <2>2. rows' \in Tables /\ before' \in Tables /\ journal' \subseteq [id : Ids, at : Times]
          /\ start' \in Times /\ ran' \in OneWayModes
      BY <1>1, <1>3, <1>7 DEF MergeInv
    <2>3. \A s \in Sides, id \in Ids :
             ~Copied(before, ran, s, id)' => stamps'[s][id] = rows'[s][id]
      BY <1>1, <1>3, <1>6, <1>9 DEF Copied, Writes, KindsOn, Shown, TombstoneOf, Window
    <2>4. rows' = After(before, ran)'
      BY <1>1, <1>3, <1>5 DEF After, Outcome, FilterPlanOneWay, PlanOn, View, Window
    <2> QED  BY <1>8, <2>1, <2>2, <2>3, <2>4 DEF MergeInv

LEMMA StepMergeInv == MergeInv /\ [Next]_vars => MergeInv'
  <1> SUFFICES ASSUME MergeInv, [Next]_vars
               PROVE  MergeInv'
    OBVIOUS
  <1>1. CASE UNCHANGED vars
    <2>1. After(before, ran)' = After(before, ran)
      BY <1>1 DEF vars, After, Outcome, PlanOn, View, Window
    <2>2. \A s \in Sides, id \in Ids :
             Copied(before, ran, s, id)' = Copied(before, ran, s, id)
      BY <1>1 DEF vars, Copied, KindsOn, Shown, TombstoneOf, Window
    <2>3. MergeInv'
      BY <1>1, <2>1, <2>2 DEF vars, MergeInv
    <2> QED  BY <2>3
  <1> QED  BY <1>1, PassMergeInv DEF Next

\* The invariant of the pass, from which the results below follow.
THEOREM MergeInvariant == Spec => []MergeInv
  BY InitMergeInv, StepMergeInv, PTL DEF Spec
-----------------------------------------------------------------------------
(* What the planner compares, as comparisons of numbers.                   *)

LEMMA NewerMeaning ==
  ASSUME NEW a \in Times \cup {NoTime}, NEW b \in Times \cup {NoTime}
  PROVE  /\ Newer(a, b) <=> a # NoTime /\ (b = NoTime \/ a > b)
         /\ MaxTime(a, b) \in {a, b}
         /\ MaxTime(a, b) = NoTime <=> a = NoTime /\ b = NoTime
         /\ a # NoTime => MaxTime(a, b) >= a
         /\ b # NoTime => MaxTime(a, b) >= b
  BY MergeAssumption DEF Newer, CompareModification, MaxTime

\* A tombstone is newer than both copies that the window shows.
Covered(r, id) ==
    DeleteWins(Shown(r, "blue", id), Shown(r, "green", id), TombstoneOf(id))

LEMMA KindsMeaning ==
  ASSUME NEW r, NEW s \in Sides, NEW id
  PROVE  /\ Copying(s) \in KindsOn(r, id) <=>
                ~Covered(r, id) /\ Newer(Shown(r, Other(s), id), Shown(r, s, id))
         /\ Deleting(s) \in KindsOn(r, id) <=>
                Covered(r, id) /\ Shown(r, s, id) # NoTime
  BY DEF KindsOn, KindsFor, Covered, Copying, Deleting, Sides, Other

LEMMA ShownMeaning ==
  ASSUME MergeInv, NEW r \in Tables, NEW s \in Sides, NEW id \in Ids
  PROVE  /\ r[s][id] \in Times \cup {NoTime}
         /\ Shown(r, s, id) \in {r[s][id], NoTime}
         /\ Shown(r, s, id) # NoTime <=> r[s][id] # NoTime /\ start <= r[s][id]
         /\ TombstoneOf(id) \in Times \cup {NoTime}
  <1>1. r[s][id] \in Times \cup {NoTime}
    BY DEF Tables
  <1>2. TombstoneOf(id) \in Times \cup {NoTime}
    BY LastDeletion DEF MergeInv, TombstoneOf
  <1>3. r[s][id] # NoTime => r[s][id] <= Latest
    BY <1>1, LatestIsLast
  <1> QED  BY <1>1, <1>2, <1>3 DEF Shown, InWindow, Window

LEMMA CoveredMeaning ==
  ASSUME MergeInv, NEW r \in Tables, NEW id \in Ids
  PROVE  Covered(r, id) <=>
            /\ TombstoneOf(id) # NoTime
            /\ \E s \in Sides : Shown(r, s, id) # NoTime
            /\ \A s \in Sides : Shown(r, s, id) # NoTime => TombstoneOf(id) > Shown(r, s, id)
  <1> DEFINE b == Shown(r, "blue", id)
             g == Shown(r, "green", id)
             dead == TombstoneOf(id)
  <1>1. b \in Times \cup {NoTime} /\ g \in Times \cup {NoTime} /\ dead \in Times \cup {NoTime}
    BY ShownMeaning DEF Sides
  <1>2. Covered(r, id) <=> dead # NoTime /\ MaxTime(b, g) # NoTime /\ dead > MaxTime(b, g)
    BY DEF Covered, DeleteWins
  <1> HIDE DEF b, g, dead
  <1>3. Covered(r, id) <=> /\ dead # NoTime
                           /\ b # NoTime \/ g # NoTime
                           /\ b # NoTime => dead > b
                           /\ g # NoTime => dead > g
    BY <1>1, <1>2, NewerMeaning, MergeAssumption
  <1> QED  BY <1>3 DEF b, g, dead, Sides

\* The reference's newest copy is one of the two, and no older than either.
LEMMA NewestCopyMeaning ==
  ASSUME MergeInv, NEW id \in Ids, NEW s \in Sides
  PROVE  /\ NewestCopy(id) \in {before[s][id], before[Other(s)][id]}
         /\ NewestCopy(id) = NoTime => before[s][id] = NoTime
         /\ before[s][id] # NoTime => NewestCopy(id) >= before[s][id]
         /\ Seen(id) <=> NewestCopy(id) # NoTime /\ start <= NewestCopy(id)
         /\ SeenOn(s, id) <=> before[s][id] # NoTime /\ start <= before[s][id]
  <1>1. /\ before["blue"][id] \in Times \cup {NoTime}
        /\ before["green"][id] \in Times \cup {NoTime}
    BY DEF MergeInv, Tables, Sides
  <1>2. NewestCopy(id) \in {before["blue"][id], before["green"][id]}
    BY <1>1, NewerMeaning DEF NewestCopy
  <1>3. \A t \in Times \cup {NoTime} : t # NoTime => t <= Latest
    BY LatestIsLast
  <1> QED  BY <1>1, <1>2, <1>3, NewerMeaning
           DEF NewestCopy, Sides, Other, Seen, SeenOn, InWindow, Window

LEMMA LastWriteWins == MergeInv => MergeIsLastWriteWins
  <1> SUFFICES ASSUME MergeInv, ran = "both", NEW id \in Ids, Seen(id), NEW s \in Sides
               PROVE  rows[s][id] = IF Winner(id) = NoTime /\ ~SeenOn(s, id)
                                    THEN before[s][id] ELSE Winner(id)
    BY DEF MergeIsLastWriteWins
  <1> DEFINE mine == before[s][id]
             other == before[Other(s)][id]
             shown == Shown(before, s, id)
             facing == Shown(before, Other(s), id)
             dead == TombstoneOf(id)
             newest == NewestCopy(id)
  <1>1. before \in Tables /\ rows = After(before, "both") /\ "both" \in OneWayModes
    BY DEF MergeInv, OneWayModes
  <1>2. Other(s) \in Sides /\ Other(Other(s)) = s /\ Sides = {s, Other(s)}
    BY DEF Sides, Other
  <1>3. rows[s][id] =
           IF ~Covered(before, id) /\ Newer(facing, shown) THEN other
           ELSE IF Covered(before, id) /\ shown # NoTime THEN NoTime
           ELSE mine
    BY <1>1, RowAfter, KindsMeaning DEF Writes
  <1>4. /\ mine \in Times \cup {NoTime} /\ other \in Times \cup {NoTime}
        /\ dead \in Times \cup {NoTime} /\ start \in Times
        /\ shown = IF mine # NoTime /\ start <= mine THEN mine ELSE NoTime
        /\ facing = IF other # NoTime /\ start <= other THEN other ELSE NoTime
    BY <1>1, <1>2, ShownMeaning DEF MergeInv
  <1>5. /\ newest \in {mine, other} /\ newest # NoTime /\ start <= newest
        /\ mine # NoTime => newest >= mine
        /\ other # NoTime => newest >= other
        /\ SeenOn(s, id) <=> shown # NoTime
    BY <1>2, <1>4, NewestCopyMeaning
  <1>6. Covered(before, id) <=> /\ dead # NoTime
                                /\ shown # NoTime \/ facing # NoTime
                                /\ shown # NoTime => dead > shown
                                /\ facing # NoTime => dead > facing
    BY <1>1, <1>2, CoveredMeaning
  <1>7. Winner(id) = IF dead # NoTime /\ dead > newest THEN NoTime ELSE newest
    BY <1>5 DEF Winner
  <1>8. Newer(facing, shown) <=> facing # NoTime /\ (shown = NoTime \/ facing > shown)
    BY <1>4, NewerMeaning
  <1> HIDE DEF mine, other, shown, facing, dead, newest
  <1>9. Covered(before, id) <=> dead # NoTime /\ dead > newest
    BY <1>4, <1>5, <1>6, MergeAssumption
  <1>10. ~Covered(before, id) => rows[s][id] = newest /\ Winner(id) = newest
    <2>1. /\ mine # NoTime => mine \in Int /\ newest >= mine
          /\ other # NoTime => other \in Int /\ newest >= other
          /\ newest \in Int /\ start \in Int
      BY <1>4, <1>5, MergeAssumption
    <2>2. CASE facing # NoTime /\ (shown = NoTime \/ facing > shown)
      <3>1. other = newest
        <4>1. facing = other /\ other # NoTime /\ start <= other
          BY <1>4, <2>2
        <4>2. ASSUME newest = mine
              PROVE  other = newest
          <5>1. mine # NoTime /\ start <= mine /\ shown = mine
            BY <1>4, <1>5, <2>1, <4>1, <4>2
          <5>2. other > mine
            BY <1>5, <2>2, <4>1, <4>2, <5>1
          <5> QED  BY <2>1, <4>1, <4>2, <5>1, <5>2
        <4> QED  BY <1>5, <4>2
      <3> QED  BY <1>3, <1>7, <1>8, <1>9, <2>2, <3>1
    <2>3. CASE ~(facing # NoTime /\ (shown = NoTime \/ facing > shown))
      <3>1. mine = newest
        <4>1. ASSUME newest = other
              PROVE  mine = newest
          <5>1. facing = other /\ other # NoTime
            BY <1>4, <1>5, <2>1, <4>1
          <5>2. shown = mine /\ mine # NoTime /\ ~(other > mine)
            BY <1>4, <2>3, <5>1
          <5> QED  BY <2>1, <4>1, <5>1, <5>2
        <4> QED  BY <1>5, <4>1
      <3> QED  BY <1>3, <1>7, <1>8, <1>9, <2>3, <3>1
    <2> QED  BY <2>2, <2>3
  <1>11. Covered(before, id) =>
            Winner(id) = NoTime /\ rows[s][id] = IF shown # NoTime THEN NoTime ELSE mine
    BY <1>3, <1>7, <1>9
  <1> QED  BY <1>5, <1>10, <1>11 DEF mine

\* After a pass in both directions a row is the last write, the deletions among
\* the writes, wherever the window shows the newest copy.
THEOREM MergeIsTheLastWrite == Spec => []MergeIsLastWriteWins
  BY LastWriteWins, MergeInvariant, PTL

\* Whatever the window leaves out, in whatever direction the pass runs, no row is
\* replaced by an older one or removed without a later deletion.
THEOREM NoRowGoesBack == Spec => []NeverBackwards
  <1>1. MergeInv => NeverBackwards
    <2> SUFFICES ASSUME MergeInv, NEW s \in Sides, NEW id \in Ids, before[s][id] # NoTime
                 PROVE  \/ rows[s][id] # NoTime /\ rows[s][id] >= before[s][id]
                        \/ /\ rows[s][id] = NoTime
                           /\ TombstoneOf(id) # NoTime
                           /\ TombstoneOf(id) > NewestCopy(id)
      BY DEF NeverBackwards
    <2> DEFINE mine == before[s][id]
               other == before[Other(s)][id]
               shown == Shown(before, s, id)
               facing == Shown(before, Other(s), id)
               dead == TombstoneOf(id)
               newest == NewestCopy(id)
    <2>1. before \in Tables
      BY DEF MergeInv
    <2>2. Other(s) \in Sides /\ Sides = {s, Other(s)} /\ Other(Other(s)) = s
      BY DEF Sides, Other
    <2>3. /\ mine \in Times /\ other \in Times \cup {NoTime}
          /\ dead \in Times \cup {NoTime} /\ start \in Times
          /\ shown = IF start <= mine THEN mine ELSE NoTime
          /\ facing = IF other # NoTime /\ start <= other THEN other ELSE NoTime
      BY <2>1, <2>2, ShownMeaning DEF MergeInv
    <2>4. newest \in {mine, other} /\ newest # NoTime
      BY <2>2, <2>3, NewestCopyMeaning
    <2>5. CASE rows[s][id] = mine
      BY <2>3, <2>5, MergeAssumption
    <2>6. CASE Newer(facing, shown) /\ rows[s][id] = other
      <3>1. facing # NoTime /\ (shown = NoTime \/ facing > shown)
        BY <2>3, <2>6, NewerMeaning
      <3>2. other # NoTime /\ other >= mine
        <4> HIDE DEF mine, other, shown, facing
        <4>1. other # NoTime /\ facing = other /\ start <= other
          BY <2>3, <3>1
        <4>2. mine \in Int /\ other \in Int /\ start \in Int
          BY <2>3, <4>1, MergeAssumption
        <4>3. CASE start <= mine
          BY <2>3, <3>1, <4>1, <4>2, <4>3, MergeAssumption
        <4>4. CASE ~(start <= mine)
          BY <4>1, <4>2, <4>4
        <4> QED  BY <4>3, <4>4
      <3> QED  BY <2>6, <3>2
    <2>7. CASE Covered(before, id) /\ shown # NoTime /\ rows[s][id] = NoTime
      <3>1. dead # NoTime /\ dead > shown /\ (facing # NoTime => dead > facing)
        BY <2>1, <2>2, <2>7, CoveredMeaning
      <3>2. dead > newest
        <4> HIDE DEF mine, other, shown, facing, dead, newest
        <4> QED  BY <2>3, <2>4, <2>7, <3>1, MergeAssumption
      <3> QED  BY <2>7, <3>1, <3>2
    <2>8. \/ rows[s][id] = mine
          \/ Newer(facing, shown) /\ rows[s][id] = other
          \/ Covered(before, id) /\ shown # NoTime /\ rows[s][id] = NoTime
      <3>1. ran = "none" => rows[s][id] = mine
        BY DEF MergeInv
      <3>2. ran # "none" => rows = After(before, ran) /\ ran \in OneWayModes
        BY DEF MergeInv
      <3> QED  BY <3>1, <3>2, RowAfter, KindsMeaning
    <2> QED  BY <2>5, <2>6, <2>7, <2>8
  <1> QED  BY <1>1, MergeInvariant, PTL

\* Whatever times the servers give the rows they are sent, and in every mode, the
\* plan that verifies a pass has nothing but copies of one write in it.
THEOREM EchoesMoveNothing == Spec => []SecondPlanOnlyEchoes
  <1>1. MergeInv => SecondPlanOnlyEchoes
    <2> SUFFICES ASSUME MergeInv, ran # "none", journal = {}, NEW op \in SecondPlan
                 PROVE  rows["blue"][op.id] = rows["green"][op.id]
      BY DEF SecondPlanOnlyEchoes
    <2> DEFINE id == op.id
    <2>1. /\ ran \in OneWayModes /\ before \in Tables /\ stamps \in Tables
          /\ rows = After(before, ran)
      BY DEF MergeInv
    <2>2. PICK s \in Sides : Copied(stamps, ran, s, id) /\ id \in Ids
      <3>1. op \in PlanOn(stamps) /\ Writes(ran, Target(op.kind))
        BY <2>1 DEF SecondPlan, FilterPlanOneWay, Writes, OneWayModes, Target
      <3>2. id \in Ids /\ op.kind \in KindsOn(stamps, id)
        BY <3>1, PlanOfRow DEF Op
      <3>3. TombstoneOf(id) = NoTime
        BY <3>2, LastDeletion DEF TombstoneOf
      <3>4. op.kind \in {"CopyToGreen", "CopyToBlue"}
        BY <3>2, <3>3 DEF KindsOn, KindsFor, DeleteWins
      <3>5. CASE op.kind = "CopyToBlue"
        BY <3>1, <3>2, <3>5 DEF Copied, Copying, Target, Sides
      <3>6. CASE op.kind = "CopyToGreen"
        BY <3>1, <3>2, <3>6 DEF Copied, Copying, Target, Sides
      <3> QED  BY <3>4, <3>5, <3>6
    <2> HIDE DEF id
    <2>3. \A r : ~Covered(r, id)
      BY <2>2, LastDeletion DEF Covered, DeleteWins, TombstoneOf
    <2>4. \A x \in Sides : rows[x][id] =
             IF Copied(before, ran, x, id) THEN before[Other(x)][id] ELSE before[x][id]
      BY <2>1, <2>2, <2>3, RowAfter, KindsMeaning DEF Copied
    <2>5. PICK x \in Sides : Copied(before, ran, x, id)
      <3>1. SUFFICES ASSUME \A x \in Sides : ~Copied(before, ran, x, id)
                     PROVE  FALSE
        OBVIOUS
      <3>2. \A x \in Sides : stamps[x][id] = before[x][id]
        BY <2>2, <2>4, <3>1 DEF MergeInv
      <3>3. KindsOn(stamps, id) = KindsOn(before, id)
        BY <3>2 DEF KindsOn, Shown, Sides
      <3> QED  BY <2>2, <3>1, <3>3 DEF Copied
    <2>6. ~Copied(before, ran, Other(x), id)
      <3>1. Other(x) \in Sides /\ Other(Other(x)) = x
        BY DEF Sides, Other
      <3>2. Newer(Shown(before, Other(x), id), Shown(before, x, id))
        BY <2>5, KindsMeaning DEF Copied
      <3>3. ~Newer(Shown(before, x, id), Shown(before, Other(x), id))
        <4>1. \A y \in Sides : Shown(before, y, id) \in Times \cup {NoTime}
          BY <2>1, <2>2, ShownMeaning
        <4>2. /\ Shown(before, x, id) \in Times \cup {NoTime}
              /\ Shown(before, Other(x), id) \in Times \cup {NoTime}
          BY <3>1, <4>1
        <4> DEFINE a == Shown(before, x, id)
                   b == Shown(before, Other(x), id)
        <4> HIDE DEF a, b
        <4>3. a \in Times \cup {NoTime} /\ b \in Times \cup {NoTime} /\ Newer(b, a)
          BY <3>2, <4>2 DEF a, b
        <4>4. ~Newer(a, b)
          BY <4>3, NewerMeaning, MergeAssumption
        <4> QED  BY <4>4 DEF a, b
      <3> QED  BY <3>1, <3>3, KindsMeaning DEF Copied
    <2> QED  BY <2>4, <2>5, <2>6 DEF Sides, Other, id
  <1> QED  BY <1>1, MergeInvariant, PTL
=============================================================================
