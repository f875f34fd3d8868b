--------------------------- MODULE Bootstrap_proofs ---------------------------
(***************************************************************************)
(* Proofs about Bootstrap, for every set of rows, every length of the      *)
(* heads and every precision and number of iterations of the search.       *)
(***************************************************************************)
EXTENDS Bootstrap, TLAPS

\* What the search knows of its interval as long as nobody changes the tables: it
\* diverges at the low end and, once that end has moved, not at the high one.
SearchInv ==
    touches = 0 =>
        /\ blueHead # NoHead => blueHead = Head("blue", ProbeAt)
        /\ phase = "search" => HeadsDiffer(low)
        /\ high # End => ~HeadsDiffer(high)
        /\ phase = "done" /\ ~fellBack /\ HeadsDiffer(Widest) =>
              /\ start = low /\ HeadsDiffer(low)
              /\ iter = MaxIterations \/ high - low <= MinSpan

\* The steps of the search come in their order.
StageInv ==
    /\ phase = "widest" => low = Widest /\ high = End
    /\ phase = "search" /\ blueHead # NoHead => iter < MaxIterations
    /\ phase # "done" => ~fellBack

BootstrapInv == TypeOK /\ StageInv /\ SearchInv
-----------------------------------------------------------------------------
(* Heads and windows.                                                      *)

LEMMA Bounds ==
    /\ End \in Int /\ MaxLookback \in Nat /\ Lookback \in Nat /\ MaxIterations \in Nat
    /\ MinSpan \in Nat \ {0} /\ MaxTouches \in Nat
    /\ NoTime \notin Int
    /\ Widest \in Int /\ Widest <= End
  BY BootstrapAssumption DEF Widest

\* A head depends on the times of its side and on the bounds of the window alone.
LEMMA HeadOfRows ==
  ASSUME NEW ts, \A id \in Ids, s, u \in Sides :
            LET w == WindowFrom(ts) IN
            \/ mod[s][id] = mod[u][id]
            \/ ~InWindow(mod[s][id], w) /\ ~InWindow(mod[u][id], w)
  PROVE  ~HeadsDiffer(ts)
  <1>1. Rows("blue", ts) \subseteq Rows("green", ts)
    BY DEF Rows, Sides
  <1>2. Rows("green", ts) \subseteq Rows("blue", ts)
    BY DEF Rows, Sides
  <1>3. Rows("blue", ts) = Rows("green", ts)
    BY <1>1, <1>2
  <1> QED  BY <1>3 DEF Head, HeadsDiffer

\* The middle lies within the interval, and before its end if there is room.
LEMMA MidIsBetween ==
  ASSUME low \in Int, high \in Int, low <= high
  PROVE  Mid \in Int /\ low <= Mid /\ Mid <= high
  BY DEF Mid
-----------------------------------------------------------------------------
(* Every step keeps BootstrapInv.                                          *)

LEMMA InitBootstrapInv == Init => BootstrapInv
  <1> SUFFICES ASSUME Init
               PROVE  BootstrapInv
    OBVIOUS
  <1> USE Bounds DEF Init
  <1>1. TypeOK
    <2>1. fellBack \in BOOLEAN
      BY Zenon
    <2>2. mod \in [Sides -> [Ids -> (Widest .. End + 1) \cup {NoTime}]]
      <3>1. (Widest .. End) \cup {NoTime} \subseteq (Widest .. End + 1) \cup {NoTime}
        OBVIOUS
      <3> QED  BY <3>1
    <2> QED  BY <2>1, <2>2 DEF TypeOK
  <1>2. StageInv
    BY DEF StageInv
  <1>3. SearchInv
    BY DEF SearchInv
  <1> QED  BY <1>1, <1>2, <1>3 DEF BootstrapInv

LEMMA ReadBlueHeadKeepsInv ==
  ASSUME BootstrapInv, ReadBlueHead
  PROVE  BootstrapInv'
  <1> USE DEF BootstrapInv, ReadBlueHead
  <1>1. TypeOK'
    <2>1. \A row \in blueHead' : row.id \in Ids
      BY DEF Head, Rows
    <2> QED  BY <2>1 DEF TypeOK
  <1>2. StageInv'
    BY Bounds DEF StageInv, Narrow, TypeOK
  <1>3. SearchInv'
    <2>1. \A s, ts : Head(s, ts)' = Head(s, ts)
      BY DEF Head, Rows
    <2> QED
      BY <2>1 DEF SearchInv, HeadsDiffer, ProbeAt, Mid
  <1> QED  BY <1>1, <1>2, <1>3

\* While nobody touches the tables the second head makes the probe what it is
\* at one moment.
LEMMA ProbeIsTrue ==
  ASSUME BootstrapInv, blueHead # NoHead, touches = 0
  PROVE  Divergent <=> HeadsDiffer(ProbeAt)
  BY DEF BootstrapInv, SearchInv, Divergent, HeadsDiffer

LEMMA WidestInSyncKeepsInv ==
  ASSUME BootstrapInv, WidestInSync
  PROVE  BootstrapInv'
  <1> USE DEF BootstrapInv, WidestInSync, Answer
  <1>1. TypeOK'
    BY Bounds DEF TypeOK, StageInv
  <1>2. StageInv'
    BY DEF StageInv
  <1>3. SearchInv'
    <2>1. \A s, ts : Head(s, ts)' = Head(s, ts)
      BY DEF Head, Rows
    <2>2. touches = 0 => ~HeadsDiffer(Widest)
      BY ProbeIsTrue DEF ProbeAt, StageInv
    <2> QED  BY <2>1, <2>2 DEF SearchInv, HeadsDiffer, StageInv
  <1> QED  BY <1>1, <1>2, <1>3

LEMMA WidestDivergesKeepsInv ==
  ASSUME BootstrapInv, WidestDiverges
  PROVE  BootstrapInv'
  <1> USE DEF BootstrapInv, WidestDiverges
  <1>1. TypeOK'
    BY DEF TypeOK
  <1>2. StageInv'
    BY DEF StageInv
  <1>3. SearchInv'
    <2>1. \A s, ts : Head(s, ts)' = Head(s, ts)
      BY DEF Head, Rows
    <2>2. touches = 0 => HeadsDiffer(low)
      BY ProbeIsTrue DEF ProbeAt
    <2> QED  BY <2>1, <2>2 DEF SearchInv, HeadsDiffer, StageInv
  <1> QED  BY <1>1, <1>2, <1>3

LEMMA HalveKeepsInv ==
  ASSUME BootstrapInv, Halve
  PROVE  BootstrapInv'
  <1> USE DEF BootstrapInv, Halve
  <1>1. /\ low \in Int /\ high \in Int /\ iter \in Nat /\ iter < MaxIterations
        /\ Mid \in Int /\ low <= Mid /\ Mid <= high
    BY MidIsBetween, Bounds DEF TypeOK, StageInv
  <1>2. TypeOK'
    BY <1>1, Bounds DEF TypeOK
  <1>3. StageInv'
    BY DEF StageInv
  <1>4. SearchInv'
    <2>1. \A s, ts : Head(s, ts)' = Head(s, ts)
      BY DEF Head, Rows
    <2>2. touches = 0 => (Divergent <=> HeadsDiffer(Mid))
      BY ProbeIsTrue DEF ProbeAt
    <2> QED  BY <2>1, <2>2 DEF SearchInv, HeadsDiffer
  <1> QED  BY <1>2, <1>3, <1>4

LEMMA StopKeepsInv ==
  ASSUME BootstrapInv, Stop
  PROVE  BootstrapInv'
  <1> USE DEF BootstrapInv, Stop, Answer, Narrow
  <1>1. TypeOK'
    BY Bounds DEF TypeOK
  <1>2. StageInv'
    BY DEF StageInv
  <1>3. SearchInv'
    <2>1. \A s, ts : Head(s, ts)' = Head(s, ts)
      BY DEF Head, Rows
    <2> QED  BY <2>1 DEF SearchInv, HeadsDiffer
  <1> QED  BY <1>1, <1>2, <1>3

LEMMA ProbeFailsKeepsInv ==
  ASSUME BootstrapInv, ProbeFails
  PROVE  BootstrapInv'
  <1> USE DEF BootstrapInv, ProbeFails, Answer
  <1>1. TypeOK'
    <2>1. fellBack' \in BOOLEAN
      BY Zenon
    <2> QED  BY <2>1 DEF TypeOK
  <1>2. StageInv'
    BY DEF StageInv
  <1>3. SearchInv'
    <2>1. \A s, ts : Head(s, ts)' = Head(s, ts)
      BY DEF Head, Rows
    <2> QED  BY <2>1 DEF SearchInv, HeadsDiffer
  <1> QED  BY <1>1, <1>2, <1>3

LEMMA TouchKeepsInv ==
  ASSUME BootstrapInv, NEW s \in Sides, NEW id \in Ids, Touch(s, id)
  PROVE  BootstrapInv'
  <1> USE DEF BootstrapInv, Touch
  <1>1. touches \in Nat /\ touches' = touches + 1
    BY Bounds DEF TypeOK
  <1>2. TypeOK'
    <2>1. End + 1 \in Widest .. End + 1
      BY Bounds
    <2>2. mod' \in [Sides -> [Ids -> (Widest .. End + 1) \cup {NoTime}]]
      BY <2>1 DEF TypeOK
    <2>3. touches' \in 0 .. MaxTouches
      BY Bounds DEF TypeOK
    <2> QED  BY <2>2, <2>3 DEF TypeOK
  <1>3. StageInv'
    BY DEF StageInv
  <1>4. SearchInv'
    BY <1>1 DEF SearchInv
  <1> QED  BY <1>2, <1>3, <1>4

LEMMA StepBootstrapInv == BootstrapInv /\ [Next]_vars => BootstrapInv'
  <1> SUFFICES ASSUME BootstrapInv, [Next]_vars
               PROVE  BootstrapInv'
    OBVIOUS
  <1>1. CASE UNCHANGED vars
    <2> USE <1>1 DEF vars, BootstrapInv
    <2>1. \A s, ts : Head(s, ts)' = Head(s, ts)
      BY DEF Head, Rows
    <2>2. TypeOK'
      BY DEF TypeOK
    <2>3. StageInv'
      BY DEF StageInv
    <2>4. SearchInv'
      BY <2>1 DEF SearchInv, HeadsDiffer, ProbeAt, Mid
    <2> QED  BY <2>2, <2>3, <2>4
  <1> QED
    BY <1>1, ReadBlueHeadKeepsInv, WidestInSyncKeepsInv, WidestDivergesKeepsInv,
       HalveKeepsInv, StopKeepsInv, ProbeFailsKeepsInv, TouchKeepsInv
       DEF Next, SearchStep

\* The invariant of the search, from which the results below follow.
THEOREM BootstrapInvariant == Spec => []BootstrapInv
  BY InitBootstrapInv, StepBootstrapInv, PTL DEF Spec

\* Every variable of the search keeps its type, and the interval stays within the
\* widest window.
THEOREM BootstrapTypeCorrect == Spec => []TypeOK
  <1>1. BootstrapInv => TypeOK
    BY DEF BootstrapInv
  <1> QED  BY <1>1, BootstrapInvariant, PTL

\* The tables diverge in the window that begins at low, as the comment of the
\* search has it, while nobody changes them.
THEOREM LowDiverges == Spec => []LowIsDivergent
  <1>1. BootstrapInv => LowIsDivergent
    BY DEF BootstrapInv, SearchInv, LowIsDivergent
  <1> QED  BY <1>1, BootstrapInvariant, PTL

\* The window found is one in which the planner finds work, however short the
\* heads and however few the probes.
THEOREM FirstPassIsNotEmpty == Spec => []FirstPassHasWork
  <1>1. BootstrapInv => FirstPassHasWork
    <2> SUFFICES ASSUME BootstrapInv, Searched,
                        BuildPlan(Windowed("blue"), Windowed("green"), {}) = {}
                 PROVE  FALSE
      BY DEF FirstPassHasWork
    <2>1. HeadsDiffer(start)
      BY DEF Searched, BootstrapInv, SearchInv
    <2>2. ASSUME NEW id \in Ids
          PROVE  Windowed("blue")[id] = Windowed("green")[id]
      <3> DEFINE b == Windowed("blue")[id]
                 g == Windowed("green")[id]
      <3>1. DelMax({})[id] = NoTime
        BY DEF DelMax
      <3>2. \A kind \in OpKind : kind \notin KindsFor(b, g, NoTime)
        <4> TAKE kind \in OpKind
        <4> DEFINE op == [id |-> id, kind |-> kind]
        <4>1. op \in Op /\ op.id = id /\ op.kind = kind
          BY DEF Op
        <4> HIDE DEF op
        <4> QED  BY <3>1, <4>1 DEF BuildPlan
      <3>3. ~Newer(b, g) /\ ~Newer(g, b)
        <4>1. "CopyToGreen" \in OpKind /\ "CopyToBlue" \in OpKind
          BY DEF OpKind
        <4> HIDE DEF b, g
        <4> QED  BY <3>2, <4>1 DEF KindsFor, DeleteWins
      <3>4. b \in Int \cup {NoTime} /\ g \in Int \cup {NoTime}
        <4>1. ASSUME NEW s \in Sides
              PROVE  mod[s][id] \in Int \cup {NoTime}
          <5>1. mod[s][id] \in (Widest .. End + 1) \cup {NoTime}
            BY DEF BootstrapInv, TypeOK
          <5> QED  BY <5>1
        <4>2. ASSUME NEW s \in Sides
              PROVE  Windowed(s)[id] \in {mod[s][id], NoTime}
          BY DEF Windowed
        <4>3. "blue" \in Sides /\ "green" \in Sides
          BY DEF Sides
        <4> QED  BY <4>1, <4>2, <4>3
      <3> HIDE DEF b, g
      <3>5. b = g
        <4>1. b = NoTime <=> g = NoTime
          BY <3>3, Zenon DEF Newer
        <4>2. CASE b \in Int /\ g \in Int
          <5>1. ~(b > g) /\ ~(g > b)
            BY <3>3, <4>2, Bounds DEF Newer, CompareModification
          <5> QED  BY <4>2, <5>1
        <4> QED  BY <3>4, <4>1, <4>2, Bounds
      <3> QED  BY <3>5 DEF b, g
    <2>3. ASSUME NEW id \in Ids, NEW s \in Sides, NEW u \in Sides
          PROVE  \/ mod[s][id] = mod[u][id]
                 \/ /\ ~InWindow(mod[s][id], WindowFrom(start))
                    /\ ~InWindow(mod[u][id], WindowFrom(start))
      BY <2>2 DEF Windowed, Sides, InWindow
    <2> QED  BY <2>1, <2>3, HeadOfRows
  <1> QED  BY <1>1, BootstrapInvariant, PTL

\* For a probe that is monotone the search finds the latest start that diverges,
\* to the precision it was given.
THEOREM BoundaryIsFound == Spec => []FindsTheBoundary
  <1>1. BootstrapInv => FindsTheBoundary
    <2> SUFFICES ASSUME BootstrapInv, Searched, ProbeIsMonotone
                 PROVE  /\ HeadsDiffer(start)
                        /\ iter < MaxIterations =>
                              \A ts \in start + MinSpan + 1 .. End : ~HeadsDiffer(ts)
      BY DEF FindsTheBoundary
    <2> USE DEF BootstrapInv
    <2>1. /\ start = low /\ HeadsDiffer(low)
          /\ iter = MaxIterations \/ high - low <= MinSpan
          /\ high # End => ~HeadsDiffer(high)
      BY DEF Searched, SearchInv
    <2>2. /\ low \in Int /\ high \in Int /\ Widest <= low /\ low <= high /\ high <= End
          /\ iter \in Nat
      BY Bounds DEF TypeOK
    <2>3. ASSUME iter < MaxIterations, NEW ts \in start + MinSpan + 1 .. End, HeadsDiffer(ts)
          PROVE  FALSE
      <3>1. high <= start + MinSpan
        BY <2>1, <2>2, <2>3, Bounds
      <3>2. high \in Widest .. End /\ ts \in Widest .. End /\ high < ts
        BY <2>1, <2>2, <2>3, <3>1, Bounds
      <3>3. HeadsDiffer(high)
        BY <2>3, <3>2 DEF ProbeIsMonotone
      <3>4. high # End
        BY <3>2, Bounds
      <3> QED  BY <2>1, <3>3, <3>4
    <2> QED  BY <2>1, <2>3
  <1> QED  BY <1>1, BootstrapInvariant, PTL
=============================================================================
