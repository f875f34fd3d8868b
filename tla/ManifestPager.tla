----------------------------- MODULE ManifestPager -----------------------------
(***************************************************************************)
(* How one manifest is read: FetchManifestWithProgress and manifestCursor  *)
(* (internal/odata/manifest.go) ask one server for the rows of a window,   *)
(* a page at a time, oldest first, while users go on editing them.         *)
(*                                                                         *)
(* A page is one request, and the server answers it at one moment.  After  *)
(* a full page the fetch goes on with a keyset cursor, the stamp and key   *)
(* of the last usable row, unless the server gave it a link to follow.     *)
(*                                                                         *)
(* Stamps are ticks, Unit to a second: FileMaker stamps a row with whole   *)
(* seconds, an imported row may keep a fraction, and the filter the        *)
(* program sends has no fractions.  TablePass reads every row of a window  *)
(* by itself (ScanRow); ManifestIsCurrent says that pages come to the same.*)
(*                                                                         *)
(* Not here: the retries of a page request (RecordWriter has them), blank  *)
(* keys and two rows with one key.                                         *)
(***************************************************************************)
EXTENDS Integers, FiniteSets

CONSTANTS
    Keys,       \* the primary keys, in the order of the server
    NoTime,     \* no such row, or not in the window
    PageSize,   \* manifestPageSize: 50 in the code
    Unit,       \* ticks in a second
    WinStart, WinEnd, \* the window, in ticks
    StartNow,   \* the server's clock when the fetch begins
    MaxNow,     \* bound on the server's clock, for model checking
    MaxEdits    \* bound on the user operations, for model checking

ASSUME PagerAssumption ==
    /\ Keys \subseteq Int /\ IsFiniteSet(Keys) /\ NoTime \notin Int
    /\ {PageSize, Unit} \subseteq Nat \ {0}
    /\ {WinStart, WinEnd, StartNow, MaxNow, MaxEdits} \subseteq Nat

VARIABLES
    now,      \* the server's clock
    edits,    \* user operations so far
    mod,      \* mod[k]: the stamp of row k
    readable, \* the rows whose key is a string and whose stamp parses
    pc,       \* "page", "ended" or "failed"
    from,     \* where the next page begins: [by |-> how, mod |-> t, key |-> k]
    out,      \* out[k]: the stamp recorded for row k, NoTime if none
    seen      \* ghost: seen[k] has every view of row k since the fetch began

server == <<now, edits, mod, readable>>
fetch == <<pc, from, out>>
vars == <<server, fetch, seen>>

Second(t) == (t \div Unit) * Unit
Nothing == [k \in Keys |-> NoTime]
FirstPage == [by |-> "start", mod |-> NoTime, key |-> NoTime]
-----------------------------------------------------------------------------
(* What the server answers.                                                *)

\* The bounds of the window are sent in whole seconds.
InManifest(m, k) ==
    m[k] # NoTime /\ m[k] >= Second(WinStart) /\ m[k] <= Second(WinEnd)

View(m, k) == IF InManifest(m, k) THEN m[k] ELSE NoTime

Before(j, k) == mod[j] < mod[k] \/ (mod[j] = mod[k] /\ j < k)

\* Faulty: the cursor forgets the key.
AheadByStamp(k) ==
    CASE from.by = "start"  -> TRUE
      [] from.by = "cursor" -> mod[k] > Second(from.mod)
      [] from.by = "link"   -> mod[k] > from.mod \/ (mod[k] = from.mod /\ k > from.key)

\* Faulty: the cursor includes the row it was taken from.
AheadOrAt(k) ==
    CASE from.by = "start"  -> TRUE
      [] from.by = "cursor" ->
            mod[k] > Second(from.mod) \/ (mod[k] = Second(from.mod) /\ k >= from.key)
      [] from.by = "link"   -> mod[k] > from.mod \/ (mod[k] = from.mod /\ k > from.key)

\* The cursor is sent in whole seconds; a link goes on after the exact row.
Ahead(k) ==
    CASE from.by = "start"  -> TRUE
      [] from.by = "cursor" ->
            mod[k] > Second(from.mod) \/ (mod[k] = Second(from.mod) /\ k > from.key)
      [] from.by = "link"   -> mod[k] > from.mod \/ (mod[k] = from.mod /\ k > from.key)

Matching == {k \in Keys : InManifest(mod, k) /\ Ahead(k)}

Page ==
    LET rows == Matching
    IN {k \in rows : Cardinality({j \in rows : Before(j, k)}) < PageSize}

LastOf(rows) == CHOOSE k \in rows : \A j \in rows \ {k} : Before(j, k)
-----------------------------------------------------------------------------
Init ==
    /\ edits = 0
    /\ now = StartNow
    /\ mod \in [Keys -> (0 .. StartNow) \cup {NoTime}]
    /\ readable \in SUBSET Keys
    /\ pc = "page"
    /\ from = FirstPage
    /\ out = Nothing
    /\ seen = [k \in Keys |-> {View(mod, k)}]

Tick ==
    /\ pc = "page"
    /\ now < MaxNow
    /\ now' = now + 1
    /\ UNCHANGED <<edits, mod, readable, fetch, seen>>

\* A user's operation leaves row k with stamp t.
Change(k, t) ==
    /\ pc = "page"
    /\ edits < MaxEdits
    /\ edits' = edits + 1
    /\ mod' = [mod EXCEPT ![k] = t]
    /\ seen' = [seen EXCEPT ![k] = @ \cup {View(mod', k)}]
    /\ UNCHANGED <<now, readable, fetch>>

\* FileMaker stamps an edit with whole seconds: a row never gets an older stamp.
Edit(k) == mod[k] # NoTime /\ mod[k] <= Second(now) /\ Change(k, Second(now))

Delete(k) == mod[k] # NoTime /\ Change(k, NoTime)

\* An import, or another FreeSync, creates a row with the stamp it had elsewhere;
\* keys are UUIDs, no row of the window had this one before.
Import(k) == mod[k] = NoTime /\ seen[k] = {NoTime} /\ \E t \in 0 .. now : Change(k, t)

User == \E k \in Keys : Edit(k) \/ Delete(k) \/ Import(k)
-----------------------------------------------------------------------------
(* The fetch.                                                              *)

\* Faulty: a row without a usable stamp is recorded with Go's zero time.
CollectZeroTime ==
    /\ LET rows == Page
       IN out' = [k \in Keys |-> IF k \in rows \cap readable THEN mod[k]
                                ELSE IF k \in rows THEN -1 ELSE out[k]]
    /\ UNCHANGED <<server, seen>>

\* Rows without a usable key and stamp are left out, and still fill the page.
Collect ==
    /\ LET rows == Page \cap readable
       IN out' = [k \in Keys |-> IF k \in rows THEN mod[k] ELSE out[k]]
    /\ UNCHANGED <<server, seen>>

Full == Cardinality(Page) = PageSize

\* The server may link the rest of its answer: it does so only if there is one.  The
\* program follows whatever link it gets; that the link goes on after the last row
\* of the page, by stamp and key, is an assumption on the server, and a link that
\* counts rows instead would skip one when an earlier row moves to the end.
FollowLink ==
    /\ pc = "page"
    /\ Page # Matching
    /\ LET last == LastOf(Page)
       IN from' = [by |-> "link", mod |-> mod[last], key |-> last]
    /\ Collect
    /\ UNCHANGED pc

LastPage ==
    /\ pc = "page"
    /\ ~Full
    /\ pc' = "ended"
    /\ Collect
    /\ UNCHANGED from

\* manifestCursor takes the last row it can use.
NextByCursor ==
    /\ pc = "page"
    /\ Full
    /\ Page \cap readable # {}
    /\ LET last == LastOf(Page \cap readable)
       IN from' = [by |-> "cursor", mod |-> mod[last], key |-> last]
    /\ Collect
    /\ UNCHANGED pc

Fail ==
    /\ pc' = "failed"
    /\ from' = FirstPage
    /\ out' = Nothing
    /\ seen' = [k \in Keys |-> {}]
    /\ UNCHANGED server

NoCursor ==
    /\ pc = "page"
    /\ Full
    /\ Page \cap readable = {}
    /\ Fail

\* The request failed, or its answer is no JSON: nothing is returned.
PageFails ==
    /\ pc = "page"
    /\ Fail

ReadPage == FollowLink \/ LastPage \/ NextByCursor \/ NoCursor

Done == pc # "page" /\ UNCHANGED vars

Next == Tick \/ User \/ ReadPage \/ PageFails \/ Done

Spec == Init /\ [][Next]_vars

\* The fetch goes on by itself; users, the clock and failures owe nothing.
FairSpec == Spec /\ WF_vars(ReadPage)
-----------------------------------------------------------------------------
(* Correctness.                                                            *)

Stamps == Nat \cup {NoTime}

TypeOK ==
    /\ now \in Nat /\ edits \in Nat
    /\ mod \in [Keys -> Stamps]
    /\ readable \subseteq Keys
    /\ pc \in {"page", "ended", "failed"}
    /\ from \in [by : {"start", "cursor", "link"}, mod : Stamps, key : Keys \cup {NoTime}]
    /\ out \in [Keys -> Stamps]
    /\ seen \in [Keys -> SUBSET Stamps]

\* A manifest that was read to its end has, for every row it can use, a stamp the
\* row had in the window while the pages were read; a row it does not have was
\* outside the window at some moment of the fetch.  Pages that overlap, rows that
\* move to the end of the order and links in between make no difference.
ManifestIsCurrent ==
    pc = "ended" => \A k \in readable : out[k] \in seen[k]

WholeSeconds == \A k \in Keys : mod[k] # NoTime => mod[k] = Second(mod[k])

\* The fetch ends.  It needs the users to stop, and stamps of whole seconds: the
\* cursor taken from a stamp with a fraction lies in front of its own row, and a
\* page of such rows is read for ever.
FetchEnds == []WholeSeconds => (pc = "page" ~> pc # "page")
=============================================================================
