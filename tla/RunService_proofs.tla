-------------------------- MODULE RunService_proofs --------------------------
(***************************************************************************)
(* Proofs about RunService and the CheckpointStore under it, for every set *)
(* of requests, commands and tables, every number of files and bound on    *)
(* the checkpoint times.                                                   *)
(***************************************************************************)
EXTENDS RunService, FiniteSetTheorems, WellFoundedInduction, TLAPS

\* A document whose checkpoints were earned by passes over their own tables.
Earned(d) ==
    \A t \in Tables : d[t] # Store!Nothing => d[t].of = t /\ d[t].time <= clock

\* Every document there is was earned, crossed saves or not.
DocumentInv ==
    /\ \A p \in Requests : Earned(doc[p])
    /\ Store!IsWhole(file) => Earned(file)
    /\ Store!IsWhole(tmp) => Earned(tmp)

\* A pass saves a time read since its run began the file group.
TimeInv ==
    \A p \in Requests :
        /\ now[p] <= clock /\ through[p] <= clock
        /\ group[p] # 0 => now[p] # 0
        /\ pc[p] # "idle" => table[p] \in Tables /\ now[p] # 0 /\ now[p] <= through[p]

\* As long as no two processes were in a save together, the one that is holds all
\* that the state file has and more, and the temporary file is its own.
SaveInv ==
    ~crossed =>
        /\ file # Partial
        /\ \A p, q \in Requests : pc[p] \in Store!Saving /\ pc[q] \in Store!Saving => p = q
        /\ \A p \in Requests : pc[p] \in Store!Saving =>
              /\ \A t \in Tables :
                    Store!Get(file, t) # Store!Nothing => doc[p][t] # Store!Nothing
              /\ doc[p][table[p]] # Store!Nothing
        /\ \A p \in Requests :
              /\ pc[p] = "write" => handle[p] = "tmp" /\ tmp = Partial
              /\ pc[p] = "rename" => tmp = doc[p]

\* As long as no two processes were in a run together, the document of a save is
\* the state file with a time for its table that is no earlier than the old one.
LoneInv ==
    ~overlapped =>
        /\ ~crossed
        /\ \A p, q \in Requests : now[p] # 0 /\ now[q] # 0 => p = q
        /\ \A p \in Requests : pc[p] \in Store!Saving =>
              /\ \A t \in Tables : t # table[p] => doc[p][t] = Store!Get(file, t)
              /\ doc[p][table[p]].time >= Store!Get(file, table[p]).time

\* The flag is taken exactly while a handler of the server holds it; only a run
\* begins file groups and works on tables.
FlagInv ==
    /\ running <=> Holders # {}
    /\ \A r, q \in Holders : r = q
    /\ command = {} => ~overlapped
    /\ \A r \in Requests :
          /\ state[r] # "idle" => status[r] = "none"
          /\ state[r] # "run" => result[r] = NoResults
          /\ now[r] # 0 => state[r] = "run"

\* A run is at the first table that is left, the tables of a file are brought
\* through in their order up to the first that fails, and a saved checkpoint is
\* in the state file.
TableInv ==
    \A r \in Requests :
        /\ pc[r] # "idle" => Left(r) # {} /\ table[r] = NextTable(r) /\ InGroup(r)
        /\ \A t, u \in Tables : u[1] = t[1] /\ u[2] < t[2] /\ result[r][t] \in Outcomes =>
              result[r][u] \notin {"none", "failed"}
        /\ \A t \in Tables :
              result[r][t] = "saved" /\ ~crossed => Store!Get(file, t) # Store!Nothing

\* A run without another beside it is ahead of the checkpoints it has yet to save.
AheadInv ==
    ~overlapped => \A r \in Requests : now[r] # 0 =>
        \A t \in Tables : t[1] = group[r] /\ result[r][t] = "none" =>
            Store!Get(file, t).time <= now[r]

FileInv == DocumentInv /\ TimeInv /\ SaveInv /\ LoneInv
StoreInv == Store!TypeOK /\ FileInv
ServiceInv == TypeOK /\ FileInv /\ FlagInv /\ TableInv /\ AheadInv
-----------------------------------------------------------------------------
(* The checkpoint store: every step of a process keeps StoreInv.           *)

LEMMA StoreFacts ==
    /\ MaxTime \in Nat /\ NoTable \notin Tables /\ Missing # Partial
    /\ Missing \notin Store!Document /\ Partial \notin Store!Document
    /\ Store!Empty \in Store!Document
    /\ Store!Nothing \in Store!Checkpoint /\ Store!Nothing.time = 0
    /\ \A c \in Store!Checkpoint : c.time \in Nat /\ c.time <= MaxTime
    /\ \A d \in Store!Document, t \in Tables : d[t] \in Store!Checkpoint
    /\ \A t \in Tables : Store!Empty[t] = Store!Nothing
  BY ServiceAssumption DEF Store!Document, Store!Empty, Store!Checkpoint, Store!Nothing

\* What a whole file gives, and a missing one.
LEMMA GetFacts ==
  ASSUME NEW content \in Store!Document \cup {Missing}, NEW t \in Tables
  PROVE  /\ Store!Get(content, t) \in Store!Checkpoint
         /\ Store!Get(content, t).time \in Nat
         /\ content # Missing => Store!Get(content, t) = content[t]
         /\ content = Missing => Store!Get(content, t) = Store!Nothing
  BY StoreFacts DEF Store!Get

LEMMA InitStoreInv == Store!Init => StoreInv
  <1> SUFFICES ASSUME Store!Init
               PROVE  StoreInv
    OBVIOUS
  <1> USE StoreFacts DEF Store!Init, StoreInv, FileInv
  <1>1. Store!TypeOK
    <2>1. doc \in [Requests -> Store!Document]
      OBVIOUS
    <2>2. /\ clock \in 0 .. MaxTime /\ group \in [Requests -> Nat]
          /\ now \in [Requests -> 0 .. MaxTime] /\ through \in [Requests -> 0 .. MaxTime]
      OBVIOUS
    <2>3. table \in [Requests -> Tables \cup {NoTable}]
      OBVIOUS
    <2>4. /\ pc \in [Requests -> {"idle", "pass", "applied"} \cup Store!Saving]
          /\ handle \in [Requests -> {"tmp", "file", "none"}]
      OBVIOUS
    <2>5. crossed \in BOOLEAN /\ overlapped \in BOOLEAN
      BY Zenon
    <2> QED  BY <2>1, <2>2, <2>3, <2>4, <2>5 DEF Store!TypeOK
  <1>2. DocumentInv /\ TimeInv
    BY DEF DocumentInv, TimeInv, Earned, Store!IsWhole
  <1>3. SaveInv /\ LoneInv
    BY DEF SaveInv, LoneInv, Store!Saving
  <1> QED  BY <1>1, <1>2, <1>3

LEMMA StoreStutter ==
  ASSUME StoreInv, UNCHANGED stateFile
  PROVE  StoreInv'
  <1> USE DEF StoreInv, FileInv, stateFile
  <1>1. Store!TypeOK'
    BY DEF Store!TypeOK, Store!Document, Store!Checkpoint, Store!Saving
  <1>2. DocumentInv' /\ TimeInv'
    BY DEF DocumentInv, TimeInv, Earned, Store!IsWhole, Store!Nothing
  <1>3. SaveInv' /\ LoneInv'
    BY DEF SaveInv, LoneInv, Store!Get, Store!Nothing, Store!Saving
  <1> QED  BY <1>1, <1>2, <1>3

LEMMA BeginGroupKeepsStore ==
  ASSUME StoreInv, NEW p \in Requests, NEW g \in Nat, Store!BeginGroup(p, g)
  PROVE  StoreInv'
  <1> USE StoreFacts
         DEF StoreInv, FileInv, Store!TypeOK, Store!Saving, Store!BeginGroup, Store!ReadClock,
             Store!steps
  <1>1. Store!TypeOK'
    OBVIOUS
  <1>2. DocumentInv' /\ TimeInv'
    BY DEF DocumentInv, TimeInv, Earned, Store!IsWhole
  <1>3. SaveInv'
    BY DEF SaveInv
  <1>4. LoneInv'
    BY DEF LoneInv
  <1> QED  BY <1>1, <1>2, <1>3, <1>4

LEMMA EndRunKeepsStore ==
  ASSUME StoreInv, NEW p \in Requests, Store!EndRun(p)
  PROVE  StoreInv'
  <1> USE StoreFacts
         DEF StoreInv, FileInv, Store!TypeOK, Store!Saving, Store!EndRun, Store!EndRuns,
             Store!steps
  <1>1. Store!TypeOK'
    OBVIOUS
  <1>2. DocumentInv' /\ TimeInv'
    BY DEF DocumentInv, TimeInv, Earned, Store!IsWhole
  <1>3. SaveInv'
    BY DEF SaveInv
  <1>4. LoneInv'
    BY DEF LoneInv
  <1> QED  BY <1>1, <1>2, <1>3, <1>4

LEMMA LoadKeepsStore ==
  ASSUME StoreInv, NEW p \in Requests, NEW t \in Tables, group[p] # 0, Store!Load(p, t)
  PROVE  StoreInv'
  <1> USE StoreFacts
         DEF StoreInv, FileInv, Store!TypeOK, Store!Saving, Store!Load, Store!runs
  <1>1. Store!TypeOK'
    OBVIOUS
  <1>2. DocumentInv' /\ TimeInv'
    BY DEF DocumentInv, TimeInv, Earned, Store!IsWhole
  <1>3. SaveInv' /\ LoneInv'
    BY DEF SaveInv, LoneInv
  <1> QED  BY <1>1, <1>2, <1>3

LEMMA AppliedKeepsStore ==
  ASSUME StoreInv, NEW p \in Requests, Store!Applied(p)
  PROVE  StoreInv'
  <1> USE StoreFacts
         DEF StoreInv, FileInv, Store!TypeOK, Store!Saving, Store!Applied, Store!ReadClock,
             Store!runs
  <1>1. Store!TypeOK'
    OBVIOUS
  <1>2. DocumentInv' /\ TimeInv'
    BY DEF DocumentInv, TimeInv, Earned, Store!IsWhole
  <1>3. SaveInv' /\ LoneInv'
    BY DEF SaveInv, LoneInv
  <1> QED  BY <1>1, <1>2, <1>3

\* The time to be saved must be ahead of the state file's, unless runs overlapped.
LEMMA BeginSaveKeepsStore ==
  ASSUME StoreInv, NEW p \in Requests, Store!ReadAndMerge(p),
         ~overlapped => Store!Get(file, table[p]).time <= through[p]
  PROVE  StoreInv'
  <1> USE StoreFacts
         DEF StoreInv, FileInv, Store!TypeOK, Store!Saving, Store!ReadAndMerge,
             Store!BeginSave, Store!runs
  <1> DEFINE base == IF Store!IsWhole(file) THEN file ELSE Store!Empty
             fresh == Store!New(p)
             new == [base EXCEPT ![table[p]] = fresh]
  <1>1. base \in Store!Document /\ Earned(base)
    BY DEF Store!IsWhole, DocumentInv, Earned
  <1>2. /\ table[p] \in Tables /\ through[p] # 0 /\ through[p] <= clock
        /\ through[p] \in 0 .. MaxTime
    BY DEF TimeInv
  <1>3. /\ fresh \in Store!Checkpoint /\ fresh # Store!Nothing
        /\ fresh.of = table[p] /\ fresh.time = through[p]
    BY <1>2 DEF Store!New, Store!Checkpoint, Store!Nothing
  <1> HIDE DEF fresh
  <1>4. new \in Store!Document /\ doc' = [doc EXCEPT ![p] = new]
    BY <1>1, <1>2, <1>3 DEF Store!Document, fresh
  <1>5. new[table[p]] = fresh /\ \A t \in Tables : t # table[p] => new[t] = base[t]
    BY <1>1, <1>2 DEF Store!Document
  <1>6. file # Partial => \A t \in Tables : base[t] = Store!Get(file, t)
    BY DEF Store!IsWhole, Store!Get
  <1> HIDE DEF new, base
  <1>7. /\ \A q \in Requests : doc'[q] = IF q = p THEN new ELSE doc[q]
        /\ \A q \in Requests : pc'[q] = IF q = p THEN "open" ELSE pc[q]
    <2>1. \A q \in Requests : doc'[q] = IF q = p THEN new ELSE doc[q]
      BY <1>4, Zenon
    <2>2. \A q \in Requests : pc'[q] = IF q = p THEN "open" ELSE pc[q]
      BY Zenon
    <2> QED  BY <2>1, <2>2
  <1>8. Store!TypeOK'
    BY <1>4
  <1>9. DocumentInv' /\ TimeInv'
    <2>1. Earned(new)
      BY <1>1, <1>2, <1>3, <1>5 DEF Earned
    <2> QED  BY <1>7, <2>1 DEF DocumentInv, TimeInv, Earned, Store!IsWhole
  <1>10. SaveInv'
    <2>1. ~crossed' => ~crossed /\ \A q \in Requests \ {p} : pc[q] \notin Store!Saving
      OBVIOUS
    <2>2. ~crossed => \A t \in Tables :
             Store!Get(file, t) # Store!Nothing => new[t] # Store!Nothing
      BY <1>3, <1>5, <1>6 DEF SaveInv
    <2>3. new[table[p]] # Store!Nothing
      BY <1>3, <1>5
    <2>4. /\ ~crossed => file # Partial
          /\ table' = table /\ file' = file /\ pc'[p] = "open" /\ doc'[p] = new
          /\ \A q \in Requests : pc'[q] \in Store!Saving /\ ~crossed' => q = p
      BY <1>7, <2>1 DEF SaveInv
    <2> QED  BY <2>1, <2>2, <2>3, <2>4 DEF SaveInv, Store!Get
  <1>11. LoneInv'
    <2>1. ~overlapped => ~crossed /\ file # Partial
      BY DEF LoneInv, SaveInv
    <2>2. ~overlapped => \A q \in Requests \ {p} : pc[q] \notin Store!Saving
      BY DEF LoneInv, TimeInv
    <2>3. ~overlapped => fresh.time >= Store!Get(file, table[p]).time
      <3> SUFFICES ASSUME ~overlapped
                   PROVE  fresh.time >= Store!Get(file, table[p]).time
        OBVIOUS
      <3>1. Store!Get(file, table[p]).time \in Nat
        BY <1>2, <2>1, GetFacts
      <3> QED  BY <1>2, <1>3, <3>1
    <2>4. ~overlapped => \A t \in Tables : t # table[p] => new[t] = Store!Get(file, t)
      BY <1>5, <1>6, <2>1
    <2> QED  BY <1>5, <1>7, <2>1, <2>2, <2>3, <2>4 DEF LoneInv
  <1> QED  BY <1>8, <1>9, <1>10, <1>11

LEMMA OpenTmpKeepsStore ==
  ASSUME StoreInv, NEW p \in Requests, Store!OpenTmp(p)
  PROVE  StoreInv'
  <1> USE StoreFacts
         DEF StoreInv, FileInv, Store!TypeOK, Store!Saving, Store!OpenTmp, Store!runs
  <1>1. Store!TypeOK'
    OBVIOUS
  <1>2. DocumentInv' /\ TimeInv'
    BY DEF DocumentInv, TimeInv, Earned, Store!IsWhole
  <1>3. SaveInv' /\ LoneInv'
    BY DEF SaveInv, LoneInv
  <1> QED  BY <1>1, <1>2, <1>3

LEMMA WriteTmpKeepsStore ==
  ASSUME StoreInv, NEW p \in Requests, Store!WriteTmp(p)
  PROVE  StoreInv'
  <1> USE StoreFacts
         DEF StoreInv, FileInv, Store!TypeOK, Store!Saving, Store!WriteTmp, Store!Overwrite,
             Store!runs
  <1>1. Store!TypeOK'
    OBVIOUS
  <1>2. DocumentInv' /\ TimeInv'
    BY DEF DocumentInv, TimeInv, Earned, Store!IsWhole
  <1>3. SaveInv'
    <2>1. \A q \in Requests : pc'[q] = IF q = p THEN "rename" ELSE pc[q]
      BY Zenon
    <2>2. ~crossed => /\ file' = file /\ tmp' = doc[p]
                      /\ \A q \in Requests \ {p} : pc[q] \notin Store!Saving
      BY DEF SaveInv, Store!IsWhole
    <2>3. \A t \in Tables : ~crossed => Store!Get(file', t) = Store!Get(file, t)
      BY <2>2
    <2> QED  BY <2>1, <2>2, <2>3 DEF SaveInv, Store!Get
  <1>4. LoneInv'
    BY DEF LoneInv, SaveInv
  <1> QED  BY <1>1, <1>2, <1>3, <1>4

LEMMA RenameKeepsStore ==
  ASSUME StoreInv, NEW p \in Requests, Store!Rename(p)
  PROVE  StoreInv'
  <1> USE StoreFacts
         DEF StoreInv, FileInv, Store!TypeOK, Store!Saving, Store!Rename, Store!runs
  <1>1. Store!TypeOK'
    OBVIOUS
  <1>2. DocumentInv' /\ TimeInv'
    BY DEF DocumentInv, TimeInv, Earned, Store!IsWhole
  <1>3. SaveInv'
    BY DEF SaveInv
  <1>4. LoneInv'
    BY DEF LoneInv, SaveInv
  <1> QED  BY <1>1, <1>2, <1>3, <1>4

LEMMA ReturnKeepsStore ==
  ASSUME StoreInv, NEW p \in Requests, Store!Return(p)
  PROVE  StoreInv'
  <1> USE StoreFacts
         DEF StoreInv, FileInv, Store!TypeOK, Store!Saving, Store!Return, Store!Forget, Store!runs
  <1>1. Store!TypeOK'
    OBVIOUS
  <1>2. DocumentInv' /\ TimeInv'
    BY DEF DocumentInv, TimeInv, Earned, Store!IsWhole
  <1>3. SaveInv' /\ LoneInv'
    BY DEF SaveInv, LoneInv
  <1> QED  BY <1>1, <1>2, <1>3

LEMMA CrashKeepsStore ==
  ASSUME StoreInv, NEW dead, Store!Crash(dead)
  PROVE  StoreInv'
  <1> USE StoreFacts
         DEF StoreInv, FileInv, Store!TypeOK, Store!Saving, Store!Crash, Store!Forget,
             Store!EndRuns
  <1>1. Store!TypeOK'
    OBVIOUS
  <1>2. DocumentInv' /\ TimeInv'
    BY DEF DocumentInv, TimeInv, Earned, Store!IsWhole
  <1>3. SaveInv' /\ LoneInv'
    BY DEF SaveInv, LoneInv
  <1> QED  BY <1>1, <1>2, <1>3
-----------------------------------------------------------------------------
(* The service: every step keeps ServiceInv.                               *)

LEMMA TableFacts ==
    /\ \A t \in Tables : t = <<t[1], t[2]>> /\ t[1] \in Files /\ t[2] \in Nat
    /\ Files \subseteq Nat
    /\ NoResults \in [Tables -> {"none"}]
  BY ServiceAssumption DEF Files, NoResults

NatLess == OpToRel(<, Nat)
PairLess == LexPairOrdering(NatLess, NatLess, Nat, Nat)

LEMMA NatLessMeaning == \A i, j \in Nat : <<i, j>> \in NatLess <=> i < j
  BY DEF NatLess, OpToRel

\* A set of pairs of numbers has a first one in the order of the configuration.
LEMMA FirstPair ==
  ASSUME NEW S, S \subseteq Nat \X Nat, S # {}
  PROVE  \E t \in S : \A u \in S : t[1] < u[1] \/ (t[1] = u[1] /\ t[2] <= u[2])
  <1>1. IsWellFoundedOn(PairLess, Nat \X Nat)
    BY NatLessThanWellFounded, WFLexPairOrdering DEF PairLess, NatLess
  <1>2. PICK t \in S : \A u \in S : <<u, t>> \notin PairLess
    BY <1>1, WFMin
  <1>3. ASSUME NEW u \in S
        PROVE  t[1] < u[1] \/ (t[1] = u[1] /\ t[2] <= u[2])
    <2>1. /\ u \in Nat \X Nat /\ t \in Nat \X Nat
          /\ u[1] \in Nat /\ u[2] \in Nat /\ t[1] \in Nat /\ t[2] \in Nat
      OBVIOUS
    <2>2. <<u, t>> \in (Nat \X Nat) \X (Nat \X Nat)
      BY <2>1
    <2>3. ~(<<u[1], t[1]>> \in NatLess \/ (u[1] = t[1] /\ <<u[2], t[2]>> \in NatLess))
      BY <1>2, <2>2 DEF PairLess, LexPairOrdering
    <2> QED  BY <2>1, <2>3, NatLessMeaning
  <1> QED  BY <1>3

LEMMA NextTableIsFirst ==
  ASSUME NEW r \in Requests, Left(r) # {}
  PROVE  /\ NextTable(r) \in Left(r) /\ NextTable(r) \in Tables
         /\ \A u \in Left(r) : \/ NextTable(r)[1] < u[1]
                               \/ NextTable(r)[1] = u[1] /\ NextTable(r)[2] <= u[2]
  <1>1. Left(r) \subseteq Tables
    BY DEF Left
  <1>2. Left(r) \subseteq Nat \X Nat
    BY <1>1, ServiceAssumption DEF Files
  <1>3. \E t \in Left(r) : \A u \in Left(r) : t[1] < u[1] \/ (t[1] = u[1] /\ t[2] <= u[2])
    BY <1>2, FirstPair
  <1> QED  BY <1>1, <1>3 DEF NextTable

LEMMA SameTable ==
  ASSUME NEW r \in Requests, result'[r] = result[r]
  PROVE  Left(r)' = Left(r) /\ NextTable(r)' = NextTable(r)
  <1>1. Left(r)' = Left(r)
    BY DEF Left, Failed
  <1> QED  BY <1>1 DEF NextTable

LEMMA InitServiceInv == Init => ServiceInv
  <1> SUFFICES ASSUME Init
               PROVE  ServiceInv
    OBVIOUS
  <1> USE DEF Init, NoResults
  <1>1. StoreInv
    BY InitStoreInv
  <1>2. TypeOK
    BY <1>1 DEF TypeOK, StoreInv
  <1>3. FlagInv
    BY DEF FlagInv, Holders, Store!Init
  <1>4. TableInv /\ AheadInv
    BY DEF TableInv, AheadInv, Store!Init, Outcomes
  <1> QED  BY <1>1, <1>2, <1>3, <1>4 DEF ServiceInv, StoreInv

\* The deferred Store(false): whoever leaves, the flag is set exactly if a handler
\* of the server is left.
LEMMA LeaveReleases ==
  ASSUME ServiceInv, NEW r \in Requests, state[r] \in {"params", "run"},
         state' = [state EXCEPT ![r] = "idle"], command' = command,
         running' = (running /\ r \in command)
  PROVE  /\ running' <=> Holders' # {}
         /\ \A q, p \in Holders' : q = p
  <1> USE DEF ServiceInv, FileInv, TypeOK, FlagInv
  <1>1. CASE r \in command
    <2>1. Holders' = Holders
      BY <1>1 DEF Holders
    <2> QED  BY <1>1, <2>1
  <1>2. CASE r \notin command
    <2>1. r \in Holders
      BY <1>2 DEF Holders
    <2>2. Holders' = {}
      BY <2>1 DEF Holders
    <2> QED  BY <1>2, <2>2
  <1> QED  BY <1>1, <1>2

\* The state file and the results of every run are left alone.
LEMMA QuietKeepsTables ==
  ASSUME ServiceInv, UNCHANGED stateFile, \A q \in Requests : result'[q] = result[q]
  PROVE  StoreInv' /\ TableInv' /\ AheadInv'
  <1> USE DEF ServiceInv, FileInv
  <1>1. StoreInv'
    BY StoreStutter DEF StoreInv, TypeOK
  <1> USE DEF stateFile
  <1>2. \A q \in Requests : Left(q)' = Left(q) /\ NextTable(q)' = NextTable(q)
    BY SameTable
  <1>3. \A t \in Tables : Store!Get(file, t)' = Store!Get(file, t)
    BY DEF Store!Get, Store!Nothing
  <1>4. TableInv'
    BY <1>2, <1>3 DEF TableInv, InGroup, Outcomes, Store!Nothing
  <1>5. AheadInv'
    BY <1>3 DEF AheadInv
  <1> QED  BY <1>1, <1>4, <1>5

LEMMA ArriveKeepsInv ==
  ASSUME ServiceInv, NEW r \in Requests, Arrive(r)
  PROVE  ServiceInv'
  <1> USE DEF ServiceInv, FileInv, TypeOK, Arrive
  <1>1. StoreInv' /\ TableInv' /\ AheadInv'
    BY QuietKeepsTables
  <1>2. TypeOK'
    BY <1>1 DEF StoreInv
  <1>3. FlagInv'
    BY DEF FlagInv, Holders, stateFile
  <1> QED  BY <1>1, <1>2, <1>3 DEF StoreInv

LEMMA RejectKeepsInv ==
  ASSUME ServiceInv, NEW r \in Requests, Reject(r) \/ Conflict(r)
  PROVE  ServiceInv'
  <1> USE DEF ServiceInv, FileInv, TypeOK, Reply
  <1>0. /\ state[r] = "arrived" /\ r \notin command
        /\ Reply(r, "4xx") /\ UNCHANGED <<running, stateFile>>
    BY DEF Reject, Conflict
  <1>1. StoreInv' /\ TableInv' /\ AheadInv'
    BY <1>0, QuietKeepsTables DEF FlagInv
  <1>2. TypeOK'
    BY <1>0, <1>1, TableFacts DEF StoreInv
  <1>3. FlagInv'
    BY <1>0 DEF FlagInv, Holders, stateFile
  <1> QED  BY <1>1, <1>2, <1>3 DEF StoreInv

LEMMA AcquireKeepsInv ==
  ASSUME ServiceInv, NEW r \in Requests, Acquire(r)
  PROVE  ServiceInv'
  <1> USE DEF ServiceInv, FileInv, TypeOK, Acquire
  <1>1. StoreInv' /\ TableInv' /\ AheadInv'
    BY QuietKeepsTables
  <1>2. TypeOK'
    BY <1>1 DEF StoreInv
  <1>3. FlagInv'
    BY DEF FlagInv, Holders, stateFile
  <1> QED  BY <1>1, <1>2, <1>3 DEF StoreInv

LEMMA BeginCommandKeepsInv ==
  ASSUME ServiceInv, NEW r \in Requests, BeginCommand(r)
  PROVE  ServiceInv'
  <1> USE DEF ServiceInv, FileInv, TypeOK, BeginCommand
  <1>1. StoreInv' /\ TableInv' /\ AheadInv'
    BY QuietKeepsTables
  <1>2. TypeOK'
    BY <1>1 DEF StoreInv
  <1>3. FlagInv'
    BY DEF FlagInv, Holders, stateFile
  <1> QED  BY <1>1, <1>2, <1>3 DEF StoreInv

LEMMA RefusedKeepsInv ==
  ASSUME ServiceInv, NEW r \in Requests, BadParameter(r) \/ SetupFails(r)
  PROVE  ServiceInv'
  <1> USE DEF ServiceInv, FileInv, TypeOK, Leave, Reply
  <1>0. PICK code \in {"4xx", "500"} :
           state[r] = "params" /\ Leave(r, code) /\ UNCHANGED stateFile
    BY DEF BadParameter, SetupFails
  <1>1. StoreInv' /\ TableInv' /\ AheadInv'
    BY <1>0, QuietKeepsTables DEF FlagInv
  <1>2. TypeOK'
    BY <1>0, <1>1, TableFacts DEF StoreInv
  <1>3. FlagInv'
    <2>1. (running' <=> Holders' # {}) /\ \A q, p \in Holders' : q = p
      BY <1>0, LeaveReleases
    <2> HIDE DEF Holders
    <2> QED  BY <1>0, <2>1 DEF FlagInv, stateFile
  <1> QED  BY <1>1, <1>2, <1>3 DEF StoreInv

LEMMA StartRunKeepsInv ==
  ASSUME ServiceInv, NEW r \in Requests, NEW found, StartRun(r, found)
  PROVE  ServiceInv'
  <1> USE DEF ServiceInv, FileInv, TypeOK, StartRun
  <1> DEFINE absent == {t \in Tables : t[1] \in Discovered} \ found
             begun == [t \in Tables |-> IF t \in absent THEN "absent" ELSE "none"]
  <1>1. StoreInv'
    BY StoreStutter DEF StoreInv
  <1>2. /\ result' = [result EXCEPT ![r] = begun]
        /\ begun \in [Tables -> {"absent", "none"}]
    OBVIOUS
  <1> HIDE DEF begun
  <1>3. TypeOK'
    BY <1>1, <1>2 DEF StoreInv
  <1>4. now[r] = 0 /\ pc[r] = "idle"
    BY DEF FlagInv, TimeInv
  <1>5. FlagInv'
    BY <1>2, <1>4 DEF FlagInv, Holders, stateFile
  <1> USE DEF stateFile
  <1>6. \A q \in Requests \ {r} : result'[q] = result[q]
    BY <1>2
  <1>7. \A t \in Tables : Store!Get(file, t)' = Store!Get(file, t)
    BY DEF Store!Get, Store!Nothing
  <1>8. TableInv'
    <2>1. result'[r] = begun
      BY <1>2
    <2>2. \A t \in Tables : begun[t] \notin Outcomes
      BY <1>2 DEF Outcomes
    <2>3. \A q \in Requests \ {r} : Left(q)' = Left(q) /\ NextTable(q)' = NextTable(q)
      BY <1>6, SameTable
    <2> QED  BY <1>4, <1>6, <1>7, <2>1, <2>2, <2>3
             DEF TableInv, InGroup, Outcomes, Store!Nothing
  <1>9. AheadInv'
    BY <1>4, <1>6, <1>7 DEF AheadInv
  <1> QED  BY <1>1, <1>3, <1>5, <1>8, <1>9 DEF StoreInv

LEMMA FinishRunKeepsInv ==
  ASSUME ServiceInv, NEW r \in Requests, FinishRun(r)
  PROVE  ServiceInv'
  <1> USE DEF ServiceInv, FileInv, TypeOK, FinishRun, Leave, Reply
  <1>1. StoreInv'
    BY EndRunKeepsStore DEF StoreInv
  <1>2. TypeOK'
    BY <1>1, TableFacts DEF StoreInv
  <1>3. /\ pc' = pc /\ table' = table /\ file' = file
        /\ crossed' = crossed /\ overlapped' = overlapped
        /\ \A q \in Requests : now'[q] = IF q = r THEN 0 ELSE now[q]
        /\ \A q \in Requests : group'[q] = IF q = r THEN 0 ELSE group[q]
    BY DEF Store!EndRun, Store!EndRuns, Store!steps
  <1>4. FlagInv'
    <2>1. (running' <=> Holders' # {}) /\ \A q, p \in Holders' : q = p
      BY LeaveReleases
    <2> HIDE DEF Holders
    <2> QED  BY <1>3, <2>1 DEF FlagInv
  <1>5. \A q \in Requests \ {r} : result'[q] = result[q]
    OBVIOUS
  <1>6. \A t \in Tables : Store!Get(file, t)' = Store!Get(file, t)
    BY <1>3 DEF Store!Get, Store!Nothing
  <1>7. TableInv'
    <2>1. result'[r] = NoResults /\ pc[r] = "idle"
      BY DEF Store!EndRun
    <2>2. \A q \in Requests \ {r} : Left(q)' = Left(q) /\ NextTable(q)' = NextTable(q)
      BY <1>5, SameTable
    <2>3. \A t \in Tables : NoResults[t] = "none"
      BY DEF NoResults
    <2> QED  BY <1>3, <1>5, <1>6, <2>1, <2>2, <2>3
             DEF TableInv, InGroup, Outcomes, Store!Nothing
  <1>8. AheadInv'
    BY <1>3, <1>5, <1>6 DEF AheadInv
  <1> QED  BY <1>1, <1>2, <1>4, <1>7, <1>8 DEF StoreInv

\* What a run has saved so far is no later than the time it takes now; and another
\* handler of the server is not in a run.
LEMMA BeginFileKeepsInv ==
  ASSUME ServiceInv, NEW r \in Requests, BeginFile(r)
  PROVE  ServiceInv'
  <1> USE DEF ServiceInv, FileInv, TypeOK, BeginFile, AtTable, service
  <1> DEFINE g == NextTable(r)[1]
  <1>1. g \in Nat
    BY NextTableIsFirst, TableFacts
  <1> HIDE DEF g
  <1>2. Store!BeginGroup(r, g)
    BY DEF g
  <1>3. StoreInv'
    BY <1>1, <1>2, BeginGroupKeepsStore DEF StoreInv
  <1>4. TypeOK'
    BY <1>3 DEF StoreInv
  <1>5. /\ pc' = pc /\ table' = table /\ file' = file /\ crossed' = crossed
        /\ clock' = clock + 1 /\ pc[r] = "idle"
        /\ overlapped' = (overlapped \/ \E q \in Requests \ {r} : now[q] # 0)
        /\ \A q \in Requests : now'[q] = IF q = r THEN clock' ELSE now[q]
        /\ \A q \in Requests : group'[q] = IF q = r THEN g ELSE group[q]
    BY <1>1, <1>2 DEF Store!BeginGroup, Store!ReadClock, Store!steps, Store!TypeOK
  <1>6. FlagInv'
    <2>1. command = {} => ~overlapped'
      <3> SUFFICES ASSUME command = {}
                   PROVE  ~overlapped'
        OBVIOUS
      <3>1. \A q \in Requests : state[q] = "run" => q \in Holders
        BY DEF Holders
      <3>2. \A q \in Requests \ {r} : now[q] = 0
        BY <3>1 DEF FlagInv
      <3> QED  BY <1>5, <3>2 DEF FlagInv
    <2> QED  BY <1>5, <2>1 DEF FlagInv, Holders
  <1>7. \A t \in Tables : Store!Get(file, t)' = Store!Get(file, t)
    BY <1>5 DEF Store!Get, Store!Nothing
  <1>8. TableInv'
    <2>1. \A q \in Requests : Left(q)' = Left(q) /\ NextTable(q)' = NextTable(q)
      BY SameTable
    <2> QED  BY <1>5, <1>7, <2>1 DEF TableInv, InGroup, Outcomes, Store!Nothing
  <1>9. AheadInv'
    <2> SUFFICES ASSUME ~overlapped', NEW t \in Tables
                 PROVE  Store!Get(file, t).time <= now'[r]
      BY <1>5, <1>7 DEF AheadInv
    <2>1. file # Partial /\ clock \in Nat
      BY <1>5 DEF LoneInv, SaveInv, Store!TypeOK
    <2>2. Store!Get(file, t).time <= clock
      <3>1. CASE Store!Get(file, t) = Store!Nothing
        BY <2>1, <3>1, StoreFacts
      <3>2. CASE Store!Get(file, t) # Store!Nothing
        BY <2>1, <3>2 DEF DocumentInv, Earned, Store!IsWhole, Store!Get
      <3> QED  BY <3>1, <3>2
    <2>3. Store!Get(file, t).time \in Nat
      BY <2>1, GetFacts DEF Store!TypeOK
    <2> QED  BY <1>5, <2>1, <2>2, <2>3
  <1> QED  BY <1>3, <1>4, <1>6, <1>8, <1>9 DEF StoreInv

\* A step within a pass: only where r is in it, and what it will save, may change.
LEMMA PassKeepsTables ==
  ASSUME ServiceInv, NEW r \in Requests, AtTable(r), InGroup(r), UNCHANGED service,
         UNCHANGED <<file, group, now, crossed, overlapped>>,
         table'[r] = NextTable(r),
         \A q \in Requests \ {r} : pc'[q] = pc[q] /\ table'[q] = table[q]
  PROVE  FlagInv' /\ TableInv' /\ AheadInv'
  <1> USE DEF ServiceInv, FileInv, service
  <1>1. FlagInv'
    BY DEF FlagInv, Holders
  <1>2. \A t \in Tables : Store!Get(file, t)' = Store!Get(file, t)
    BY DEF Store!Get, Store!Nothing
  <1>3. TableInv'
    <2>1. \A q \in Requests : Left(q)' = Left(q) /\ NextTable(q)' = NextTable(q)
      BY SameTable
    <2> QED  BY <1>2, <2>1 DEF TableInv, InGroup, Outcomes, Store!Nothing, AtTable
  <1>4. AheadInv'
    BY <1>2 DEF AheadInv
  <1> QED  BY <1>1, <1>3, <1>4

\* A run starts a pass over the first table that is left.
LEMMA OpenTableKeepsInv ==
  ASSUME ServiceInv, NEW r \in Requests, OpenTable(r)
  PROVE  ServiceInv'
  <1> USE DEF ServiceInv, FileInv, TypeOK, OpenTable
  <1>1. NextTable(r) \in Tables
    BY NextTableIsFirst DEF AtTable
  <1>2. group[r] # 0
    BY <1>1, TableFacts DEF InGroup, Files
  <1>3. StoreInv'
    BY <1>1, <1>2, LoadKeepsStore DEF StoreInv
  <1>4. TypeOK'
    BY <1>3 DEF StoreInv, service
  <1>5. FlagInv' /\ TableInv' /\ AheadInv'
    BY PassKeepsTables DEF Store!Load, Store!TypeOK, Store!runs
  <1> QED  BY <1>3, <1>4, <1>5 DEF StoreInv

LEMMA PlanAppliedKeepsInv ==
  ASSUME ServiceInv, NEW r \in Requests, PlanApplied(r)
  PROVE  ServiceInv'
  <1> USE DEF ServiceInv, FileInv, TypeOK, PlanApplied
  <1>1. StoreInv'
    BY AppliedKeepsStore DEF StoreInv
  <1>2. TypeOK'
    BY <1>1 DEF StoreInv, service
  <1>3. table[r] = NextTable(r) /\ InGroup(r)
    BY DEF Store!Applied, TableInv
  <1>4. FlagInv' /\ TableInv' /\ AheadInv'
    BY <1>3, PassKeepsTables DEF Store!Applied, Store!TypeOK, Store!runs
  <1> QED  BY <1>1, <1>2, <1>4 DEF StoreInv

\* The tables of a file end in their order, and none after one that failed.
LEMMA EndTableKeepsOrder ==
  ASSUME ServiceInv, NEW r \in Requests, NEW outcome \in Outcomes, AtTable(r),
         EndTable(r, outcome)
  PROVE  /\ NextTable(r) \in Tables
         /\ result' \in [Requests -> [Tables -> {"absent", "none"} \cup Outcomes]]
         /\ \A q \in Requests \ {r} : result'[q] = result[q]
         /\ \A t \in Tables :
               result'[r][t] = IF t = NextTable(r) THEN outcome ELSE result[r][t]
         /\ \A t, u \in Tables : u[1] = t[1] /\ u[2] < t[2] /\ result'[r][t] \in Outcomes =>
               result'[r][u] \notin {"none", "failed"}
  <1> DEFINE n == NextTable(r)
  <1>1. n \in Left(r) /\ n \in Tables
    BY NextTableIsFirst DEF AtTable
  <1>2. \A u \in Left(r) : n[1] < u[1] \/ (n[1] = u[1] /\ n[2] <= u[2])
    BY NextTableIsFirst DEF AtTable
  <1>3. result[r][n] = "none" /\ \A u \in Tables : u[1] = n[1] => result[r][u] # "failed"
    BY <1>1 DEF Left, Failed
  <1> HIDE DEF n
  <1>4. /\ result' = [result EXCEPT ![r] = [result[r] EXCEPT ![n] = outcome]]
        /\ result \in [Requests -> [Tables -> {"absent", "none"} \cup Outcomes]]
    BY DEF EndTable, n, ServiceInv, TypeOK
  <1>5. \A t \in Tables : result'[r][t] = IF t = n THEN outcome ELSE result[r][t]
    BY <1>1, <1>4
  <1>6. \A u \in Tables : u[1] = n[1] /\ u[2] < n[2] => result[r][u] # "none"
    <2> SUFFICES ASSUME NEW u \in Tables, u[1] = n[1], u[2] < n[2], result[r][u] = "none"
                 PROVE  FALSE
      OBVIOUS
    <2>1. u \in Left(r)
      BY <1>1 DEF Left
    <2> QED  BY <1>1, <1>2, <2>1, TableFacts
  <1>7. ASSUME NEW t \in Tables, NEW u \in Tables, u[1] = t[1], u[2] < t[2],
               result'[r][t] \in Outcomes
        PROVE  result'[r][u] \notin {"none", "failed"}
    <2>1. CASE t = n
      BY <1>3, <1>5, <1>6, <1>7, <2>1, TableFacts
    <2>2. CASE t # n
      <3>1. result[r][u] \notin {"none", "failed"}
        BY <1>5, <1>7, <2>2 DEF ServiceInv, TableInv
      <3> QED  BY <1>3, <1>5, <3>1
    <2> QED  BY <2>1, <2>2
  <1> QED  BY <1>1, <1>4, <1>5, <1>7 DEF n

\* A table that ends without a new state file: it failed, or a dry run left it.
LEMMA UnsavedKeepsInv ==
  ASSUME ServiceInv, NEW r \in Requests, NEW outcome \in {"failed", "pending"},
         AtTable(r), EndTable(r, outcome), StoreInv',
         pc' = [pc EXCEPT ![r] = "idle"],
         UNCHANGED <<file, group, now, crossed, overlapped>>,
         \A q \in Requests \ {r} : table'[q] = table[q]
  PROVE  ServiceInv'
  <1> USE DEF ServiceInv, FileInv
  <1>1. outcome \in Outcomes
    BY DEF Outcomes
  <1>2. TypeOK'
    BY <1>1, EndTableKeepsOrder DEF TypeOK, EndTable, StoreInv
  <1>3. FlagInv'
    BY <1>1, EndTableKeepsOrder DEF FlagInv, Holders, EndTable, AtTable
  <1>4. \A t \in Tables : Store!Get(file, t)' = Store!Get(file, t)
    BY DEF Store!Get, Store!Nothing
  <1>5. TableInv'
    <2>1. pc \in [Requests -> {"idle", "pass", "applied"} \cup Store!Saving]
      BY DEF TypeOK, Store!TypeOK
    <2>2. ASSUME NEW q \in Requests \ {r}
          PROVE  /\ pc'[q] = pc[q] /\ table'[q] = table[q] /\ result'[q] = result[q]
                 /\ Left(q)' = Left(q) /\ NextTable(q)' = NextTable(q)
                 /\ InGroup(q)' <=> InGroup(q)
      BY <1>1, <2>1, EndTableKeepsOrder, SameTable DEF InGroup
    <2>3. pc'[r] = "idle"
      BY <2>1
    <2>4. \A t \in Tables : result'[r][t] = "saved" => result[r][t] = "saved"
      BY <1>1, EndTableKeepsOrder
    <2> QED  BY <1>1, <1>4, <2>2, <2>3, <2>4, EndTableKeepsOrder
             DEF TableInv, Outcomes, Store!Nothing
  <1>6. AheadInv'
    <2>1. \A q \in Requests, t \in Tables : result'[q][t] = "none" => result[q][t] = "none"
      BY <1>1, EndTableKeepsOrder
    <2> QED  BY <1>4, <2>1 DEF AheadInv
  <1> QED  BY <1>2, <1>3, <1>5, <1>6 DEF StoreInv

LEMMA FileFailsKeepsInv ==
  ASSUME ServiceInv, NEW r \in Requests, FileFails(r)
  PROVE  ServiceInv'
  <1> USE DEF ServiceInv, FileInv, FileFails
  <1>1. pc[r] = "idle"
    BY DEF TableInv
  <1>2. StoreInv'
    BY StoreStutter DEF StoreInv, TypeOK
  <1>3. pc' = [pc EXCEPT ![r] = "idle"]
    BY <1>1 DEF stateFile, TypeOK, Store!TypeOK
  <1> QED  BY <1>2, <1>3, UnsavedKeepsInv DEF stateFile

LEMMA TableFailsKeepsInv ==
  ASSUME ServiceInv, NEW r \in Requests, TableFails(r)
  PROVE  ServiceInv'
  <1> USE DEF ServiceInv, FileInv, TypeOK, Store!TypeOK
  <1>1. CASE Store!LoadFails(r)
    <2>1. UNCHANGED stateFile /\ pc[r] = "idle"
      BY <1>1 DEF Store!LoadFails, Store!vars, Store!runs, Store!steps, stateFile
    <2>2. StoreInv'
      BY <2>1, StoreStutter DEF StoreInv
    <2>3. pc' = [pc EXCEPT ![r] = "idle"]
      BY <2>1 DEF stateFile
    <2> QED  BY <2>1, <2>2, <2>3, UnsavedKeepsInv DEF TableFails, stateFile
  <1>2. CASE Store!SaveFails(r)
    <2>1. Store!Return(r)
      BY <1>2 DEF Store!SaveFails
    <2>2. StoreInv'
      BY <2>1, ReturnKeepsStore DEF StoreInv
    <2> QED  BY <2>1, <2>2, UnsavedKeepsInv
             DEF TableFails, Store!Return, Store!Forget, Store!runs
  <1> QED  BY <1>1, <1>2 DEF TableFails

LEMMA LeavePendingKeepsInv ==
  ASSUME ServiceInv, NEW r \in Requests, LeavePending(r)
  PROVE  ServiceInv'
  <1> USE DEF ServiceInv, FileInv, TypeOK, Store!TypeOK
  <1>1. Store!Return(r)
    BY DEF LeavePending, Store!LeaveUnsaved
  <1>2. StoreInv'
    BY <1>1, ReturnKeepsStore DEF StoreInv
  <1> QED  BY <1>1, <1>2, UnsavedKeepsInv
           DEF LeavePending, Store!Return, Store!Forget, Store!runs

\* A rename that crosses no other save loses nothing, and without another run beside
\* it only its own table gets another time, a later one.
LEMMA RenameGoesForward ==
  ASSUME StoreInv, NEW p \in Requests, Store!Rename(p), ~crossed
  PROVE  /\ file' \in Store!Document
         /\ \A t \in Tables :
               Store!Get(file, t) # Store!Nothing => Store!Get(file', t) # Store!Nothing
         /\ Store!Get(file', table[p]) # Store!Nothing
         /\ ~overlapped =>
               /\ \A t \in Tables : t # table[p] => Store!Get(file', t) = Store!Get(file, t)
               /\ Store!Get(file', table[p]).time >= Store!Get(file, table[p]).time
  <1> USE StoreFacts DEF Store!Rename, StoreInv, FileInv, Store!Saving
  <1>1. file' = doc[p] /\ file' \in Store!Document
    BY DEF Store!TypeOK, SaveInv
  <1>2. \A t : Store!Get(file', t) = doc[p][t]
    BY <1>1 DEF Store!Get
  <1> QED  BY <1>1, <1>2 DEF SaveInv, LoneInv

LEMMA WriteLeavesFile ==
  ASSUME StoreInv, NEW p \in Requests, Store!WriteTmp(p), ~crossed
  PROVE  file' = file
  BY DEF Store!WriteTmp, StoreInv, FileInv, SaveInv

\* The steps of a save before the rename.
LEMMA SaveKeepsInv ==
  ASSUME ServiceInv, NEW r \in Requests, Save(r)
  PROVE  ServiceInv'
  <1> USE DEF ServiceInv, FileInv, Save, service
  <1>1. pc[r] # "idle" /\ AtTable(r)
    BY DEF Store!ReadAndMerge, Store!BeginSave, Store!OpenTmp, Store!WriteTmp
  <1>2. /\ table[r] = NextTable(r) /\ InGroup(r) /\ NextTable(r) \in Tables
        /\ result[r][NextTable(r)] = "none"
    BY <1>1, NextTableIsFirst DEF TableInv, Left
  <1>3. ~overlapped => Store!Get(file, table[r]).time <= through[r]
    <2> SUFFICES ASSUME ~overlapped
                 PROVE  Store!Get(file, table[r]).time <= through[r]
      OBVIOUS
    <2>1. file # Partial
      BY DEF LoneInv, SaveInv
    <2>2. /\ Store!Get(file, table[r]).time \in Nat
          /\ now[r] \in Nat /\ through[r] \in Nat
      BY <1>2, <2>1, GetFacts, StoreFacts DEF TypeOK, Store!TypeOK
    <2>3. now[r] # 0 /\ now[r] <= through[r]
      BY <1>1 DEF TimeInv
    <2>4. Store!Get(file, table[r]).time <= now[r]
      BY <1>2, <2>3 DEF AheadInv, InGroup
    <2> QED  BY <2>2, <2>3, <2>4
  <1>4. StoreInv'
    BY <1>3, BeginSaveKeepsStore, OpenTmpKeepsStore, WriteTmpKeepsStore DEF StoreInv, TypeOK
  <1>5. TypeOK'
    BY <1>4 DEF TypeOK, StoreInv
  <1>6. /\ UNCHANGED <<table, group, now, overlapped>> /\ (crossed => crossed')
        /\ \A q \in Requests \ {r} : pc'[q] = pc[q]
    BY DEF Store!ReadAndMerge, Store!BeginSave, Store!OpenTmp, Store!WriteTmp, Store!runs,
       TypeOK, Store!TypeOK
  <1>7. ~crossed' => file' = file
    BY <1>6, WriteLeavesFile
       DEF Store!ReadAndMerge, Store!BeginSave, Store!OpenTmp, StoreInv, TypeOK
  <1>8. FlagInv'
    BY <1>6 DEF FlagInv, Holders
  <1>9. ~crossed' => \A t \in Tables : Store!Get(file, t)' = Store!Get(file, t)
    BY <1>7 DEF Store!Get, Store!Nothing
  <1>10. TableInv'
    <2>1. \A q \in Requests : Left(q)' = Left(q) /\ NextTable(q)' = NextTable(q)
      BY SameTable
    <2> QED  BY <1>1, <1>2, <1>6, <1>9, <2>1
             DEF TableInv, InGroup, Outcomes, Store!Nothing, AtTable
  <1>11. AheadInv'
    <2>1. ~overlapped' => ~crossed'
      BY <1>4 DEF StoreInv, FileInv, LoneInv
    <2> QED  BY <1>6, <1>9, <2>1 DEF AheadInv
  <1> QED  BY <1>4, <1>5, <1>8, <1>10, <1>11 DEF StoreInv

LEMMA TableSavedKeepsInv ==
  ASSUME ServiceInv, NEW r \in Requests, TableSaved(r)
  PROVE  ServiceInv'
  <1> USE DEF ServiceInv, FileInv, TableSaved
  <1>1. StoreInv'
    BY RenameKeepsStore DEF StoreInv, TypeOK
  <1>2. "saved" \in Outcomes
    BY DEF Outcomes
  <1>3. TypeOK'
    BY <1>1, <1>2, EndTableKeepsOrder DEF TypeOK, EndTable, StoreInv
  <1>4. /\ pc \in [Requests -> {"idle", "pass", "applied"} \cup Store!Saving]
        /\ table \in [Requests -> Tables \cup {NoTable}]
    BY DEF TypeOK, Store!TypeOK
  <1>5. /\ pc' = [pc EXCEPT ![r] = "idle"]
        /\ UNCHANGED <<group, now, crossed, overlapped>>
        /\ \A q \in Requests \ {r} : table'[q] = table[q]
    BY <1>4 DEF Store!Rename, Store!runs
  <1>6. table[r] = NextTable(r)
    BY DEF TableInv, Store!Rename
  <1>7. FlagInv'
    BY <1>2, <1>5, EndTableKeepsOrder DEF FlagInv, Holders, EndTable, AtTable
  <1>8. \A t \in Tables : Store!Get(file, t)' = Store!Get(file', t)
    BY DEF Store!Get, Store!Nothing
  <1>9. TableInv'
    <2>1. ASSUME NEW q \in Requests \ {r}
          PROVE  /\ pc'[q] = pc[q] /\ table'[q] = table[q] /\ result'[q] = result[q]
                 /\ Left(q)' = Left(q) /\ NextTable(q)' = NextTable(q)
                 /\ InGroup(q)' <=> InGroup(q)
      BY <1>2, <1>4, <1>5, EndTableKeepsOrder, SameTable DEF InGroup
    <2>2. pc'[r] = "idle"
      BY <1>4, <1>5
    <2>3. ~crossed =>
             /\ \A t \in Tables :
                   Store!Get(file, t) # Store!Nothing => Store!Get(file', t) # Store!Nothing
             /\ Store!Get(file', NextTable(r)) # Store!Nothing
      BY <1>6, RenameGoesForward DEF StoreInv, TypeOK
    <2>4. \A q \in Requests, t \in Tables :
             result'[q][t] = "saved" /\ ~crossed => Store!Get(file', t) # Store!Nothing
      BY <1>2, <2>1, <2>3, EndTableKeepsOrder DEF TableInv
    <2> QED  BY <1>2, <1>5, <1>8, <2>1, <2>2, <2>4, EndTableKeepsOrder
             DEF TableInv, Outcomes, Store!Nothing
  <1>10. AheadInv'
    <2> SUFFICES ASSUME ~overlapped, NEW q \in Requests, now[q] # 0, NEW t \in Tables,
                        t[1] = group[q], result'[q][t] = "none"
                 PROVE  Store!Get(file', t).time <= now[q]
      BY <1>5, <1>8 DEF AheadInv
    <2>1. now[r] # 0 /\ q = r /\ ~crossed
      BY DEF TimeInv, LoneInv, Store!Rename
    <2>2. t # NextTable(r) /\ result[r][t] = "none"
      BY <1>2, <2>1, EndTableKeepsOrder
    <2>3. Store!Get(file', t) = Store!Get(file, t)
      BY <1>6, <2>1, <2>2, RenameGoesForward DEF StoreInv, TypeOK
    <2> QED  BY <2>1, <2>2, <2>3 DEF AheadInv
  <1> QED  BY <1>1, <1>3, <1>7, <1>9, <1>10 DEF StoreInv

\* The processes in dead forget everything, the others notice nothing.
LEMMA DeathKeepsTables ==
  ASSUME ServiceInv, NEW dead, Store!Crash(dead),
         \A q \in Requests : result'[q] = IF q \in dead THEN NoResults ELSE result[q]
  PROVE  TableInv' /\ AheadInv'
  <1> USE DEF ServiceInv, FileInv, Store!Crash, Store!Forget, Store!EndRuns
  <1>1. \A q \in Requests : q \notin dead =>
           /\ pc'[q] = pc[q] /\ table'[q] = table[q] /\ group'[q] = group[q]
           /\ now'[q] = now[q] /\ result'[q] = result[q]
           /\ Left(q)' = Left(q) /\ NextTable(q)' = NextTable(q)
    BY SameTable
  <1>2. \A q \in Requests : q \in dead =>
           pc'[q] = "idle" /\ now'[q] = 0 /\ result'[q] = NoResults
    OBVIOUS
  <1>3. \A t \in Tables : NoResults[t] = "none"
    BY DEF NoResults
  <1>4. \A t \in Tables : Store!Get(file, t)' = Store!Get(file, t)
    BY DEF Store!Get, Store!Nothing
  <1>5. TableInv'
    BY <1>1, <1>2, <1>3, <1>4 DEF TableInv, InGroup, Outcomes, Store!Nothing
  <1>6. AheadInv'
    BY <1>1, <1>2, <1>4 DEF AheadInv
  <1> QED  BY <1>5, <1>6

LEMMA PanicKeepsInv ==
  ASSUME ServiceInv, NEW r \in Requests, Panic(r)
  PROVE  ServiceInv'
  <1> USE DEF ServiceInv, FileInv, Panic, Leave, Reply
  <1>1. StoreInv'
    BY CrashKeepsStore DEF StoreInv, TypeOK
  <1>2. TypeOK'
    BY <1>1, TableFacts DEF TypeOK, StoreInv
  <1>3. FlagInv'
    <2>1. (running' <=> Holders' # {}) /\ \A q, p \in Holders' : q = p
      BY LeaveReleases DEF Holders
    <2> HIDE DEF Holders
    <2> QED  BY <2>1 DEF FlagInv, TypeOK, Store!Crash, Store!EndRuns
  <1>4. \A q \in Requests : result'[q] = IF q \in {r} THEN NoResults ELSE result[q]
    BY DEF TypeOK
  <1>5. TableInv' /\ AheadInv'
    BY <1>4, DeathKeepsTables
  <1> QED  BY <1>1, <1>2, <1>3, <1>5 DEF StoreInv

LEMMA ServerCrashKeepsInv ==
  ASSUME ServiceInv, ServerCrash
  PROVE  ServiceInv'
  <1> USE DEF ServiceInv, FileInv, ServerCrash, Drop
  <1>1. StoreInv'
    BY CrashKeepsStore DEF StoreInv, TypeOK
  <1>2. TypeOK'
    BY <1>1, TableFacts DEF TypeOK, StoreInv
  <1>3. FlagInv'
    BY DEF FlagInv, Holders, Store!Crash, Store!EndRuns
  <1>4. TableInv' /\ AheadInv'
    BY DeathKeepsTables
  <1> QED  BY <1>1, <1>2, <1>3, <1>4 DEF StoreInv

LEMMA CommandCrashKeepsInv ==
  ASSUME ServiceInv, NEW r \in Requests, CommandCrash(r)
  PROVE  ServiceInv'
  <1> USE DEF ServiceInv, FileInv, CommandCrash, Drop
  <1>1. StoreInv'
    BY CrashKeepsStore DEF StoreInv, TypeOK
  <1>2. TypeOK'
    BY <1>1, TableFacts DEF TypeOK, StoreInv
  <1>3. FlagInv'
    BY DEF FlagInv, Holders, Store!Crash, Store!EndRuns
  <1>4. TableInv' /\ AheadInv'
    BY DeathKeepsTables
  <1> QED  BY <1>1, <1>2, <1>3, <1>4 DEF StoreInv

LEMMA StepServiceInv == ServiceInv /\ [Next]_vars => ServiceInv'
  <1> SUFFICES ASSUME ServiceInv, [Next]_vars
               PROVE  ServiceInv'
    OBVIOUS
  <1>1. ASSUME NEW r \in Requests, Handle(r)
        PROVE  ServiceInv'
    <2>1. CASE Reject(r) \/ Acquire(r) \/ Conflict(r) \/ BeginCommand(r)
      BY <2>1, RejectKeepsInv, AcquireKeepsInv, BeginCommandKeepsInv
    <2>2. CASE BadParameter(r) \/ SetupFails(r) \/ FinishRun(r)
      BY <2>2, RefusedKeepsInv, FinishRunKeepsInv
    <2>3. CASE BeginFile(r) \/ FileFails(r) \/ OpenTable(r) \/ PlanApplied(r)
      BY <2>3, BeginFileKeepsInv, FileFailsKeepsInv, OpenTableKeepsInv, PlanAppliedKeepsInv
    <2>4. CASE TableFails(r) \/ LeavePending(r) \/ Save(r) \/ TableSaved(r)
      BY <2>4, TableFailsKeepsInv, LeavePendingKeepsInv, SaveKeepsInv, TableSavedKeepsInv
    <2>5. ASSUME NEW found, StartRun(r, found)
          PROVE  ServiceInv'
      BY <2>5, StartRunKeepsInv
    <2> QED  BY <1>1, <2>1, <2>2, <2>3, <2>4, <2>5 DEF Handle
  <1>2. ASSUME NEW r \in Requests, Arrive(r) \/ Panic(r) \/ CommandCrash(r)
        PROVE  ServiceInv'
    BY <1>2, ArriveKeepsInv, PanicKeepsInv, CommandCrashKeepsInv
  <1>3. CASE ServerCrash
    BY <1>3, ServerCrashKeepsInv
  <1>4. CASE UNCHANGED vars
    <2>1. StoreInv' /\ TableInv' /\ AheadInv'
      BY <1>4, QuietKeepsTables DEF vars, service
    <2>2. TypeOK' /\ FlagInv'
      BY <1>4, <2>1
         DEF vars, service, stateFile, ServiceInv, StoreInv, TypeOK, FlagInv, Holders
    <2> QED  BY <2>1, <2>2 DEF ServiceInv, StoreInv
  <1> QED  BY <1>1, <1>2, <1>3, <1>4 DEF Next

\* The invariant of the service and its state file.
THEOREM ServiceInvariant == Spec => []ServiceInv
  BY InitServiceInv, StepServiceInv, PTL DEF Spec

\* Every variable of the service and of the checkpoint store keeps its type.
THEOREM ServiceTypeCorrect == Spec => []TypeOK
  <1>1. ServiceInv => TypeOK
    BY DEF ServiceInv
  <1> QED  BY <1>1, ServiceInvariant, PTL

\* However many requests come together and however runs end, at most one handler
\* of the server is past the flag.
THEOREM OneRun == Spec => []OneRunAtATime
  <1>1. ServiceInv => OneRunAtATime
    <2> SUFFICES ASSUME ServiceInv
                 PROVE  Cardinality(Holders) <= 1
      BY DEF OneRunAtATime
    <2>1. CASE Holders = {}
      BY <2>1, FS_EmptySet
    <2>2. ASSUME NEW r \in Holders
          PROVE  Cardinality(Holders) <= 1
      <3>1. Holders = {r}
        BY <2>2 DEF ServiceInv, FlagInv
      <3>2. Cardinality(Holders) = 1
        BY <3>1, FS_Singleton
      <3> QED  BY <3>2
    <2> QED  BY <2>1, <2>2
  <1> QED  BY <1>1, ServiceInvariant, PTL

\* The flag is never left behind by a handler that is gone.
THEOREM FlagReleased == Spec => []FlagIsReleased
  <1>1. ServiceInv => FlagIsReleased
    BY DEF ServiceInv, FlagInv, FlagIsReleased
  <1> QED  BY <1>1, ServiceInvariant, PTL

\* Without a command beside the server no two processes are in a run, let alone in a
\* save, together.
THEOREM ServerAloneNeverCrosses == Spec => []ServerNeverCrosses
  <1>1. ServiceInv => ServerNeverCrosses
    BY DEF ServiceInv, FileInv, LoneInv, FlagInv, ServerNeverCrosses
  <1> QED  BY <1>1, ServiceInvariant, PTL

\* Saves that do not cross never leave a truncated state file, whatever dies when.
THEOREM StateFileIsWhole == Spec => []FileIsWhole
  <1>1. ServiceInv => FileIsWhole
    BY DEF ServiceInv, FileInv, SaveInv, FileIsWhole, Store!FileIsWhole
  <1> QED  BY <1>1, ServiceInvariant, PTL

\* No table ever gets a checkpoint that a pass over another table earned, even when
\* saves cross.
THEOREM CheckpointsAreOwn == Spec => []NoForeignCheckpoint
  <1>1. ServiceInv => NoForeignCheckpoint
    <2> SUFFICES ASSUME ServiceInv, file # Partial, NEW t \in Tables,
                        Store!Get(file, t) # Store!Nothing
                 PROVE  Store!Get(file, t).of = t
      BY DEF NoForeignCheckpoint, Store!NoForeignCheckpoint
    <2>1. file # Missing
      BY DEF Store!Get
    <2>2. Earned(file)
      BY <2>1 DEF ServiceInv, FileInv, DocumentInv, Store!IsWhole
    <2> QED  BY <2>1, <2>2 DEF Earned, Store!Get
  <1> QED  BY <1>1, ServiceInvariant, PTL

\* A run that got as far as the files attempts every table of every file, up to
\* the first that fails in each.
THEOREM FailuresStayInTheirFile == Spec => []FailureStaysInItsFile
  <1>1. ServiceInv => FailureStaysInItsFile
    <2> SUFFICES ASSUME ServiceInv, NEW r \in Requests, Left(r) = {}, NEW t \in Tables
                 PROVE  result[r][t] = "none" <=>
                           /\ result[r][t] # "absent"
                           /\ \E u \in Tables : u[1] = t[1] /\ u[2] < t[2]
                                                /\ result[r][u] = "failed"
      BY DEF FailureStaysInItsFile
    <2> USE DEF ServiceInv, FileInv, TypeOK
    <2>1. result[r][t] \in {"absent", "none"} \cup Outcomes
      OBVIOUS
    <2>2. ASSUME result[r][t] = "none"
          PROVE  \E u \in Tables : u[1] = t[1] /\ u[2] < t[2] /\ result[r][u] = "failed"
      <3>1. PICK u \in Tables : u[1] = t[1] /\ result[r][u] = "failed"
        BY <2>2 DEF Left, Failed
      <3>2. u # t /\ u[2] # t[2]
        BY <2>2, <3>1, TableFacts
      <3>3. ~(t[2] < u[2])
        BY <2>2, <3>1 DEF TableInv, Outcomes
      <3>4. u[2] \in Nat /\ t[2] \in Nat
        BY TableFacts
      <3>5. u[2] < t[2]
        <4>1. \A i, j \in Nat : i # j /\ ~(j < i) => i < j
          OBVIOUS
        <4> HIDE DEF ServiceInv, TypeOK
        <4> QED  BY ONLY <3>2, <3>3, <3>4, <4>1, Zenon
      <3> QED  BY <3>1, <3>5
    <2>3. ASSUME NEW u \in Tables, u[1] = t[1], u[2] < t[2], result[r][u] = "failed"
          PROVE  result[r][t] \notin Outcomes
      BY <2>3 DEF TableInv
    <2> QED  BY <2>1, <2>2, <2>3
  <1> QED  BY <1>1, ServiceInvariant, PTL

\* Panics, crashes and restarts never lose the checkpoint of a table while saves do
\* not cross, and never take one back while runs do not overlap: the time a save
\* puts in the file was read at the start of its group or later, and what the file
\* had was read before.
THEOREM CheckpointsNeverGoBack == Spec => NeverGoesBack
  <1>1. ASSUME ServiceInv, [Next]_vars, Partial \notin {file, file'}, NEW t \in Tables
        PROVE  /\ ~crossed' /\ Store!Get(file, t) # Store!Nothing =>
                     Store!Get(file', t) # Store!Nothing
               /\ ~overlapped' => Store!Get(file', t).time >= Store!Get(file, t).time
    <2> DEFINE Forward ==
                 /\ ~crossed' /\ Store!Get(file, t) # Store!Nothing =>
                       Store!Get(file', t) # Store!Nothing
                 /\ ~overlapped' => Store!Get(file', t).time >= Store!Get(file, t).time
    <2> USE DEF ServiceInv, FileInv, TypeOK
    <2>1. Store!Get(file, t).time \in Nat
      BY <1>1, GetFacts DEF Store!TypeOK
    <2>2. file' = file => Forward
      BY <2>1
    <2>3. ASSUME NEW r \in Requests, Save(r)
          PROVE  Forward
      <3>1. ServiceInv'
        BY <1>1, StepServiceInv
      <3>2. ~overlapped' => ~crossed'
        BY <3>1 DEF LoneInv
      <3>3. ~crossed' => file' = file
        BY <1>1, <2>3, WriteLeavesFile
           DEF Save, Store!ReadAndMerge, Store!BeginSave, Store!OpenTmp, Store!WriteTmp,
               StoreInv
      <3> QED  BY <2>1, <3>2, <3>3
    <2>4. ASSUME NEW r \in Requests, TableSaved(r)
          PROVE  Forward
      <3>1. Store!Rename(r) /\ crossed' = crossed /\ overlapped' = overlapped
        BY <2>4 DEF TableSaved, Store!Rename
      <3>2. ~overlapped => ~crossed
        BY <1>1 DEF LoneInv
      <3>3. table[r] \in Tables
        BY <1>1, <3>1 DEF TimeInv, Store!Rename
      <3>4. ~overlapped => Store!Get(file', t).time >= Store!Get(file, t).time
        <4>1. CASE t = table[r]
          BY <1>1, <3>1, <3>2, <4>1, RenameGoesForward DEF StoreInv
        <4>2. CASE t # table[r]
          <5>1. ~overlapped => Store!Get(file', t) = Store!Get(file, t)
            BY <1>1, <3>1, <3>2, <4>2, RenameGoesForward DEF StoreInv
          <5> QED  BY <2>1, <5>1
        <4> QED  BY <4>1, <4>2
      <3> QED  BY <1>1, <3>1, <3>2, <3>4, RenameGoesForward DEF StoreInv
    <2>5. ASSUME NEW r \in Requests, Handle(r), ~Save(r), ~TableSaved(r)
          PROVE  file' = file
      BY <2>5 DEF Handle, Reject, Acquire, Conflict, BeginCommand, BadParameter, SetupFails,
         StartRun, BeginFile, FileFails, OpenTable, TableFails, PlanApplied, LeavePending,
         FinishRun, stateFile, Store!BeginGroup, Store!EndRun, Store!Load, Store!LoadFails,
         Store!Applied, Store!vars, Store!SaveFails, Store!LeaveUnsaved, Store!Return
    <2>6. ASSUME NEW r \in Requests, Arrive(r) \/ Panic(r) \/ CommandCrash(r)
          PROVE  file' = file
      BY <2>6 DEF Arrive, Panic, CommandCrash, Drop, Store!Crash, stateFile
    <2>7. ServerCrash => file' = file
      BY DEF ServerCrash, Drop, Store!Crash
    <2>8. UNCHANGED vars => file' = file
      BY DEF vars, stateFile
    <2> HIDE DEF Forward
    <2>9. Forward
      BY <1>1, <2>2, <2>3, <2>4, <2>5, <2>6, <2>7, <2>8 DEF Next
    <2> QED  BY <2>9 DEF Forward
  <1>2. ServiceInv /\ [Next]_vars =>
           [Partial \notin {file, file'} => \A t \in Tables :
               /\ ~crossed' /\ Store!Get(file, t) # Store!Nothing =>
                     Store!Get(file', t) # Store!Nothing
               /\ ~overlapped' => Store!Get(file', t).time >= Store!Get(file, t).time
           ]_Store!vars
    BY <1>1
  <1> QED  BY <1>2, ServiceInvariant, PTL DEF Spec, NeverGoesBack, Store!NeverGoesBack

\* A 200 with "ok": true is given only for a run that brought every table through.
THEOREM OkIsTrue == Spec => OkMeansAllTables
  <1>1. ASSUME ServiceInv, [Next]_vars, NEW r \in Requests, state[r] = "run",
               status'[r] = "200", NEW t \in Tables
        PROVE  /\ result[r][t] \in {"absent", "saved", "pending"}
               /\ result[r][t] = "saved" /\ ~crossed => Store!Get(file, t) # Store!Nothing
    <2> USE DEF ServiceInv, FileInv, TypeOK
    <2>1. status[r] = "none"
      BY <1>1 DEF FlagInv
    <2>2. FinishRun(r) /\ ~\E f \in Files : Failed(r, f)
      <3>1. ASSUME NEW q \in Requests, Handle(q)
            PROVE  FinishRun(r) /\ ~\E f \in Files : Failed(r, f)
        BY <1>1, <2>1, <3>1
           DEF Handle, Reject, Acquire, Conflict, BeginCommand, BadParameter, SetupFails,
               StartRun, BeginFile, FileFails, OpenTable, TableFails, PlanApplied,
                   LeavePending, Save, TableSaved, FinishRun,
               EndTable, Leave, Reply, service
      <3>2. ASSUME NEW q \in Requests, Arrive(q) \/ Panic(q) \/ CommandCrash(q)
            PROVE  FALSE
        BY <1>1, <2>1, <3>2 DEF Arrive, Panic, CommandCrash, Drop, Leave, Reply
      <3>3. ~ServerCrash
        BY <1>1, <2>1 DEF ServerCrash, Drop
      <3>4. ~UNCHANGED vars
        BY <1>1, <2>1 DEF vars, service
      <3> QED  BY <1>1, <3>1, <3>2, <3>3, <3>4 DEF Next
    <2>3. Left(r) = {}
      BY <2>2 DEF FinishRun
    <2>4. ~Failed(r, t[1])
      BY <2>2, TableFacts
    <2>5. result[r][t] # "none" /\ result[r][t] # "failed"
      BY <2>3, <2>4 DEF Left, Failed
    <2>6. result[r][t] \in {"absent", "saved", "pending"}
      BY <1>1, <2>5 DEF Outcomes
    <2>7. result[r][t] = "saved" /\ ~crossed => Store!Get(file, t) # Store!Nothing
      BY <1>1 DEF TableInv
    <2> QED  BY <2>6, <2>7
  <1>2. ServiceInv /\ [Next]_vars =>
           [\A r \in Requests : state[r] = "run" /\ status'[r] = "200" =>
               \A t \in Tables :
                  /\ result[r][t] \in {"absent", "saved", "pending"}
                  /\ result[r][t] = "saved" /\ ~crossed => Store!Get(file, t) # Store!Nothing]_vars
    BY <1>1
  <1> QED  BY <1>2, ServiceInvariant, PTL DEF Spec, OkMeansAllTables
=============================================================================
