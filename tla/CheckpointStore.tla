--------------------------- MODULE CheckpointStore ---------------------------
(***************************************************************************)
(* The checkpoint file (internal/state/checkpoint.go): one JSON document   *)
(* with the safe-through time of every table, read, merged and replaced    *)
(* through a temporary file of a fixed name.                               *)
(*                                                                         *)
(* The module has the steps of a process that begins a file group, loads   *)
(* the checkpoint of one of its tables, makes its pass and saves the new   *)
(* one; RunService says when it takes them, and when it dies between any   *)
(* two system calls.  Several processes are the runs of a server, of a     *)
(* second replica, or of the command line next to it, on one state path.   *)
(*                                                                         *)
(* The time a pass saves is read long before the save: when the file group *)
(* began, or when the plan was applied.  The processes read one clock,     *)
(* which never gives one time twice.                                       *)
(***************************************************************************)
EXTENDS Integers

CONSTANTS
    Procs,     \* processes that share the state path
    Tables,    \* the file/table pairs of the configuration
    NoTable,   \* the table of a process that is at none
    Missing,   \* the content of a path that names no file
    Partial,   \* a truncated or half written file: not a JSON document
    MaxTime    \* bound on the readings of the clock, for model checking

VARIABLES
    file,       \* what the state path names: Missing, Partial, or a document
    tmp,        \* what the path with ".tmp" names
    clock,      \* the last reading of the clock
    group,      \* group[p]: the file group p is in, 0 while it is in no run
    now,        \* now[p]: the reading p took when it began the group, 0 before
    pc,         \* pc[p]: "idle", "pass", "applied", "open", "write" or "rename"
    table,      \* table[p]: the table p is at
    through,    \* through[p]: the time the pass of p will save
    doc,        \* doc[p]: the document p read and merged
    handle,     \* handle[p]: where the file p has open is: "tmp", "file" or "none"
    crossed,    \* ghost: two processes were in a save at the same time
    overlapped  \* ghost: two processes were in a run at the same time

runs == <<group, now>>
steps == <<pc, table, through, doc, handle>>
vars == <<file, tmp, clock, runs, steps, crossed, overlapped>>

\* A checkpoint is a time and, to tell whose it is, the table whose pass had it.
Nothing == [of |-> NoTable, time |-> 0]
Checkpoint == [of : Tables \cup {NoTable}, time : 0 .. MaxTime]

\* A document: a checkpoint for every table, or Nothing.
Empty == [t \in Tables |-> Nothing]
Document == [Tables -> Checkpoint]
IsWhole(content) == content \notin {Missing, Partial}
\* LoadSafeThrough finds nothing in a missing file.
Get(content, t) == IF content = Missing THEN Nothing ELSE content[t]

Init ==
    /\ file = Missing /\ tmp = Missing
    /\ clock = 0
    /\ group = [p \in Procs |-> 0] /\ now = [p \in Procs |-> 0]
    /\ pc = [p \in Procs |-> "idle"]
    /\ table = [p \in Procs |-> NoTable]
    /\ through = [p \in Procs |-> 0]
    /\ doc = [p \in Procs |-> Empty]
    /\ handle = [p \in Procs |-> "none"]
    /\ crossed = FALSE /\ overlapped = FALSE
-----------------------------------------------------------------------------
Saving == {"open", "write", "rename"}

ReadClock == clock < MaxTime /\ clock' = clock + 1

\* What the processes in done had of a table is gone.
Forget(done) ==
    /\ pc' = [p \in Procs |-> IF p \in done THEN "idle" ELSE pc[p]]
    /\ table' = [p \in Procs |-> IF p \in done THEN NoTable ELSE table[p]]
    /\ through' = [p \in Procs |-> IF p \in done THEN 0 ELSE through[p]]
    /\ doc' = [p \in Procs |-> IF p \in done THEN Empty ELSE doc[p]]
    /\ handle' = [p \in Procs |-> IF p \in done THEN "none" ELSE handle[p]]

\* The processes in done are in no run any more.
EndRuns(done) ==
    /\ group' = [p \in Procs |-> IF p \in done THEN 0 ELSE group[p]]
    /\ now' = [p \in Procs |-> IF p \in done THEN 0 ELSE now[p]]

\* runFileGroup takes "now" once, for all the tables of the file.
BeginGroup(p, g) ==
    /\ pc[p] = "idle"
    /\ ReadClock
    /\ group' = [group EXCEPT ![p] = g]
    /\ now' = [now EXCEPT ![p] = clock']
    /\ overlapped' = (overlapped \/ \E q \in Procs \ {p} : now[q] # 0)
    /\ UNCHANGED <<file, tmp, steps, crossed>>

EndRun(p) ==
    /\ pc[p] = "idle"
    /\ EndRuns({p})
    /\ UNCHANGED <<file, tmp, clock, steps, crossed, overlapped>>

\* LoadSafeThrough: a file that does not parse is an error.
Load(p, t) ==
    /\ pc[p] = "idle"
    /\ file # Partial
    /\ pc' = [pc EXCEPT ![p] = "pass"]
    /\ table' = [table EXCEPT ![p] = t]
    /\ through' = [through EXCEPT ![p] = now[p]]
    /\ UNCHANGED <<file, tmp, clock, runs, doc, handle, crossed, overlapped>>

LoadFails(p) ==
    /\ pc[p] = "idle"
    /\ file = Partial
    /\ UNCHANGED vars

\* The plan was applied, and the pass will save the time that is now: before the
\* verification, which may take long.
Applied(p) ==
    /\ pc[p] = "pass"
    /\ ReadClock
    /\ through' = [through EXCEPT ![p] = clock']
    /\ pc' = [pc EXCEPT ![p] = "applied"]
    /\ UNCHANGED <<file, tmp, runs, table, doc, handle, crossed, overlapped>>

\* p merged its time into a document and is about to write it.
BeginSave(p, document) ==
    /\ pc[p] \in {"pass", "applied"}
    /\ doc' = [doc EXCEPT ![p] = document]
    /\ pc' = [pc EXCEPT ![p] = "open"]
    /\ crossed' = (crossed \/ \E q \in Procs \ {p} : pc[q] \in Saving)
    /\ UNCHANGED <<file, tmp, clock, runs, table, through, handle, overlapped>>

New(p) == [of |-> table[p], time |-> through[p]]

\* Faulty: the document is written anew, with this table only.
WriteAnew(p) == BeginSave(p, [Empty EXCEPT ![table[p]] = New(p)])

\* Faulty: every table of the document gets the new time.
MergeIntoAll(p) == BeginSave(p, [t \in Tables |-> New(p)])

\* Faulty: an unreadable file ends up in the document.
MergeUnread(p) ==
    BeginSave(p, IF IsWhole(file) THEN [file EXCEPT ![table[p]] = New(p)] ELSE file)

\* SaveSafeThrough reads the document again; one that does not parse is ignored.
ReadAndMerge(p) ==
    BeginSave(p, [IF IsWhole(file) THEN file ELSE Empty EXCEPT ![table[p]] = New(p)])

\* Faulty: the state path itself is truncated and written.
OpenInPlace(p) ==
    /\ pc[p] = "open"
    /\ file' = Partial
    /\ handle' = [handle EXCEPT ![p] = "file"]
    /\ pc' = [pc EXCEPT ![p] = "write"]
    /\ UNCHANGED <<tmp, clock, runs, table, through, doc, crossed, overlapped>>

\* os.WriteFile: open with O_TRUNC, then write.
OpenTmp(p) ==
    /\ pc[p] = "open"
    /\ tmp' = Partial
    /\ handle' = [handle EXCEPT ![p] = "tmp"]
    /\ pc' = [pc EXCEPT ![p] = "write"]
    /\ UNCHANGED <<file, clock, runs, table, through, doc, crossed, overlapped>>

\* Written over a document of another length, a document may keep its tail.
Overwrite(old, new) == IF IsWhole(old) THEN {new, Partial} ELSE {new}

\* Another process may have renamed the file p has open, or written to it.
WriteTmp(p) ==
    /\ pc[p] = "write"
    /\ tmp' \in IF handle[p] = "tmp" THEN Overwrite(tmp, doc[p]) ELSE {tmp}
    /\ file' \in IF handle[p] = "file" THEN Overwrite(file, doc[p]) ELSE {file}
    /\ handle' = [handle EXCEPT ![p] = "none"]
    /\ pc' = [pc EXCEPT ![p] = "rename"]
    /\ UNCHANGED <<clock, runs, table, through, doc, crossed, overlapped>>

\* Handles on the temporary file follow it, handles on the old file are lost.
Rename(p) ==
    /\ pc[p] = "rename"
    /\ tmp # Missing
    /\ file' = tmp
    /\ tmp' = Missing
    /\ handle' = [q \in Procs |-> IF q # p /\ handle[q] = "tmp" THEN "file" ELSE "none"]
    /\ pc' = [pc EXCEPT ![p] = "idle"]
    /\ table' = [table EXCEPT ![p] = NoTable]
    /\ through' = [through EXCEPT ![p] = 0]
    /\ doc' = [doc EXCEPT ![p] = Empty]
    /\ UNCHANGED <<clock, runs, crossed, overlapped>>

Return(p) ==
    /\ Forget({p})
    /\ UNCHANGED <<file, tmp, clock, runs, crossed, overlapped>>

\* The pass failed, or a system call, or the rename found no temporary file.
SaveFails(p) == pc[p] # "idle" /\ Return(p)

\* A dry run ends the pass without a save.
LeaveUnsaved(p) == pc[p] = "pass" /\ Return(p)

\* The processes in dead die: what they had in memory is gone.
Crash(dead) ==
    /\ Forget(dead) /\ EndRuns(dead)
    /\ UNCHANGED <<file, tmp, clock, crossed, overlapped>>
-----------------------------------------------------------------------------
(* Correctness.                                                            *)

\* Every variable has its type.
TypeOK ==
    /\ file \in Document \cup {Missing, Partial}
    /\ tmp \in Document \cup {Missing, Partial}
    /\ clock \in 0 .. MaxTime
    /\ group \in [Procs -> Nat] /\ now \in [Procs -> 0 .. MaxTime]
    /\ pc \in [Procs -> {"idle", "pass", "applied"} \cup Saving]
    /\ table \in [Procs -> Tables \cup {NoTable}]
    /\ through \in [Procs -> 0 .. MaxTime]
    /\ doc \in [Procs -> Document]
    /\ handle \in [Procs -> {"tmp", "file", "none"}]
    /\ crossed \in BOOLEAN /\ overlapped \in BOOLEAN

\* "writes atomically" (checkpoint.go:55): as long as no two processes are in a
\* save together (docs/DOCKER_K8S.md:90 asks for one replica), the state path
\* never names a truncated document, which every later load would refuse,
\* whenever a process dies and whatever temporary file it leaves behind.
FileIsWhole == ~crossed => file # Partial

\* The checkpoint of a table is never lost while saves do not cross, and never
\* goes back while runs do not overlap, whatever the crash and whichever table was
\* saved: a lost one would bring the whole bootstrap window, one that went back
\* rows that were synchronised already.  Runs that overlap may take one back even
\* when their saves do not cross, since each saves a time it read long before.
NeverGoesBack ==
    [][Partial \notin {file, file'} => \A t \in Tables :
          /\ ~crossed' /\ Get(file, t) # Nothing => Get(file', t) # Nothing
          /\ ~overlapped' => Get(file', t).time >= Get(file, t).time]_vars

\* Even processes that cross give a table no checkpoint but one a pass over that
\* table earned.  (A crossed save may lose the advance of another table, which
\* only makes a window longer; no property here catches that.)
NoForeignCheckpoint ==
    file # Partial => \A t \in Tables : Get(file, t) # Nothing => Get(file, t).of = t
=============================================================================
