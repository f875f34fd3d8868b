------------------------------ MODULE RunService ------------------------------
(***************************************************************************)
(* The HTTP trigger (newServerHandler in cmd/freesync/main.go), the run    *)
(* command beside it, and the run both start: loadAndRunOnce, Once and the *)
(* loop of runFileGroup over the tables of a file (internal/run/sync.go),  *)
(* composed with the checkpoint file they share.                           *)
(*                                                                         *)
(* Requests are handled by goroutines of the HTTP server, and an atomic    *)
(* flag lets one run at a time.  A command is a process of its own that    *)
(* knows nothing of the flag.  What a run does to one table is TablePass;  *)
(* here it loads the checkpoint, ends, and saves or does not.              *)
(***************************************************************************)
EXTENDS Integers, FiniteSets

CONSTANTS
    Requests,    \* the runs that may be asked for together
    Commands,    \* those of them that may be run commands, the others are POST /run
    NumFiles,    \* file groups of the configuration, in its order
    Tables,      \* pairs of a file and the place of a table in its list
    Discovered,  \* the file groups without a table list: their tables are looked up
    NoTable, Missing, Partial, MaxTime  \* of CheckpointStore

Files == 1 .. NumFiles

ASSUME ServiceAssumption ==
    /\ NumFiles \in Nat \ {0} /\ Tables \subseteq Files \X Nat
    /\ Discovered \subseteq Files /\ Commands \subseteq Requests
    /\ NoTable \notin Tables /\ MaxTime \in Nat
    /\ Missing # Partial
    /\ {Missing, Partial} \cap
           [Tables -> [of : Tables \cup {NoTable}, time : 0 .. MaxTime]] = {}

VARIABLES
    command,  \* the requests that are run commands
    running,  \* the atomic flag of the server
    state,    \* state[r]: "idle", "arrived", "params" or "run"
    status,   \* status[r]: the last reply, "none" if a panic or a crash took it
    result,   \* result[r]: how each table ended in the run of r, so far
    file, tmp, clock, group, now, pc, table, through, doc, handle,  \* of Checkpoint-
    crossed, overlapped                                             \* Store

service == <<command, running, state, status, result>>
stateFile == <<file, tmp, clock, group, now, pc, table, through, doc, handle, crossed,
               overlapped>>
vars == <<service, stateFile>>

\* Every run is a process of the checkpoint store, within the server or its own.
Store == INSTANCE CheckpointStore WITH Procs <- Requests

Outcomes == {"saved", "pending", "failed"}
NoResults == [t \in Tables |-> "none"]

Init ==
    /\ command \in SUBSET Commands
    /\ running = FALSE
    /\ state = [r \in Requests |-> "idle"]
    /\ status = [r \in Requests |-> "none"]
    /\ result = [r \in Requests |-> NoResults]
    /\ Store!Init
-----------------------------------------------------------------------------
Holders == {r \in Requests \ command : state[r] \in {"params", "run"}}

\* The client sends a request, or the operator starts a command.
Arrive(r) ==
    /\ state[r] = "idle"
    /\ state' = [state EXCEPT ![r] = "arrived"]
    /\ status' = [status EXCEPT ![r] = "none"]
    /\ UNCHANGED <<command, running, result, stateFile>>

Reply(r, code) ==
    /\ state' = [state EXCEPT ![r] = "idle"]
    /\ status' = [status EXCEPT ![r] = code]
    /\ result' = [result EXCEPT ![r] = NoResults]
    /\ UNCHANGED command

\* Another method than POST, or no valid token.
Reject(r) ==
    /\ state[r] = "arrived" /\ r \notin command
    /\ Reply(r, "4xx")
    /\ UNCHANGED <<running, stateFile>>

\* Faulty: the flag is set without looking at it.
AcquireAnyway(r) ==
    /\ state[r] = "arrived" /\ r \notin command
    /\ running' = TRUE
    /\ state' = [state EXCEPT ![r] = "params"]
    /\ UNCHANGED <<command, status, result, stateFile>>

\* CompareAndSwap(false, true) succeeds, or it does not.
Acquire(r) ==
    /\ state[r] = "arrived" /\ r \notin command
    /\ ~running
    /\ running' = TRUE
    /\ state' = [state EXCEPT ![r] = "params"]
    /\ UNCHANGED <<command, status, result, stateFile>>

\* Faulty: the release is deferred before the flag is taken.
ConflictReleases(r) ==
    /\ state[r] = "arrived" /\ r \notin command
    /\ running
    /\ Reply(r, "4xx")
    /\ running' = FALSE
    /\ UNCHANGED stateFile

Conflict(r) ==
    /\ state[r] = "arrived" /\ r \notin command
    /\ running
    /\ Reply(r, "4xx")
    /\ UNCHANGED <<running, stateFile>>

\* "freesync run" has no flag to ask for.
BeginCommand(r) ==
    /\ state[r] = "arrived" /\ r \in command
    /\ state' = [state EXCEPT ![r] = "params"]
    /\ UNCHANGED <<command, running, status, result, stateFile>>

\* The deferred Store(false) runs on every way out of the handler.
Leave(r, code) ==
    /\ Reply(r, code)
    /\ running' = (running /\ r \in command)

\* Faulty: a refused parameter returns before the release is deferred.
BadParameterKeepsFlag(r) ==
    state[r] = "params" /\ Reply(r, "4xx") /\ UNCHANGED <<running, stateFile>>

BadParameter(r) == state[r] = "params" /\ Leave(r, "4xx") /\ UNCHANGED stateFile

\* The configuration, the table discovery or the state file is at fault.
SetupFails(r) == state[r] = "params" /\ Leave(r, "500") /\ UNCHANGED stateFile

\* found: the tables that both servers list, of the files that name none.  Every
\* checkpoint is read once before the run, to see whether it can be.
StartRun(r, found) ==
    /\ state[r] = "params"
    /\ LET absent == {t \in Tables : t[1] \in Discovered} \ found IN
       /\ file = Partial => absent = Tables
       /\ result' = [result EXCEPT ![r] =
            [t \in Tables |-> IF t \in absent THEN "absent" ELSE "none"]]
    /\ state' = [state EXCEPT ![r] = "run"]
    /\ UNCHANGED <<command, running, status, stateFile>>
-----------------------------------------------------------------------------
Failed(r, f) == \E t \in Tables : t[1] = f /\ result[r][t] = "failed"

\* Faulty: a table that fails ends the whole run.
LeftUntilFailure(r) ==
    {t \in Tables : result[r][t] = "none" /\ ~\E f \in Files : Failed(r, f)}

\* A table that fails ends its file group, and Once goes on with the next one.
Left(r) == {t \in Tables : result[r][t] = "none" /\ ~Failed(r, t[1])}

NextTable(r) ==
    CHOOSE t \in Left(r) : \A u \in Left(r) :
        t[1] < u[1] \/ (t[1] = u[1] /\ t[2] <= u[2])

AtTable(r) == state[r] = "run" /\ Left(r) # {}

EndTable(r, outcome) ==
    /\ result' = [result EXCEPT ![r][NextTable(r)] = outcome]
    /\ UNCHANGED <<command, running, state, status>>

InGroup(r) == group[r] = NextTable(r)[1]

BeginFile(r) ==
    /\ AtTable(r) /\ ~InGroup(r)
    /\ Store!BeginGroup(r, NextTable(r)[1])
    /\ UNCHANGED service

\* The servers of the file are not configured: none of its tables is reached, which
\* counts as a failure of its first.
FileFails(r) ==
    /\ AtTable(r) /\ ~InGroup(r)
    /\ EndTable(r, "failed")
    /\ UNCHANGED stateFile

OpenTable(r) ==
    /\ AtTable(r) /\ InGroup(r)
    /\ Store!Load(r, NextTable(r))
    /\ UNCHANGED service

\* The state file, a server, or a client that left with the context of the run.
TableFails(r) ==
    /\ AtTable(r) /\ InGroup(r)
    /\ Store!LoadFails(r) \/ Store!SaveFails(r)
    /\ EndTable(r, "failed")

PlanApplied(r) == AtTable(r) /\ Store!Applied(r) /\ UNCHANGED service

\* A dry run with a plan saves nothing.
LeavePending(r) == AtTable(r) /\ Store!LeaveUnsaved(r) /\ EndTable(r, "pending")

Save(r) ==
    /\ AtTable(r)
    /\ Store!ReadAndMerge(r) \/ Store!OpenTmp(r) \/ Store!WriteTmp(r)
    /\ UNCHANGED service

TableSaved(r) == AtTable(r) /\ Store!Rename(r) /\ EndTable(r, "saved")

\* Faulty: the outcome of the last file decides.
FinishRunByLast(r) ==
    /\ state[r] = "run" /\ Left(r) = {}
    /\ Leave(r, IF Failed(r, NumFiles) THEN "500" ELSE "200")
    /\ Store!EndRun(r)

\* Faulty: a run with a failed file is not answered.
FinishRunIfOk(r) ==
    /\ state[r] = "run" /\ Left(r) = {}
    /\ ~(\E f \in Files : Failed(r, f))
    /\ Leave(r, "200")
    /\ Store!EndRun(r)

FinishRun(r) ==
    /\ state[r] = "run" /\ Left(r) = {}
    /\ Leave(r, IF \E f \in Files : Failed(r, f) THEN "500" ELSE "200")
    /\ Store!EndRun(r)

\* net/http recovers a panic of a handler and drops the connection.
Panic(r) ==
    /\ r \in Holders
    /\ Leave(r, "none")
    /\ Store!Crash({r})

\* The processes of the requests in dead are gone, and their connections.
Drop(dead) ==
    /\ state' = [r \in Requests |-> IF r \in dead THEN "idle" ELSE state[r]]
    /\ status' = [r \in Requests |-> IF r \in dead THEN "none" ELSE status[r]]
    /\ result' = [r \in Requests |-> IF r \in dead THEN NoResults ELSE result[r]]
    /\ Store!Crash(dead)
    /\ UNCHANGED command

\* The server dies with all its handlers, and is started again with a new flag.
ServerCrash == Drop(Requests \ command) /\ running' = FALSE

CommandCrash(r) == r \in command /\ Drop({r}) /\ UNCHANGED running
-----------------------------------------------------------------------------
Handle(r) ==
    \/ Reject(r) \/ Acquire(r) \/ Conflict(r) \/ BeginCommand(r)
    \/ BadParameter(r) \/ SetupFails(r)
    \/ \E found \in SUBSET {t \in Tables : t[1] \in Discovered} : StartRun(r, found)
    \/ BeginFile(r) \/ FileFails(r) \/ OpenTable(r) \/ TableFails(r)
    \/ PlanApplied(r) \/ LeavePending(r) \/ Save(r) \/ TableSaved(r)
    \/ FinishRun(r)

Next ==
    \/ \E r \in Requests : Arrive(r) \/ Handle(r) \/ Panic(r) \/ CommandCrash(r)
    \/ ServerCrash

Spec == Init /\ [][Next]_vars

\* Every handler goes on with what it has begun; clients and crashes owe nothing.
FairSpec == Spec /\ \A r \in Requests : WF_vars(Handle(r))
-----------------------------------------------------------------------------
(* Correctness.                                                            *)

\* Every variable has its type, those of the checkpoint file included.
TypeOK ==
    /\ command \subseteq Commands
    /\ running \in BOOLEAN
    /\ state \in [Requests -> {"idle", "arrived", "params", "run"}]
    /\ status \in [Requests -> {"none", "4xx", "500", "200"}]
    /\ result \in [Requests -> [Tables -> {"absent", "none"} \cup Outcomes]]
    /\ Store!TypeOK

\* Two runs of the server never work on the same tables at once (main.go:266),
\* which TablePass takes for granted.
OneRunAtATime == Cardinality(Holders) <= 1

\* Whatever way a run ends, by an error, a refused parameter, a panic or a crash,
\* the next request is not told "sync already running" (main.go:266-270).
FlagIsReleased == running => Holders # {}

\* The runs of the server alone never overlap, let alone meet in a save of the
\* state path, whatever panics, crashes and restarts: it takes a command beside it.
ServerNeverCrosses == command = {} => ~crossed /\ ~overlapped

\* "writes atomically" (checkpoint.go:55), see CheckpointStore: runs that do not
\* cross leave no truncated document, which every later run would refuse.
FileIsWhole == Store!FileIsWhole

\* The checkpoint of a table is not lost while saves do not cross, and does not go
\* back while runs do not overlap, whatever dies when.
NeverGoesBack == Store!NeverGoesBack

\* Even a command that crosses the server gives no table another's checkpoint.
NoForeignCheckpoint == Store!NoForeignCheckpoint

\* "ok": true means that every table of every file group was brought through,
\* saved or left pending by a dry run (sync.go:420-431, main.go:303-320; deferred
\* operations are no failure), and
\* that the checkpoint of a saved table is in the state file at that moment.
OkMeansAllTables ==
    [][\A r \in Requests : state[r] = "run" /\ status'[r] = "200" =>
          \A t \in Tables :
              /\ result[r][t] \in {"absent", "saved", "pending"}
              /\ result[r][t] = "saved" /\ ~crossed => Store!Get(file, t) # Store!Nothing]_vars

\* A file group that fails takes no other with it: a run that got as far as the
\* files attempts all of them, and in each the tables up to the first that fails.
FailureStaysInItsFile ==
    \A r \in Requests : state[r] = "run" /\ Left(r) = {} =>
        \A t \in Tables : result[r][t] = "none" <=>
            /\ result[r][t] # "absent"
            /\ \E u \in Tables : u[1] = t[1] /\ u[2] < t[2] /\ result[r][u] = "failed"

\* Every request is answered: a run is a finite loop over files and tables.
EveryRequestIsAnswered ==
    \A r \in Requests : state[r] = "arrived" ~> state[r] = "idle"
=============================================================================
