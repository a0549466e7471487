---------------------------- MODULE IngestionRuns ----------------------------
(***************************************************************************)
(* Ingestion runs: the scheduler's cycle (lock, start_run, scan, discovery *)
(* of changes by fingerprint, finish_run) and the execution of its file    *)
(* runs, by the worker process and by the request threads of the API       *)
(* process (scheduler.py, scanner.py, repositories.py, worker.py, api.py,  *)
(* phase2/service.py), over files that change meanwhile.                   *)
(*                                                                         *)
(* The lock of the scheduler is an object of one process.  Across the two  *)
(* processes there is only the database, where a select is not in the same *)
(* transaction as the insert or update that depends on it: sqlite3 opens a *)
(* transaction at the first write.  Each action is one such statement or   *)
(* transaction of one thread, with the code up to the next one.            *)
(***************************************************************************)
EXTENDS Naturals

CONSTANTS
    Files,     \* paths of the files of the active sources
    Worker,    \* the thread of the worker process
    Clients,   \* request threads of the API process
    Nobody,    \* no thread
    NoItem,    \* no file run
    MaxRuns,   \* bound: rows of ingestion_runs
    MaxEdits,  \* bound: changes of each file
    MaxFaults  \* bound: stops of a process and errors no handler names

Runs == 1 .. MaxRuns
Versions == 0 .. MaxEdits
FileRuns == Runs \X Files
Procs == {Worker} \cup Clients

ASSUME ThreadsAssumption == Worker \notin Clients /\ Nobody \notin Procs
ASSUME ItemAssumption == NoItem \notin FileRuns
ASSUME RunsAssumption == MaxRuns \in Nat /\ MaxEdits \in Nat /\ MaxFaults \in Nat

VARIABLES
    disk,         \* version of each file on disk, 0 before it exists
    \* the database
    runs, last,   \* status of the rows of ingestion_runs, and their number
    fingerprint,  \* version last recorded in ingested_files, 0 without a row
    rows,         \* file_processing_runs: status, and the version that caused it
    \* the stores of the ingestion
    memory,       \* versions of each file in canonical_memories
    note,         \* version the note of each file was made from
    \* the threads
    lock,         \* holder of the scheduler's lock in each process
    pc,           \* next step
    run,          \* run of this cycle, 0 in the retry pass
    snap,         \* versions the scan found, 0 where it found none
    found,        \* fingerprint selected and still to be used
    item,         \* file run in hand
    content,      \* version of the text read for the workflow
    todo,         \* file runs left in the loop
    \* history and bounds
    owner,        \* process that started each run
    overlapped,   \* a run was started while another was running
    contended,    \* files two threads executed at the same time
    faults

stores == <<disk, memory, note>>
database == <<runs, last, fingerprint, rows>>
locals == <<run, snap, found, item, content, todo>>
history == <<owner, overlapped, contended, faults>>
vars == <<stores, database, lock, pc, locals, history>>

Processes == {"worker", "api"}
Process(p) == IF p = Worker THEN "worker" ELSE "api"

InCycle == {"insert", "scan", "discover", "upsert"}
PCs == InCycle \cup {"idle", "acquire", "list", "files", "store", "persist", "finish", "stopped"}
\* Stage and status of a file run, as far as it matters here
FileStatuses == {"none", "skipped", "queued", "running", "retry_queued", "completed", "poisoned"}

TypeOK ==
    /\ disk \in [Files -> Versions]
    /\ runs \in [Runs -> {"none", "running", "ended"}]
    /\ last \in 0 .. MaxRuns
    /\ fingerprint \in [Files -> Versions]
    /\ rows \in [FileRuns -> [status : FileStatuses, cause : Versions]]
    /\ memory \in [Files -> SUBSET Versions]
    /\ note \in [Files -> Versions]
    /\ lock \in [Processes -> Procs \cup {Nobody}]
    /\ pc \in [Procs -> PCs]
    /\ run \in [Procs -> 0 .. MaxRuns]
    /\ snap \in [Procs -> [Files -> Versions]]
    /\ found \in [Procs -> Versions]
    /\ item \in [Procs -> FileRuns \cup {NoItem}]
    /\ content \in [Procs -> Versions]
    /\ todo \in [Procs -> SUBSET FileRuns]
    /\ owner \in [Runs -> Processes]
    /\ overlapped \in BOOLEAN
    /\ contended \in SUBSET Files
    /\ faults \in Nat

NoSnap == [f \in Files |-> 0]

Init ==
    /\ disk = NoSnap
    /\ runs = [r \in Runs |-> "none"]
    /\ last = 0
    /\ fingerprint = NoSnap
    /\ rows = [x \in FileRuns |-> [status |-> "none", cause |-> 0]]
    /\ memory = [f \in Files |-> {}]
    /\ note = NoSnap
    /\ lock = [h \in Processes |-> Nobody]
    /\ pc = [p \in Procs |-> "idle"]
    /\ run = [p \in Procs |-> 0]
    /\ snap = [p \in Procs |-> NoSnap]
    /\ found = [p \in Procs |-> 0]
    /\ item = [p \in Procs |-> NoItem]
    /\ content = [p \in Procs |-> 0]
    /\ todo = [p \in Procs |-> {}]
    /\ owner = [r \in Runs |-> "worker"]
    /\ overlapped = FALSE
    /\ contended = {}
    /\ faults = 0

RunningRuns == {r \in Runs : runs[r] = "running"}
Executing(p) == pc[p] \in {"store", "persist", "finish"}
FileOf(x) == x[2]

-----------------------------------------------------------------------------
(* Control of one thread.                                                  *)

Goto(p, where) == pc' = [pc EXCEPT ![p] = where]

\* Lets go of the lock, in whichever process p is.
Release(p) ==
    lock' = [lock EXCEPT ![Process(p)] = IF @ = p THEN Nobody ELSE @]

\* The locals of the threads in S are gone.
Forget(S) ==
    /\ run' = [p \in Procs |-> IF p \in S THEN 0 ELSE run[p]]
    /\ snap' = [p \in Procs |-> IF p \in S THEN NoSnap ELSE snap[p]]
    /\ found' = [p \in Procs |-> IF p \in S THEN 0 ELSE found[p]]
    /\ item' = [p \in Procs |-> IF p \in S THEN NoItem ELSE item[p]]
    /\ content' = [p \in Procs |-> IF p \in S THEN 0 ELSE content[p]]
    /\ todo' = [p \in Procs |-> IF p \in S THEN {} ELSE todo[p]]

\* An exception leaves the operation.  The finally clause of run_cycle releases
\* the lock and nothing ends the run.  The worker's loop has no handler: its
\* process ends.  A request is answered with an error.
Unwind(p) ==
    /\ Release(p)
    /\ Forget({p})
    /\ Goto(p, IF p = Worker THEN "stopped" ELSE "idle")

-----------------------------------------------------------------------------
(* CronIngestionScheduler.run_cycle.                                       *)

\* POST /jobs/scan
TriggerScan(p) ==
    /\ p \in Clients /\ pc[p] = "idle"
    /\ Goto(p, "acquire")
    /\ UNCHANGED <<stores, database, lock, locals, history>>

\* Mutant: run_cycle() does not look whether it got the lock
MutantStartRun(p) ==
    /\ pc[p] = "acquire"
    /\ RunningRuns = {}
    /\ lock' = [lock EXCEPT ![Process(p)] = p]
    /\ Goto(p, "insert")
    /\ UNCHANGED <<stores, database, locals, history>>

\* The lock is free and start_run() selects no running run
StartRun(p) ==
    /\ pc[p] = "acquire"
    /\ lock[Process(p)] = Nobody
    /\ RunningRuns = {}
    /\ lock' = [lock EXCEPT ![Process(p)] = p]
    /\ Goto(p, "insert")
    /\ UNCHANGED <<stores, database, locals, history>>

\* ... otherwise either of them raises
Refused(p) ==
    /\ pc[p] = "acquire"
    /\ lock[Process(p)] # Nobody \/ RunningRuns # {}
    /\ Unwind(p)
    /\ UNCHANGED <<stores, database, history>>

\* Mutant: start_run() returns the id of the next row
MutantInsertRun(p) ==
    /\ pc[p] = "insert"
    /\ last < MaxRuns
    /\ last' = last + 1
    /\ runs' = [runs EXCEPT ![last + 1] = "running"]
    /\ owner' = [owner EXCEPT ![last + 1] = Process(p)]
    /\ overlapped' = (overlapped \/ RunningRuns # {})
    /\ run' = [run EXCEPT ![p] = last + 2]
    /\ Goto(p, "scan")
    /\ UNCHANGED <<stores, fingerprint, rows, lock, snap, found, item, content, todo,
                   contended, faults>>

\* start_run() inserts
InsertRun(p) ==
    /\ pc[p] = "insert"
    /\ last < MaxRuns
    /\ last' = last + 1
    /\ runs' = [runs EXCEPT ![last + 1] = "running"]
    /\ owner' = [owner EXCEPT ![last + 1] = Process(p)]
    /\ overlapped' = (overlapped \/ RunningRuns # {})
    /\ run' = [run EXCEPT ![p] = last + 1]
    /\ Goto(p, "scan")
    /\ UNCHANGED <<stores, fingerprint, rows, lock, snap, found, item, content, todo,
                   contended, faults>>

\* scan_source(), for the sources that are active, exist and come before the
\* deadline and a stop request; a file that cannot be read is an error
Scan(p) ==
    /\ pc[p] = "scan"
    /\ \E S \in SUBSET {f \in Files : disk[f] # 0} :
         snap' = [snap EXCEPT ![p] = [f \in Files |-> IF f \in S THEN disk[f] ELSE 0]]
    /\ Goto(p, "discover")
    /\ UNCHANGED <<stores, database, lock, run, found, item, content, todo, history>>

\* upsert_file_discovery() selects the fingerprint of the next snapshot
FindFile(p) ==
    /\ pc[p] = "discover"
    /\ \E f \in Files :
         /\ snap[p][f] # 0
         /\ item' = [item EXCEPT ![p] = <<run[p], f>>]
         /\ found' = [found EXCEPT ![p] = fingerprint[f]]
    /\ Goto(p, "upsert")
    /\ UNCHANGED <<stores, database, lock, run, snap, content, todo, history>>

\* ... and goes on with the next snapshot after its transaction
Upserted(p) ==
    /\ snap' = [snap EXCEPT ![p][FileOf(item[p])] = 0]
    /\ found' = [found EXCEPT ![p] = 0]
    /\ item' = [item EXCEPT ![p] = NoItem]
    /\ Goto(p, "discover")
    /\ UNCHANGED <<stores, runs, last, lock, run, content, todo, history>>

\* Mutant: the fingerprint is stored, the file run is left to another transaction
MutantQueueFile(p) ==
    LET f == FileOf(item[p]) IN
    /\ pc[p] = "upsert"
    /\ found[p] # snap[p][f]
    /\ found[p] # 0 \/ fingerprint[f] = 0
    /\ fingerprint' = [fingerprint EXCEPT ![f] = snap[p][f]]
    /\ rows' = rows
    /\ Upserted(p)

\* Mutant: the file run is queued, the fingerprint is left to a later step
MutantQueueOnly(p) ==
    LET f == FileOf(item[p]) IN
    /\ pc[p] = "upsert"
    /\ found[p] # snap[p][f]
    /\ found[p] # 0 \/ fingerprint[f] = 0
    /\ fingerprint' = fingerprint
    /\ rows' = [rows EXCEPT ![item[p]] = [status |-> "queued", cause |-> snap[p][f]]]
    /\ Upserted(p)

\* A new file, whose row nobody inserted since the select, or a changed one: the
\* fingerprint is stored, whatever it is by now, and a file run is queued
QueueFile(p) ==
    LET f == FileOf(item[p]) IN
    /\ pc[p] = "upsert"
    /\ found[p] # snap[p][f]
    /\ found[p] # 0 \/ fingerprint[f] = 0
    /\ fingerprint' = [fingerprint EXCEPT ![f] = snap[p][f]]
    /\ rows' = [rows EXCEPT ![item[p]] = [status |-> "queued", cause |-> snap[p][f]]]
    /\ Upserted(p)

\* An unchanged file
SkipFile(p) ==
    LET f == FileOf(item[p]) IN
    /\ pc[p] = "upsert"
    /\ found[p] = snap[p][f]
    /\ rows' = [rows EXCEPT ![item[p]] = [status |-> "skipped", cause |-> snap[p][f]]]
    /\ fingerprint' = fingerprint
    /\ Upserted(p)

\* A new file that the other process has inserted since the select: the insert
\* breaks UNIQUE(source_id, path)
Collide(p) ==
    /\ pc[p] = "upsert"
    /\ found[p] = 0 /\ fingerprint[FileOf(item[p])] # 0
    /\ Unwind(p)
    /\ UNCHANGED <<stores, database, history>>

\* Mutant: finish_run() updates only runs without scan errors
MutantFinishRun(p) ==
    /\ pc[p] = "discover"
    /\ snap[p] = NoSnap
    /\ runs' \in {runs, [runs EXCEPT ![run[p]] = "ended"]}
    /\ Release(p)
    /\ Goto(p, "list")
    /\ UNCHANGED <<stores, last, fingerprint, rows, locals, history>>

\* finish_run(), completed or failed, and the finally clause
FinishRun(p) ==
    /\ pc[p] = "discover"
    /\ snap[p] = NoSnap
    /\ runs' = [runs EXCEPT ![run[p]] = "ended"]
    /\ Release(p)
    /\ Goto(p, "list")
    /\ UNCHANGED <<stores, last, fingerprint, rows, locals, history>>

-----------------------------------------------------------------------------
(* The execution of file runs, after the lock is released.                 *)

\* The worker's cycle begins with the retries that are due
BeginCycle(p) ==
    /\ p = Worker /\ pc[p] = "idle"
    /\ \E due \in SUBSET {x \in FileRuns : rows[x].status = "retry_queued"} :
         todo' = [todo EXCEPT ![p] = due]
    /\ Goto(p, "files")
    /\ UNCHANGED <<stores, database, lock, run, snap, found, item, content, history>>

\* execute_for_run() lists the queued file runs of its own run
ListRun(p) ==
    /\ pc[p] = "list"
    /\ todo' = [todo EXCEPT ![p] = {x \in FileRuns : x[1] = run[p] /\ rows[x].status = "queued"}]
    /\ Goto(p, "files")
    /\ UNCHANGED <<stores, database, lock, run, snap, found, item, content, history>>

\* Mutant: the text of the scan is used, not the text at execution
MutantReadFile(p) ==
    /\ pc[p] = "files"
    /\ \E x \in todo[p] :
         /\ item' = [item EXCEPT ![p] = x]
         /\ todo' = [todo EXCEPT ![p] = @ \ {x}]
         /\ rows' = [rows EXCEPT ![x].status = "running"]
         /\ content' = [content EXCEPT ![p] = rows[x].cause]
         /\ contended' = IF \E q \in Procs : Executing(q) /\ FileOf(item[q]) = FileOf(x)
                         THEN contended \cup {FileOf(x)} ELSE contended
    /\ Goto(p, "store")
    /\ UNCHANGED <<stores, runs, last, fingerprint, lock, run, snap, found,
                   owner, overlapped, faults>>

\* workflow_started, then the file is read
ReadFile(p) ==
    /\ pc[p] = "files"
    /\ \E x \in todo[p] :
         /\ item' = [item EXCEPT ![p] = x]
         /\ todo' = [todo EXCEPT ![p] = @ \ {x}]
         /\ rows' = [rows EXCEPT ![x].status = "running"]
         /\ content' = [content EXCEPT ![p] = disk[FileOf(x)]]
         /\ contended' = IF \E q \in Procs : Executing(q) /\ FileOf(item[q]) = FileOf(x)
                         THEN contended \cup {FileOf(x)} ELSE contended
    /\ Goto(p, "store")
    /\ UNCHANGED <<stores, runs, last, fingerprint, lock, run, snap, found,
                   owner, overlapped, faults>>

\* write_summary() overwrites the note
WriteSummary(p) ==
    /\ pc[p] = "store"
    /\ note' = [note EXCEPT ![FileOf(item[p])] = content[p]]
    /\ Goto(p, "persist")
    /\ UNCHANGED <<disk, memory, database, lock, locals, history>>

\* Mutant: a memory that is there already is kept, whatever its content
MutantPersistMemory(p) ==
    LET f == FileOf(item[p]) IN
    /\ pc[p] = "persist"
    /\ memory' = IF memory[f] = {} THEN [memory EXCEPT ![f] = {content[p]}] ELSE memory
    /\ Goto(p, "finish")
    /\ UNCHANGED <<disk, note, database, lock, locals, history>>

\* persist_memory(), a row per content
PersistMemory(p) ==
    /\ pc[p] = "persist"
    /\ memory' = [memory EXCEPT ![FileOf(item[p])] = @ \cup {content[p]}]
    /\ Goto(p, "finish")
    /\ UNCHANGED <<disk, note, database, lock, locals, history>>

\* The file run in hand is through with status s
Settle(p, s) ==
    /\ rows' = [rows EXCEPT ![item[p]].status = s]
    /\ item' = [item EXCEPT ![p] = NoItem]
    /\ content' = [content EXCEPT ![p] = 0]
    /\ Goto(p, "files")
    /\ UNCHANGED <<stores, runs, last, fingerprint, lock, run, snap, found, todo, history>>

Complete(p) == pc[p] = "finish" /\ Settle(p, "completed")

\* Reading, the workflow, a store or a telemetry call failed, for now or for good
Fail(p) == Executing(p) /\ (Settle(p, "retry_queued") \/ Settle(p, "poisoned"))

\* The retry pass leads to the cycle; after its run the worker sleeps, and a
\* request is answered
EndFiles(p) ==
    /\ pc[p] = "files" /\ todo[p] = {}
    /\ Goto(p, IF p = Worker /\ run[p] = 0 THEN "acquire" ELSE "idle")
    /\ Forget({p})
    /\ UNCHANGED <<stores, database, lock, history>>

-----------------------------------------------------------------------------
(* The environment.                                                        *)

Edit(f) ==
    /\ disk[f] < MaxEdits
    /\ disk' = [disk EXCEPT ![f] = @ + 1]
    /\ UNCHANGED <<memory, note, database, lock, pc, locals, history>>

\* An error no handler of run_cycle or of the execution names; for the worker
\* also the end of its process
Raise(p) ==
    /\ pc[p] \notin {"idle", "stopped"} /\ faults < MaxFaults
    /\ faults' = faults + 1
    /\ Unwind(p)
    /\ UNCHANGED <<stores, database, owner, overlapped, contended>>

\* The API process ends and is started again
ApiStops ==
    /\ \E p \in Clients : pc[p] # "idle"
    /\ faults < MaxFaults
    /\ faults' = faults + 1
    /\ lock' = [lock EXCEPT !["api"] = Nobody]
    /\ Forget(Clients)
    /\ pc' = [p \in Procs |-> IF p \in Clients THEN "idle" ELSE pc[p]]
    /\ UNCHANGED <<stores, database, owner, overlapped, contended>>

Restart ==
    /\ pc[Worker] = "stopped"
    /\ Goto(Worker, "idle")
    /\ UNCHANGED <<stores, database, lock, locals, history>>

-----------------------------------------------------------------------------
Cycle(p) ==
    \/ StartRun(p) \/ Refused(p) \/ InsertRun(p) \/ Scan(p)
    \/ FindFile(p) \/ QueueFile(p) \/ SkipFile(p) \/ Collide(p) \/ FinishRun(p)
Execution(p) ==
    \/ ListRun(p) \/ ReadFile(p) \/ WriteSummary(p) \/ PersistMemory(p)
    \/ Complete(p) \/ Fail(p) \/ EndFiles(p)

Next ==
    \/ \E p \in Procs : TriggerScan(p) \/ BeginCycle(p) \/ Cycle(p) \/ Execution(p) \/ Raise(p)
    \/ \E f \in Files : Edit(f)
    \/ ApiStops \/ Restart

Spec == Init /\ [][Next]_vars

\* A worker that is always started again, and threads that go on
RestartedSpec ==
    /\ Spec
    /\ \A p \in Procs : WF_vars(BeginCycle(p) \/ Cycle(p) \/ Execution(p))
    /\ WF_vars(Restart)

-----------------------------------------------------------------------------
(* Properties.                                                             *)

\* No process has two of its runs running, whatever its threads do and however
\* often it stops: the lock keeps its threads apart, and a run that a stop left
\* running keeps it from starting another.
OneRunPerProcess ==
    \A r, s \in RunningRuns : owner[r] = owner[s] => r = s

\* A run is running only while a thread is in its cycle, as long as nothing
\* stopped and no run was started beside another.
NoOrphanedRun ==
    faults = 0 /\ ~overlapped =>
        \A r \in RunningRuns : \E p \in Procs : run[p] = r /\ pc[p] \in InCycle

Ingests(x) == rows[x].status \notin {"none", "skipped"}

\* A fingerprint that makes later scans skip a version has a file run that was
\* queued for that version, even if processes stop: a change is never recorded
\* as seen without being queued.
SeenIsQueued ==
    \A f \in Files : fingerprint[f] # 0 =>
        \E x \in FileRuns : FileOf(x) = f /\ Ingests(x) /\ rows[x].cause = fingerprint[f]

\* A file run is completed only when the memory of its file is at least as new
\* as the change it was queued for, although the file is read long after it was
\* scanned and other runs may execute the same file.
CompletedIsCurrent ==
    \A x \in FileRuns : rows[x].status = "completed" =>
        \E v \in memory[FileOf(x)] : v >= rows[x].cause

\* While start_run() keeps runs apart, a change is queued by one run only, by
\* whichever process and across stops of either.
ChangeQueuedOnce ==
    ~overlapped =>
        \A x, y \in FileRuns :
            FileOf(x) = FileOf(y) /\ Ingests(x) /\ Ingests(y) /\ rows[x].cause = rows[y].cause
            => x = y

\* The note of a file never goes back to an older version, unless two
\* threads executed file runs of that file at the same time.
NoteNeverGoesBack ==
    [][\A f \in Files : note'[f] < note[f] => f \in contended]_vars

\* src/plan/PHASE_1_TODO.md:29: "Add overlap lock to prevent concurrent ingestion
\* runs."
OneRunAtATime == \A r, s \in RunningRuns : r = s

\* src/plan/PHASE_1_TODO.md:28: "Implement scheduler loop with configurable cadence
\* (5-10 minutes)."  However often the worker is started again, there is a time
\* again at which start_run() would accept a cycle.
ScheduleGoesOn == []<>(RunningRuns = {})
=============================================================================
