------------------------- MODULE IngestionRunsProofs -------------------------
(***************************************************************************)
(* Theorems about IngestionRuns, for every set of files and of request     *)
(* threads, and any number of runs, edits and faults: first what holds     *)
(* whatever overlaps, then what the absence of overlaps adds.              *)
(***************************************************************************)
EXTENDS IngestionRuns, TLAPS

Scanning == {"scan", "discover", "upsert"}

\* What the position of a thread says of its locals
Control ==
    \A p \in Procs :
        /\ pc[p] \in Scanning \cup {"list"} => run[p] \in Runs
        /\ pc[p] \in {"upsert", "store", "persist", "finish"} => item[p] \in FileRuns

\* The lock of a process is held by its thread that is in a cycle, and a thread
\* that is about to insert a run has seen that its process has none running
Exclusive ==
    /\ \A p \in Procs : pc[p] \in InCycle <=> lock[Process(p)] = p
    /\ \A p \in Procs : pc[p] = "insert" => \A r \in RunningRuns : owner[r] # Process(p)
    /\ OneRunPerProcess

\* A scanning thread has a run, in which the files it has yet to record have no
\* file run; what its loop and its execution refer to was queued
Recording(p) ==
    /\ pc[p] \in Scanning => run[p] <= last
    /\ \A f \in Files :
         pc[p] = "scan" \/ (pc[p] \in Scanning /\ snap[p][f] # 0)
         => rows[<<run[p], f>>].status = "none"
    /\ pc[p] = "upsert" => item[p][1] = run[p] /\ snap[p][FileOf(item[p])] # 0
    /\ \A x \in todo[p] : Ingests(x)
    /\ Executing(p) => Ingests(item[p])

\* ... and the run of each is its own
Unrecorded ==
    /\ \A x \in FileRuns : x[1] > last => rows[x].status = "none"
    /\ \A p, q \in Procs :
         pc[p] \in Scanning /\ pc[q] \in Scanning /\ run[p] = run[q] => p = q
    /\ \A p \in Procs : Recording(p)

\* What a thread has scanned is not newer than the file, and what it has read is at
\* least as new as the change it executes
Reading(p) ==
    /\ \A f \in Files : snap[p][f] <= disk[f]
    /\ pc[p] \in {"store", "persist"} => content[p] >= rows[item[p]].cause
    /\ pc[p] = "finish" => \E v \in memory[FileOf(item[p])] : v >= rows[item[p]].cause

Current ==
    /\ \A x \in FileRuns : rows[x].cause <= disk[FileOf(x)]
    /\ \A p \in Procs : Reading(p)
    /\ CompletedIsCurrent

IInv ==
    /\ TypeOK
    /\ Control
    /\ Exclusive
    /\ Unrecorded
    /\ Current
    /\ SeenIsQueued

-----------------------------------------------------------------------------
(* Types and control.                                                      *)

LEMMA InitInv == Init => IInv
<1> SUFFICES ASSUME Init PROVE IInv
  OBVIOUS
<1> USE RunsAssumption DEF Init
<1>1. 0 \in Versions /\ 0 \in 0 .. MaxRuns /\ NoSnap \in [Files -> Versions]
  BY DEF Versions, NoSnap
<1>2. TypeOK
  BY <1>1 DEF TypeOK, PCs, FileStatuses, Processes
<1>3. Control
  BY DEF Control, Scanning
<1>4. Exclusive
  BY ThreadsAssumption DEF Exclusive, InCycle, OneRunPerProcess, RunningRuns, Process, Processes
<1>5. Unrecorded
  BY DEF Unrecorded, Recording, Scanning, Executing
<1>6. Current
  BY <1>1 DEF Current, Reading, CompletedIsCurrent, NoSnap, FileRuns, FileOf
<1>7. SeenIsQueued
  BY DEF SeenIsQueued, NoSnap
<1> QED
  BY <1>2, <1>3, <1>4, <1>5, <1>6, <1>7 DEF IInv

LEMMA ProcessType == \A p \in Procs : Process(p) \in Processes
BY DEF Process, Processes

LEMMA ForgetTypes ==
    ASSUME TypeOK, NEW S, Forget(S)
    PROVE  /\ run' \in [Procs -> 0 .. MaxRuns] /\ snap' \in [Procs -> [Files -> Versions]]
           /\ found' \in [Procs -> Versions] /\ item' \in [Procs -> FileRuns \cup {NoItem}]
           /\ content' \in [Procs -> Versions] /\ todo' \in [Procs -> SUBSET FileRuns]
<1>1. 0 \in 0 .. MaxRuns /\ 0 \in Versions /\ NoSnap \in [Files -> Versions]
  BY RunsAssumption DEF Versions, NoSnap
<1> QED
  BY <1>1 DEF TypeOK, Forget

LEMMA UnwindTypes ==
    ASSUME TypeOK, Control, NEW p \in Procs, Unwind(p),
           UNCHANGED <<stores, database, owner, overlapped, contended>>, faults' \in Nat
    PROVE  TypeOK' /\ Control'
<1>1. TypeOK'
  BY ForgetTypes DEF TypeOK, Unwind, Release, Goto, PCs, stores, database
<1>2. Control'
  BY DEF TypeOK, Control, Unwind, Release, Goto, Forget, Scanning
<1> QED
  BY <1>1, <1>2

LEMMA CycleTypes ==
    ASSUME TypeOK, Control, NEW p \in Procs, Cycle(p)
    PROVE  TypeOK' /\ Control'
<1> USE RunsAssumption, ProcessType
    DEF TypeOK, Control, Goto, stores, database, locals, history, PCs, InCycle, Scanning
<1>1. CASE StartRun(p)
  BY <1>1 DEF StartRun
<1>2. CASE Refused(p)
  BY <1>2, UnwindTypes DEF Refused
<1>3. CASE InsertRun(p)
  <2>1. last + 1 \in Runs /\ last + 1 \in 0 .. MaxRuns
    BY <1>3 DEF InsertRun, Runs
  <2> QED
    BY <1>3, <2>1 DEF InsertRun
<1>4. CASE Scan(p)
  <2>1. snap' \in [Procs -> [Files -> Versions]]
    BY <1>4 DEF Scan, Versions
  <2> QED
    BY <1>4, <2>1 DEF Scan
<1>5. CASE FindFile(p)
  BY <1>5 DEF FindFile, FileRuns
<1>6. CASE QueueFile(p) \/ SkipFile(p)
  <2>1. item[p] \in FileRuns /\ FileOf(item[p]) \in Files
    BY <1>6 DEF QueueFile, SkipFile, FileRuns, FileOf
  <2>2. snap[p][FileOf(item[p])] \in Versions /\ 0 \in Versions
    BY <2>1 DEF Versions
  <2>3. Upserted(p) /\ pc[p] = "upsert"
    BY <1>6 DEF QueueFile, SkipFile
  <2>4. fingerprint' \in [Files -> Versions]
    BY <1>6, <2>1, <2>2 DEF QueueFile, SkipFile
  <2>5. rows' \in [FileRuns -> [status : FileStatuses, cause : Versions]]
    BY <1>6, <2>1, <2>2 DEF QueueFile, SkipFile, FileStatuses
  <2> QED
    BY <2>1, <2>2, <2>3, <2>4, <2>5 DEF Upserted
<1>7. CASE Collide(p)
  BY <1>7, UnwindTypes DEF Collide
<1>8. CASE FinishRun(p)
  BY <1>8 DEF FinishRun, Release
<1> QED
  BY <1>1, <1>2, <1>3, <1>4, <1>5, <1>6, <1>7, <1>8 DEF Cycle

LEMMA EndFilesTypes ==
    ASSUME TypeOK, Control, NEW p \in Procs, EndFiles(p)
    PROVE  TypeOK' /\ Control'
<1>1. pc' \in [Procs -> PCs]
  BY DEF EndFiles, TypeOK, Goto, PCs
<1>2. TypeOK'
  BY <1>1, ForgetTypes DEF EndFiles, TypeOK, stores, database, history
<1>3. Control'
  BY DEF EndFiles, Forget, TypeOK, Control, Goto, Scanning
<1> QED
  BY <1>2, <1>3

LEMMA StatusTypes ==
    ASSUME NEW x, NEW s \in FileStatuses,
           rows \in [FileRuns -> [status : FileStatuses, cause : Versions]],
           rows' = [rows EXCEPT ![x].status = s]
    PROVE  rows' \in [FileRuns -> [status : FileStatuses, cause : Versions]]
OBVIOUS

LEMMA ExecutionTypes ==
    ASSUME TypeOK, Control, NEW p \in Procs, Execution(p)
    PROVE  TypeOK' /\ Control'
<1> USE RunsAssumption DEF TypeOK, Control, Goto, stores, database, locals, history, PCs, InCycle, Scanning
<1>1. CASE ListRun(p)
  BY <1>1 DEF ListRun
<1>2. CASE ReadFile(p)
  <2>1. PICK x \in todo[p] :
          /\ item' = [item EXCEPT ![p] = x]
          /\ todo' = [todo EXCEPT ![p] = @ \ {x}]
          /\ rows' = [rows EXCEPT ![x].status = "running"]
          /\ content' = [content EXCEPT ![p] = disk[FileOf(x)]]
          /\ contended' \in {contended, contended \cup {FileOf(x)}}
    BY <1>2 DEF ReadFile
  <2>2. x \in FileRuns /\ FileOf(x) \in Files
    BY DEF FileRuns, FileOf
  <2>3. rows' \in [FileRuns -> [status : FileStatuses, cause : Versions]]
    BY <2>1, <2>2, StatusTypes DEF FileStatuses
  <2> QED
    BY <1>2, <2>1, <2>2, <2>3 DEF ReadFile
<1>3. CASE WriteSummary(p) \/ PersistMemory(p)
  <2>1. FileOf(item[p]) \in Files
    BY <1>3 DEF WriteSummary, PersistMemory, FileRuns, FileOf
  <2>2. CASE WriteSummary(p)
    BY <2>1, <2>2 DEF WriteSummary
  <2>3. CASE PersistMemory(p)
    BY <2>1, <2>3 DEF PersistMemory
  <2> QED
    BY <1>3, <2>2, <2>3
<1>4. ASSUME NEW s \in FileStatuses, Settle(p, s)
      PROVE  TypeOK' /\ Control'
  <2>1. rows' \in [FileRuns -> [status : FileStatuses, cause : Versions]]
    BY <1>4, StatusTypes DEF Settle
  <2>2. 0 \in Versions
    BY DEF Versions
  <2> QED
    BY <1>4, <2>1, <2>2 DEF Settle
<1>5. CASE Complete(p) \/ Fail(p)
  BY <1>4, <1>5 DEF Complete, Fail, FileStatuses
<1>6. CASE EndFiles(p)
  BY <1>6, EndFilesTypes
<1> QED
  BY <1>1, <1>2, <1>3, <1>5, <1>6 DEF Execution

LEMMA NextTypes == TypeOK /\ Control /\ [Next]_vars => TypeOK' /\ Control'
<1> SUFFICES ASSUME TypeOK, Control, [Next]_vars
             PROVE  TypeOK' /\ Control'
  OBVIOUS
<1>1. ASSUME NEW p \in Procs, TriggerScan(p) \/ BeginCycle(p)
      PROVE  TypeOK' /\ Control'
  <2> USE DEF TypeOK, Control, Goto, stores, database, locals, history, PCs, Scanning
  <2>1. CASE TriggerScan(p)
    BY <2>1 DEF TriggerScan
  <2>2. CASE BeginCycle(p)
    <3>1. todo' \in [Procs -> SUBSET FileRuns]
      BY <2>2 DEF BeginCycle
    <3> QED
      BY <2>2, <3>1 DEF BeginCycle
  <2> QED
    BY <1>1, <2>1, <2>2
<1>2. ASSUME NEW p \in Procs, Raise(p)
      PROVE  TypeOK' /\ Control'
  <2>1. faults' \in Nat
    BY <1>2 DEF Raise, TypeOK
  <2> QED
    BY <1>2, <2>1, UnwindTypes DEF Raise
<1>3. ASSUME NEW f \in Files, Edit(f)
      PROVE  TypeOK' /\ Control'
  <2>1. disk' \in [Files -> Versions]
    BY <1>3, RunsAssumption DEF Edit, TypeOK, Versions
  <2> QED
    BY <1>3, <2>1 DEF Edit, TypeOK, Control, database, locals, history, Scanning
<1>4. CASE ApiStops
  <2>1. TypeOK'
    BY <1>4, ForgetTypes DEF ApiStops, TypeOK, PCs, stores, database, Processes
  <2>2. Control'
    BY <1>4 DEF ApiStops, Forget, TypeOK, Control, Scanning
  <2> QED
    BY <2>1, <2>2
<1>5. CASE Restart
  BY <1>5 DEF Restart, TypeOK, Control, Goto, stores, database, locals, history, PCs, Scanning, Procs
<1>6. CASE UNCHANGED vars
  BY <1>6 DEF vars, TypeOK, Control, stores, database, locals, history, Scanning
<1> QED
  BY <1>1, <1>2, <1>3, <1>4, <1>5, <1>6, CycleTypes, ExecutionTypes DEF Next

-----------------------------------------------------------------------------
(* One run per process.                                                    *)

\* A step in which nobody enters or leaves a cycle and no run starts
LEMMA StaysExclusive ==
    ASSUME Exclusive, lock' = lock, runs' = runs, owner' = owner,
           \A q \in Procs : /\ pc'[q] \in InCycle <=> pc[q] \in InCycle
                            /\ pc'[q] = "insert" => pc[q] = "insert"
    PROVE  Exclusive'
BY DEF Exclusive, OneRunPerProcess, RunningRuns

\* A step in which p leaves its cycle, if it is in one, with or without its run
LEMMA LeavesExclusive ==
    ASSUME TypeOK, Exclusive, NEW p \in Procs, Release(p), pc'[p] \notin InCycle,
           \A q \in Procs \ {p} : pc'[q] = pc[q],
           RunningRuns' \subseteq RunningRuns, owner' = owner
    PROVE  Exclusive'
<1>1. \A q \in Procs : pc'[q] \in InCycle <=> lock'[Process(q)] = q
  BY ThreadsAssumption, ProcessType DEF TypeOK, Exclusive, Release
<1>2. pc'[p] # "insert"
  BY DEF InCycle
<1> QED
  BY <1>1, <1>2 DEF Exclusive, OneRunPerProcess, RunningRuns

LEMMA StartExclusive ==
    ASSUME TypeOK, Exclusive, NEW p \in Procs, StartRun(p)
    PROVE  Exclusive'
<1>1. \A q \in Procs : pc'[q] \in InCycle <=> lock'[Process(q)] = q
  <2>1. pc[p] \notin InCycle /\ pc'[p] \in InCycle
    BY DEF StartRun, TypeOK, Goto, InCycle
  <2>2. \A q \in Procs \ {p} : Process(q) = Process(p) => pc[q] \notin InCycle
    BY ThreadsAssumption DEF StartRun, Exclusive
  <2> QED
    BY <2>1, <2>2, ProcessType DEF StartRun, TypeOK, Exclusive, Goto
<1>2. RunningRuns' = {} /\ runs' = runs /\ owner' = owner
  BY DEF StartRun, database, history, RunningRuns
<1> QED
  BY <1>1, <1>2 DEF Exclusive, OneRunPerProcess, RunningRuns

LEMMA InsertExclusive ==
    ASSUME TypeOK, Exclusive, NEW p \in Procs, InsertRun(p)
    PROVE  Exclusive'
<1>1. \A q \in Procs : pc'[q] \in InCycle <=> lock'[Process(q)] = q
  BY DEF InsertRun, TypeOK, Exclusive, Goto, InCycle
<1>2. /\ \A r \in RunningRuns' \ {last + 1} : r \in RunningRuns /\ owner'[r] = owner[r]
      /\ last + 1 \in Runs => owner'[last + 1] = Process(p)
  BY DEF InsertRun, TypeOK, RunningRuns
<1>3. ASSUME NEW q \in Procs, pc'[q] = "insert", NEW r \in RunningRuns'
      PROVE  owner'[r] # Process(q)
  <2>1. q # p /\ pc[q] = "insert"
    BY <1>3 DEF InsertRun, TypeOK, Goto
  <2>2. Process(q) # Process(p)
    BY <2>1 DEF InsertRun, Exclusive, InCycle
  <2> QED
    BY <1>2, <2>1, <2>2 DEF Exclusive, RunningRuns
<1>4. OneRunPerProcess'
  <2>1. \A r \in RunningRuns : owner[r] # Process(p)
    BY DEF InsertRun, Exclusive
  <2> QED
    BY <1>2, <2>1 DEF OneRunPerProcess, Exclusive, RunningRuns
<1> QED
  BY <1>1, <1>3, <1>4 DEF Exclusive

LEMMA NextExclusive == TypeOK /\ Exclusive /\ [Next]_vars => Exclusive'
<1> SUFFICES ASSUME TypeOK, Exclusive, [Next]_vars
             PROVE  Exclusive'
  OBVIOUS
<1>1. ASSUME NEW p \in Procs, Unwind(p), runs' = runs, owner' = owner
      PROVE  Exclusive'
  BY <1>1, LeavesExclusive DEF Unwind, Goto, TypeOK, InCycle, RunningRuns
<1>2. ASSUME NEW p \in Procs, Cycle(p)
      PROVE  Exclusive'
  <2>1. CASE Refused(p) \/ Collide(p)
    BY <1>1, <2>1 DEF Refused, Collide, database, history
  <2>2. CASE FinishRun(p)
    <3>1. RunningRuns' \subseteq RunningRuns
      BY <2>2 DEF FinishRun, TypeOK, RunningRuns
    <3> QED
      BY <2>2, <3>1, LeavesExclusive DEF FinishRun, Goto, TypeOK, InCycle, history
  <2>3. CASE Scan(p) \/ FindFile(p) \/ QueueFile(p) \/ SkipFile(p)
    <3>1. lock' = lock /\ runs' = runs /\ owner' = owner
      BY <2>3 DEF Scan, FindFile, QueueFile, SkipFile, Upserted, database, history
    <3>2. \E w \in {"discover", "upsert"} : Goto(p, w)
      BY <2>3 DEF Scan, FindFile, QueueFile, SkipFile, Upserted
    <3>3. pc[p] \in {"scan", "discover", "upsert"}
      BY <2>3 DEF Scan, FindFile, QueueFile, SkipFile
    <3> QED
      BY <3>1, <3>2, <3>3, StaysExclusive DEF Goto, TypeOK, InCycle
  <2> QED
    BY <1>2, <2>1, <2>2, <2>3, StartExclusive, InsertExclusive DEF Cycle
<1>3. ASSUME NEW p \in Procs, TriggerScan(p) \/ BeginCycle(p) \/ Execution(p)
      PROVE  Exclusive'
  <2>1. lock' = lock /\ runs' = runs /\ owner' = owner
    BY <1>3 DEF TriggerScan, BeginCycle, Execution, ListRun, ReadFile, WriteSummary,
                PersistMemory, Complete, Fail, Settle, EndFiles, database, history
  <2>2. \E w \in PCs \ InCycle : Goto(p, w)
    BY <1>3 DEF TriggerScan, BeginCycle, Execution, ListRun, ReadFile, WriteSummary,
                PersistMemory, Complete, Fail, Settle, EndFiles, PCs, InCycle
  <2>3. pc[p] \notin InCycle
    BY <1>3 DEF TriggerScan, BeginCycle, Execution, ListRun, ReadFile, WriteSummary,
                PersistMemory, Complete, Fail, Executing, EndFiles, InCycle
  <2> QED
    BY <2>1, <2>2, <2>3, StaysExclusive DEF Goto, TypeOK, InCycle
<1>4. ASSUME NEW p \in Procs, Raise(p)
      PROVE  Exclusive'
  BY <1>1, <1>4 DEF Raise, database
<1>5. CASE ApiStops
  <2>1. \A q \in Clients : pc'[q] \notin InCycle /\ Process(q) = "api" /\ q \in Procs
    BY <1>5, ThreadsAssumption DEF ApiStops, InCycle, Process, Procs
  <2>2. pc'[Worker] = pc[Worker] /\ Process(Worker) = "worker" /\ Worker \in Procs
    BY <1>5, ThreadsAssumption DEF ApiStops, Process, Procs
  <2>3. lock'["worker"] = lock["worker"] /\ lock'["api"] = Nobody
    BY <1>5 DEF ApiStops, TypeOK, Processes
  <2>4. \A q \in Procs : q = Worker \/ q \in Clients
    BY DEF Procs
  <2>5. \A q \in Procs : pc'[q] \in InCycle <=> lock'[Process(q)] = q
    BY <2>1, <2>2, <2>3, <2>4, ThreadsAssumption DEF Exclusive
  <2>6. \A q \in Procs : pc'[q] = "insert" => pc[q] = "insert"
    BY <2>1, <2>2, <2>4 DEF InCycle
  <2>7. runs' = runs /\ owner' = owner
    BY <1>5 DEF ApiStops, database
  <2> QED
    BY <2>5, <2>6, <2>7 DEF Exclusive, OneRunPerProcess, RunningRuns
<1>6. CASE Restart \/ (\E f \in Files : Edit(f)) \/ UNCHANGED vars
  BY <1>6, StaysExclusive
     DEF Restart, Edit, vars, database, history, Goto, TypeOK, InCycle
<1> QED
  BY <1>2, <1>3, <1>4, <1>5, <1>6 DEF Next

-----------------------------------------------------------------------------
(* File runs and the versions behind them.                                 *)

Data == Unrecorded /\ Current /\ SeenIsQueued

LEMMA FileRunParts == \A x \in FileRuns : x[1] \in Runs /\ FileOf(x) \in Files
BY DEF FileRuns, FileOf

\* Threads other than p keep their locals.
Others(p) ==
    \A q \in Procs \ {p} :
        /\ pc'[q] = pc[q] /\ run'[q] = run[q] /\ snap'[q] = snap[q]
        /\ item'[q] = item[q] /\ content'[q] = content[q] /\ todo'[q] = todo[q]

\* What was queued stays what it was, new file runs belong to the run of p.
RowsGrow(p) ==
    \A x \in FileRuns :
        /\ Ingests(x) => Ingests(x)' /\ rows'[x].cause = rows[x].cause
        /\ rows[x].status = "none" =>
             rows'[x].status = "none" \/ (pc[p] \in Scanning /\ x[1] = run[p])

StoresGrow == \A f \in Files : disk'[f] >= disk[f] /\ memory[f] \subseteq memory'[f]

LEMMA OthersKeep ==
    ASSUME TypeOK, TypeOK', Control, Data, NEW p \in Procs, Others(p), RowsGrow(p),
           StoresGrow, last' >= last, NEW q \in Procs \ {p}
    PROVE  Recording(q)' /\ Reading(q)'
<1>1. pc[q] \in Scanning => run'[q] <= last'
  BY RunsAssumption DEF Data, Unrecorded, Recording, Others, TypeOK
<1>2. ASSUME NEW f \in Files, pc[q] = "scan" \/ (pc[q] \in Scanning /\ snap[q][f] # 0)
      PROVE  rows'[<<run[q], f>>].status = "none"
  <2>1. <<run[q], f>> \in FileRuns /\ rows[<<run[q], f>>].status = "none" /\ pc[q] \in Scanning
    BY <1>2 DEF Control, Data, Unrecorded, Recording, FileRuns, Scanning
  <2>2. pc[p] \in Scanning => run[q] # run[p]
    BY <2>1 DEF Data, Unrecorded
  <2> QED
    BY <2>1, <2>2 DEF RowsGrow
<1>3. \A x \in todo[q] : Ingests(x)'
  BY DEF Data, Unrecorded, Recording, RowsGrow, TypeOK
<1>4. Executing(q) =>
        item[q] \in FileRuns /\ Ingests(item[q])' /\ rows'[item[q]].cause = rows[item[q]].cause
  <2> SUFFICES ASSUME Executing(q)
               PROVE  /\ item[q] \in FileRuns /\ Ingests(item[q])'
                      /\ rows'[item[q]].cause = rows[item[q]].cause
    OBVIOUS
  <2>1. item[q] \in FileRuns
    BY DEF Control, Executing
  <2>2. Ingests(item[q])
    BY DEF Data, Unrecorded, Recording
  <2>3. \A x \in FileRuns : Ingests(x) => Ingests(x)' /\ rows'[x].cause = rows[x].cause
    BY DEF RowsGrow
  <2>4. item'[q] = item[q]
    BY DEF Others
  <2> QED
    BY <2>1, <2>2, <2>3, <2>4 DEF Ingests
<1>5. Recording(q)'
  BY <1>1, <1>2, <1>3, <1>4 DEF Recording, Others, Executing, Data, Unrecorded
<1>6. \A f \in Files : snap'[q][f] <= disk'[f]
  BY RunsAssumption DEF Data, Current, Reading, Others, StoresGrow, TypeOK, Versions
<1>7. pc'[q] \in {"store", "persist"} => content'[q] >= rows'[item'[q]].cause
  BY <1>4 DEF Data, Current, Reading, Others, Executing
<1>8. pc'[q] = "finish" => \E v \in memory'[FileOf(item'[q])] : v >= rows'[item'[q]].cause
  BY <1>4, FileRunParts DEF Data, Current, Reading, Others, Executing, StoresGrow
<1> QED
  BY <1>5, <1>6, <1>7, <1>8 DEF Reading

\* What a step of thread p must show
LEMMA DataKept ==
    ASSUME TypeOK, TypeOK', Control, Data, NEW p \in Procs, Others(p), RowsGrow(p),
           StoresGrow, last' >= last,
           pc'[p] \in Scanning => \/ pc[p] \in Scanning /\ run'[p] = run[p]
                                  \/ run'[p] > last,
           \A x \in FileRuns :
               rows'[x].cause = rows[x].cause \/ rows'[x].cause <= disk'[FileOf(x)],
           \A x \in FileRuns : rows'[x].status = "completed" =>
               \/ rows[x].status = "completed"
               \/ \E v \in memory'[FileOf(x)] : v >= rows'[x].cause,
           \A f \in Files :
               \/ fingerprint'[f] = fingerprint[f]
               \/ \E x \in FileRuns : /\ FileOf(x) = f /\ Ingests(x)'
                                       /\ rows'[x].cause = fingerprint'[f],
           Recording(p)', Reading(p)'
    PROVE  Data'
<1>1. \A x \in FileRuns : x[1] > last' => rows'[x].status = "none"
  <2> SUFFICES ASSUME NEW x \in FileRuns, x[1] > last'
               PROVE  rows'[x].status = "none"
    OBVIOUS
  <2>1. x[1] > last
    BY RunsAssumption, FileRunParts DEF TypeOK, Runs
  <2>2. pc[p] \in Scanning => x[1] # run[p]
    BY <2>1, RunsAssumption DEF Data, Unrecorded, Recording, TypeOK
  <2> QED
    BY <2>1, <2>2 DEF Data, Unrecorded, RowsGrow
<1>2. \A q, t \in Procs :
        pc'[q] \in Scanning /\ pc'[t] \in Scanning /\ run'[q] = run'[t] => q = t
  <2>1. ASSUME NEW q \in Procs \ {p}, pc'[q] \in Scanning, pc'[p] \in Scanning
        PROVE  run'[q] # run'[p]
    <3>1. pc[q] \in Scanning /\ run'[q] = run[q] /\ run[q] <= last
      BY <2>1 DEF Others, Data, Unrecorded, Recording
    <3>2. CASE run'[p] > last
      BY <3>1, <3>2, RunsAssumption DEF TypeOK
    <3>3. CASE pc[p] \in Scanning /\ run'[p] = run[p]
      BY <3>1, <3>3 DEF Data, Unrecorded
    <3> QED
      BY <2>1, <3>2, <3>3
  <2> QED
    BY <2>1 DEF Others, Data, Unrecorded
<1>3. Unrecorded'
  BY <1>1, <1>2, OthersKeep DEF Unrecorded
<1>4. \A x \in FileRuns : rows'[x].cause <= disk'[FileOf(x)]
  BY RunsAssumption, FileRunParts DEF Data, Current, StoresGrow, TypeOK, Versions
<1>5. CompletedIsCurrent'
  <2> SUFFICES ASSUME NEW x \in FileRuns, rows'[x].status = "completed"
               PROVE  \E v \in memory'[FileOf(x)] : v >= rows'[x].cause
    BY DEF CompletedIsCurrent
  <2>1. CASE rows[x].status = "completed"
    <3>1. rows'[x].cause = rows[x].cause
      BY <2>1 DEF RowsGrow, Ingests
    <3> QED
      BY <2>1, <3>1, FileRunParts DEF Data, Current, CompletedIsCurrent, StoresGrow
  <2> QED
    BY <2>1
<1>6. Current'
  BY <1>4, <1>5, OthersKeep DEF Current
<1>7. SeenIsQueued'
  BY DEF Data, SeenIsQueued, RowsGrow
<1> QED
  BY <1>3, <1>6, <1>7 DEF Data

\* A step in which threads only drop their locals
LEMMA DataDropped ==
    ASSUME TypeOK, Control, Data, NEW S, Forget(S),
           UNCHANGED <<disk, memory, last, fingerprint, rows>>,
           \A q \in Procs : IF q \in S THEN pc'[q] \in {"idle", "stopped", "acquire"}
                                       ELSE pc'[q] = pc[q]
    PROVE  Data'
<1>1. \A q \in Procs : Recording(q)' /\ Reading(q)'
  <2> SUFFICES ASSUME NEW q \in Procs PROVE Recording(q)' /\ Reading(q)'
    OBVIOUS
  <2>1. CASE q \in S
    <3>1. NoSnap \in [Files -> {0}] /\ \A f \in Files : 0 <= disk[f]
      BY RunsAssumption DEF NoSnap, TypeOK, Versions
    <3> QED
      BY <2>1, <3>1 DEF Forget, Recording, Reading, Scanning, Executing
  <2>2. CASE q \notin S
    <3>1. Recording(q) /\ Reading(q)
      BY DEF Data, Unrecorded, Current
    <3> QED
      BY <2>2, <3>1 DEF Forget, Recording, Reading, Executing, Ingests
  <2> QED
    BY <2>1, <2>2
<1>2. Unrecorded'
  BY <1>1 DEF Data, Unrecorded, Forget, Scanning
<1> QED
  BY <1>1, <1>2 DEF Data, Current, CompletedIsCurrent, SeenIsQueued, Ingests

\* A step of p that touches neither file runs nor fingerprints
LEMMA DataStays ==
    ASSUME TypeOK, TypeOK', Control, Data, NEW p \in Procs, Others(p),
           rows' = rows, fingerprint' = fingerprint, disk' = disk, memory' = memory,
           last' >= last,
           pc'[p] \in Scanning => \/ pc[p] \in Scanning /\ run'[p] = run[p]
                                  \/ run'[p] > last,
           Recording(p)', Reading(p)'
    PROVE  Data'
<1>1. RowsGrow(p) /\ StoresGrow
  BY RunsAssumption DEF RowsGrow, StoresGrow, Ingests, TypeOK, Versions
<1> QED
  BY <1>1, DataKept

LEMMA CycleData ==
    ASSUME TypeOK, TypeOK', Control, Control', Data, NEW p \in Procs, Cycle(p)
    PROVE  Data'
<1> USE DEF Goto, Upserted
<1>1. Recording(p) /\ Reading(p)
  BY DEF Data, Unrecorded, Current
<1>2. CASE StartRun(p)
  <2>1. Others(p) /\ pc'[p] = "insert"
    BY <1>2 DEF StartRun, Others, locals, TypeOK
  <2>2. Recording(p)' /\ Reading(p)'
    BY <1>1, <1>2, <2>1
       DEF StartRun, Recording, Reading, Scanning, Executing, Ingests, stores, database, locals
  <2> QED
    BY <1>2, <2>1, <2>2, DataStays DEF StartRun, stores, database, Scanning, TypeOK
<1>3. CASE Refused(p) \/ Collide(p)
  <2>1. Forget({p}) /\ UNCHANGED <<disk, memory, last, fingerprint, rows>>
    BY <1>3 DEF Refused, Collide, Unwind, stores, database
  <2>2. \A q \in Procs : IF q \in {p} THEN pc'[q] \in {"idle", "stopped", "acquire"}
                                      ELSE pc'[q] = pc[q]
    BY <1>3 DEF Refused, Collide, Unwind, TypeOK
  <2> QED
    BY <2>1, <2>2, DataDropped
<1>4. CASE InsertRun(p)
  <2>1. Others(p) /\ pc'[p] = "scan" /\ run'[p] = last + 1 /\ last' = last + 1
    BY <1>4 DEF InsertRun, Others, TypeOK
  <2>2. \A f \in Files : rows[<<last + 1, f>>].status = "none"
    <3>1. last + 1 \in Runs /\ last + 1 > last
      BY <1>4, RunsAssumption DEF InsertRun, TypeOK, Runs
    <3> QED
      BY <3>1 DEF Data, Unrecorded, FileRuns
  <2>3. Recording(p)' /\ Reading(p)'
    BY <1>1, <1>4, <2>1, <2>2, RunsAssumption
       DEF InsertRun, Recording, Reading, Scanning, Executing, Ingests, stores, TypeOK
  <2>4. UNCHANGED <<rows, fingerprint, disk, memory>>
    BY <1>4 DEF InsertRun, stores
  <2>5. last' >= last /\ run'[p] > last
    BY <2>1, RunsAssumption DEF TypeOK
  <2> QED
    BY <2>1, <2>3, <2>4, <2>5, DataStays
<1>5. CASE Scan(p)
  <2>1. Others(p) /\ pc[p] = "scan" /\ pc'[p] = "discover" /\ run'[p] = run[p]
    BY <1>5 DEF Scan, Others, TypeOK
  <2>2. \A f \in Files : snap'[p][f] <= disk[f]
    BY <1>5, RunsAssumption DEF Scan, TypeOK, Versions
  <2>3. Recording(p)' /\ Reading(p)'
    BY <1>1, <1>5, <2>1, <2>2
       DEF Scan, Recording, Reading, Scanning, Executing, Ingests, stores, database
  <2> QED
    BY <1>5, <2>1, <2>3, DataStays DEF Scan, stores, database, Scanning, TypeOK
<1>6. CASE FindFile(p)
  <2>1. /\ Others(p) /\ pc[p] = "discover" /\ pc'[p] = "upsert" /\ run'[p] = run[p]
        /\ snap'[p] = snap[p] /\ todo'[p] = todo[p]
    BY <1>6 DEF FindFile, Others, TypeOK
  <2>2. item'[p][1] = run[p] /\ snap[p][FileOf(item'[p])] # 0
    BY <1>6 DEF FindFile, FileOf, TypeOK
  <2>3. Recording(p)' /\ Reading(p)'
    BY <1>1, <1>6, <2>1, <2>2
       DEF FindFile, Recording, Reading, Scanning, Executing, Ingests, stores, database
  <2> QED
    BY <1>6, <2>1, <2>3, DataStays DEF FindFile, stores, database, Scanning, TypeOK
<1>7. CASE QueueFile(p) \/ SkipFile(p)
  <2> DEFINE x == item[p]
             f == FileOf(x)
  <2>1. /\ pc[p] = "upsert" /\ pc'[p] = "discover" /\ run'[p] = run[p] /\ last' = last
        /\ disk' = disk /\ memory' = memory /\ Others(p) /\ todo'[p] = todo[p]
        /\ snap'[p] = [snap[p] EXCEPT ![f] = 0]
    BY <1>7 DEF QueueFile, SkipFile, Others, TypeOK, stores
  <2>2. x \in FileRuns /\ f \in Files /\ x = <<run[p], f>> /\ rows[x].status = "none"
    <3>1. x \in FileRuns /\ x[1] = run[p] /\ snap[p][f] # 0
      BY <1>1, <2>1 DEF Control, Recording
    <3> QED
      BY <1>1, <2>1, <3>1 DEF FileRuns, FileOf, Recording, Scanning
  <2>3. /\ rows' = [rows EXCEPT ![x] = rows'[x]] /\ rows'[x].status \in {"queued", "skipped"}
        /\ rows'[x].cause = snap[p][f] /\ snap[p][f] <= disk[f]
    BY <1>1, <1>7, <2>2 DEF QueueFile, SkipFile, Reading, TypeOK
  <2>4. RowsGrow(p)
    <3>1. \A y \in FileRuns \ {x} : rows'[y] = rows[y]
      BY <2>2, <2>3 DEF TypeOK
    <3>2. ~Ingests(x) /\ x[1] = run[p] /\ pc[p] \in Scanning
      BY <2>1, <2>2 DEF Ingests, Scanning
    <3> QED
      BY <3>1, <3>2 DEF RowsGrow, Ingests
  <2>5. /\ \A y \in FileRuns :
             rows'[y].cause = rows[y].cause \/ rows'[y].cause <= disk'[FileOf(y)]
        /\ \A y \in FileRuns : rows'[y].status = "completed" => rows[y].status = "completed"
    BY <2>1, <2>2, <2>3 DEF TypeOK
  <2>6. \A g \in Files :
          \/ fingerprint'[g] = fingerprint[g]
          \/ \E y \in FileRuns : /\ FileOf(y) = g /\ Ingests(y)'
                                  /\ rows'[y].cause = fingerprint'[g]
    <3>1. CASE SkipFile(p)
      BY <3>1 DEF SkipFile
    <3>2. CASE QueueFile(p)
      <4>1. /\ \A g \in Files \ {f} : fingerprint'[g] = fingerprint[g]
            /\ fingerprint'[f] = rows'[x].cause /\ rows'[x].status = "queued"
        BY <3>2, <2>2 DEF QueueFile, TypeOK
      <4> QED
        BY <4>1, <2>2 DEF Ingests
    <3> QED
      BY <1>7, <3>1, <3>2
  <2>7. \A y \in todo[p] : Ingests(y)'
    BY <1>1, <2>4 DEF Recording, RowsGrow, TypeOK
  <2>8. Recording(p)'
    <3>1. \A g \in Files : snap'[p][g] # 0 =>
            /\ g # f /\ snap[p][g] # 0 /\ <<run[p], g>> \in FileRuns /\ <<run[p], g>> # x
      BY <2>1, <2>2 DEF TypeOK, FileRuns
    <3>2. \A g \in Files : snap'[p][g] # 0 => rows'[<<run[p], g>>].status = "none"
      <4>1. \A y \in FileRuns \ {x} : rows'[y] = rows[y]
        BY <2>2, <2>3 DEF TypeOK
      <4> QED
        BY <1>1, <2>1, <3>1, <4>1 DEF Recording, Scanning
    <3> QED
      BY <1>1, <2>1, <2>7, <3>2 DEF Recording, Scanning, Executing
  <2>9. Reading(p)'
    <3>1. \A g \in Files : snap'[p][g] <= disk[g]
      BY <1>1, <2>1, RunsAssumption DEF Reading, TypeOK, Versions
    <3> QED
      BY <2>1, <3>1 DEF Reading
  <2>10. StoresGrow /\ last' >= last
    BY <2>1, RunsAssumption DEF StoresGrow, TypeOK, Versions
  <2> QED
    BY <2>1, <2>4, <2>5, <2>6, <2>8, <2>9, <2>10, DataKept DEF Scanning
<1>8. CASE FinishRun(p)
  <2>1. Others(p) /\ pc'[p] = "list"
    BY <1>8 DEF FinishRun, Others, locals, TypeOK
  <2>2. Recording(p)' /\ Reading(p)'
    BY <1>1, <1>8, <2>1
       DEF FinishRun, Recording, Reading, Scanning, Executing, Ingests, stores, locals
  <2> QED
    BY <1>8, <2>1, <2>2, DataStays DEF FinishRun, stores, Scanning, TypeOK
<1> QED
  BY <1>2, <1>3, <1>4, <1>5, <1>6, <1>7, <1>8 DEF Cycle

LEMMA ExecutionData ==
    ASSUME TypeOK, TypeOK', Control, Control', Data, NEW p \in Procs,
           Execution(p) \/ TriggerScan(p) \/ BeginCycle(p)
    PROVE  Data'
<1> USE DEF Goto
<1>1. Recording(p) /\ Reading(p)
  BY DEF Data, Unrecorded, Current
<1>2. CASE TriggerScan(p)
  <2>1. Others(p) /\ pc'[p] = "acquire"
    BY <1>2 DEF TriggerScan, Others, locals, TypeOK
  <2>2. Recording(p)' /\ Reading(p)'
    BY <1>1, <1>2, <2>1
       DEF TriggerScan, Recording, Reading, Scanning, Executing, Ingests, stores, database, locals
  <2> QED
    BY <1>2, <2>1, <2>2, DataStays DEF TriggerScan, stores, database, Scanning, TypeOK
<1>3. CASE BeginCycle(p) \/ ListRun(p)
  <2>1. Others(p) /\ pc'[p] = "files"
    BY <1>3 DEF BeginCycle, ListRun, Others, TypeOK
  <2>2. \A x \in todo'[p] : Ingests(x)
    BY <1>3 DEF BeginCycle, ListRun, Ingests, TypeOK
  <2>3. Recording(p)' /\ Reading(p)'
    BY <1>1, <1>3, <2>1, <2>2
       DEF BeginCycle, ListRun, Recording, Reading, Scanning, Executing, Ingests, stores, database
  <2>4. UNCHANGED <<stores, database>>
    BY <1>3 DEF BeginCycle, ListRun
  <2>5. last' >= last
    BY <2>4 DEF database, TypeOK
  <2> QED
    BY <2>1, <2>3, <2>4, <2>5, DataStays DEF stores, database, Scanning
<1>4. CASE ReadFile(p)
  <2>1. PICK x \in todo[p] :
          /\ item' = [item EXCEPT ![p] = x]
          /\ todo' = [todo EXCEPT ![p] = @ \ {x}]
          /\ rows' = [rows EXCEPT ![x].status = "running"]
          /\ content' = [content EXCEPT ![p] = disk[FileOf(x)]]
    BY <1>4 DEF ReadFile
  <2>2. x \in FileRuns /\ Ingests(x)
    BY <1>1 DEF Recording, TypeOK
  <2>3. Others(p) /\ pc'[p] = "store" /\ snap' = snap /\ run' = run
    BY <1>4, <2>1 DEF ReadFile, Others, TypeOK
  <2>4. /\ RowsGrow(p)
        /\ \A y \in FileRuns : rows'[y].cause = rows[y].cause
        /\ \A y \in FileRuns : rows'[y].status = "completed" => rows[y].status = "completed"
        /\ Ingests(x)'
    BY <2>1, <2>2 DEF RowsGrow, Ingests, TypeOK
  <2>5. rows'[x].cause <= disk[FileOf(x)]
    BY <2>2, <2>4 DEF Data, Current
  <2>6. \A y \in todo'[p] : Ingests(y)'
    BY <1>1, <2>1, <2>4 DEF Recording, RowsGrow, TypeOK
  <2>7. Recording(p)'
    <3>1. item'[p] = x /\ rows'[x].status = "running"
      BY <2>1, <2>2 DEF TypeOK
    <3> QED
      BY <2>3, <2>6, <3>1 DEF Recording, Scanning, Executing, Ingests
  <2>8. Reading(p)'
    <3>1. item'[p] = x /\ content'[p] = disk[FileOf(x)] /\ disk' = disk
      BY <1>4, <2>1 DEF ReadFile, TypeOK, stores
    <3>2. content'[p] >= rows'[x].cause
      BY <2>2, <2>5, <3>1, FileRunParts, RunsAssumption DEF TypeOK, Versions
    <3> QED
      BY <1>1, <2>3, <3>1, <3>2 DEF Reading
  <2>9. StoresGrow /\ last' >= last /\ fingerprint' = fingerprint
    BY <1>4, RunsAssumption DEF ReadFile, stores, StoresGrow, TypeOK, Versions
  <2> QED
    BY <2>3, <2>4, <2>7, <2>8, <2>9, DataKept DEF Scanning
<1>5. CASE WriteSummary(p) \/ PersistMemory(p)
  <2>1. /\ Others(p) /\ pc[p] \in {"store", "persist"}
        /\ pc'[p] = "persist" \/ (pc'[p] = "finish" /\ PersistMemory(p))
    BY <1>5 DEF WriteSummary, PersistMemory, Others, locals, TypeOK
  <2>2. item[p] \in FileRuns /\ FileOf(item[p]) \in Files
    BY <2>1, FileRunParts DEF Control
  <2>3. RowsGrow(p) /\ rows' = rows /\ fingerprint' = fingerprint /\ last' = last
    BY <1>5 DEF WriteSummary, PersistMemory, database, RowsGrow, Ingests
  <2>4. StoresGrow /\ (PersistMemory(p) => content[p] \in memory'[FileOf(item[p])])
    <3>1. disk' = disk /\ \A f \in Files : disk[f] >= disk[f]
      BY <1>5, RunsAssumption DEF WriteSummary, PersistMemory, TypeOK, Versions
    <3>2. CASE WriteSummary(p) /\ ~PersistMemory(p)
      BY <3>1, <3>2 DEF WriteSummary, StoresGrow
    <3>3. CASE PersistMemory(p)
      BY <2>2, <3>1, <3>3 DEF PersistMemory, StoresGrow, TypeOK
    <3> QED
      BY <1>5, <3>1, <3>2, <3>3
  <2>5. Recording(p)'
    BY <1>1, <1>5, <2>1 DEF WriteSummary, PersistMemory, Recording, Scanning, Executing, Ingests,
                            database, locals
  <2>6. Reading(p)'
    BY <1>1, <1>5, <2>1, <2>4 DEF WriteSummary, PersistMemory, Reading, database, locals
  <2>7. last' >= last
    BY <2>3 DEF TypeOK
  <2> QED
    BY <2>1, <2>3, <2>4, <2>5, <2>6, <2>7, DataKept DEF Scanning
<1>6. CASE Complete(p) \/ Fail(p)
  <2>1. PICK s \in {"completed", "retry_queued", "poisoned"} : Settle(p, s)
    BY <1>6 DEF Complete, Fail
  <2>2. /\ Others(p) /\ pc'[p] = "files" /\ todo' = todo /\ snap' = snap /\ run' = run
        /\ disk' = disk /\ memory' = memory /\ last' = last /\ fingerprint' = fingerprint
    BY <2>1 DEF Settle, Others, stores, TypeOK
  <2>3. /\ Executing(p) /\ item[p] \in FileRuns /\ Ingests(item[p])
        /\ s = "completed" => pc[p] = "finish"
    <3>1. Executing(p)
      BY <1>6 DEF Complete, Fail, Executing
    <3>2. s = "completed" => pc[p] = "finish"
      <4>1. CASE Complete(p)
        BY <4>1 DEF Complete
      <4>2. CASE Fail(p) /\ s = "completed"
        <5>1. rows'[item[p]].status = "completed"
          BY <2>1, <3>1, <4>2 DEF Settle, Control, Executing, TypeOK
        <5>2. rows'[item[p]].status # "completed"
          BY <3>1, <4>2 DEF Fail, Settle, Control, Executing, TypeOK
        <5> QED
          BY <5>1, <5>2
      <4> QED
        BY <1>6, <4>1, <4>2
    <3> QED
      BY <1>1, <3>1, <3>2 DEF Control, Recording, Executing
  <2>4. /\ RowsGrow(p)
        /\ \A y \in FileRuns : rows'[y].cause = rows[y].cause
        /\ \A y \in FileRuns : rows'[y].status = "completed" =>
             rows[y].status = "completed" \/ (y = item[p] /\ pc[p] = "finish")
    BY <2>1, <2>3 DEF Settle, RowsGrow, Ingests, TypeOK
  <2>5. \A y \in FileRuns : rows'[y].status = "completed" =>
          \/ rows[y].status = "completed"
          \/ \E v \in memory'[FileOf(y)] : v >= rows'[y].cause
    BY <1>1, <2>2, <2>4 DEF Reading
  <2>6. \A y \in todo'[p] : Ingests(y)'
    BY <1>1, <2>2, <2>4 DEF Recording, RowsGrow, TypeOK
  <2>7. Recording(p)' /\ Reading(p)'
    BY <1>1, <2>2, <2>6 DEF Recording, Reading, Scanning, Executing
  <2>8. StoresGrow /\ last' >= last
    BY <2>2, RunsAssumption DEF StoresGrow, TypeOK, Versions
  <2> QED
    BY <2>2, <2>4, <2>5, <2>7, <2>8, DataKept DEF Scanning
<1>7. CASE EndFiles(p)
  <2>1. Forget({p}) /\ UNCHANGED <<disk, memory, last, fingerprint, rows>>
    BY <1>7 DEF EndFiles, stores, database
  <2>2. \A q \in Procs : IF q \in {p} THEN pc'[q] \in {"idle", "stopped", "acquire"}
                                      ELSE pc'[q] = pc[q]
    BY <1>7 DEF EndFiles, TypeOK
  <2> QED
    BY <2>1, <2>2, DataDropped
<1> QED
  BY <1>2, <1>3, <1>4, <1>5, <1>6, <1>7 DEF Execution

LEMMA NextData ==
    ASSUME TypeOK, TypeOK', Control, Control', Data, [Next]_vars
    PROVE  Data'
<1>1. ASSUME NEW p \in Procs, Raise(p)
      PROVE  Data'
  <2>1. Forget({p}) /\ UNCHANGED <<disk, memory, last, fingerprint, rows>>
    BY <1>1 DEF Raise, Unwind, stores, database
  <2>2. \A q \in Procs : IF q \in {p} THEN pc'[q] \in {"idle", "stopped", "acquire"}
                                      ELSE pc'[q] = pc[q]
    BY <1>1 DEF Raise, Unwind, Goto, TypeOK
  <2> QED
    BY <2>1, <2>2, DataDropped
<1>2. CASE ApiStops
  <2>1. Forget(Clients) /\ UNCHANGED <<disk, memory, last, fingerprint, rows>>
    BY <1>2 DEF ApiStops, stores, database
  <2>2. \A q \in Procs : IF q \in Clients THEN pc'[q] \in {"idle", "stopped", "acquire"}
                                          ELSE pc'[q] = pc[q]
    BY <1>2 DEF ApiStops
  <2> QED
    BY <2>1, <2>2, DataDropped
<1>3. CASE Restart
  <2>1. Worker \in Procs
    BY DEF Procs
  <2>2. Others(Worker) /\ pc'[Worker] = "idle"
    BY <1>3, <2>1 DEF Restart, Others, Goto, locals, TypeOK
  <2>3. Recording(Worker)' /\ Reading(Worker)'
    BY <1>3, <2>1, <2>2 DEF Restart, Data, Unrecorded, Current, Recording, Reading, Scanning,
                            Executing, Ingests, stores, database, locals
  <2>4. UNCHANGED <<stores, database>>
    BY <1>3 DEF Restart
  <2>5. last' >= last
    BY <2>4 DEF database, TypeOK
  <2> QED
    BY <2>1, <2>2, <2>3, <2>4, <2>5, DataStays DEF stores, database, Scanning
<1>4. ASSUME NEW f \in Files, Edit(f)
      PROVE  Data'
  <2>1. Worker \in Procs
    BY DEF Procs
  <2>2. /\ UNCHANGED <<memory, pc, last, fingerprint, rows, locals>>
        /\ \A g \in Files : disk'[g] >= disk[g]
    BY <1>4, RunsAssumption DEF Edit, database, TypeOK, Versions
  <2>3. RowsGrow(Worker) /\ StoresGrow /\ Others(Worker) /\ last' >= last
    <3>1. RowsGrow(Worker) /\ StoresGrow
      BY <2>2 DEF RowsGrow, StoresGrow, Ingests
    <3>2. Others(Worker)
      BY <2>2 DEF Others, locals
    <3> QED
      BY <2>2, <3>1, <3>2 DEF TypeOK
  <2>4. Recording(Worker)'
    BY <2>1, <2>2 DEF Data, Unrecorded, Recording, Executing, Ingests, locals
  <2>5. Reading(Worker)'
    <3>1. \A g \in Files : snap[Worker][g] <= disk'[g]
      BY <2>1, <2>2, RunsAssumption DEF Data, Current, Reading, TypeOK, Versions
    <3> QED
      BY <2>1, <2>2, <3>1 DEF Data, Current, Reading, locals
  <2> QED
    BY <2>1, <2>2, <2>3, <2>4, <2>5, DataKept DEF locals
<1>5. CASE UNCHANGED vars
  BY <1>5 DEF vars, Data, Unrecorded, Current, SeenIsQueued, CompletedIsCurrent, Recording, Reading,
              Executing, Ingests, stores, database, locals
<1> QED
  BY <1>1, <1>2, <1>3, <1>4, <1>5, CycleData, ExecutionData DEF Next

-----------------------------------------------------------------------------
(* Theorems.                                                               *)

\* The types, what a thread's position says of its locals, the lock, the rows and
\* the versions: none of these is disturbed by a step of any thread.
THEOREM Invariant == Spec => []IInv
<1>1. Init => IInv
  BY InitInv
<1>2. IInv /\ [Next]_vars => IInv'
  <2> SUFFICES ASSUME IInv, [Next]_vars PROVE IInv'
    OBVIOUS
  <2>1. TypeOK' /\ Control'
    BY NextTypes DEF IInv
  <2>2. Exclusive'
    BY NextExclusive DEF IInv
  <2>3. Data'
    BY <2>1, NextData DEF IInv, Data
  <2> QED
    BY <2>1, <2>2, <2>3 DEF IInv, Data
<1> QED
  BY <1>1, <1>2, PTL DEF Spec

\* Every variable keeps its type, for any number of files, threads, runs and stops.
THEOREM TypeCorrect == Spec => []TypeOK
<1>1. IInv => TypeOK
  BY DEF IInv
<1> QED
  BY <1>1, Invariant, PTL

\* run_cycle: no process ever has two running runs, for any number of threads,
\* runs and stops.
THEOREM RunsExclusive == Spec => []OneRunPerProcess
<1>1. IInv => OneRunPerProcess
  BY DEF IInv, Exclusive
<1> QED
  BY <1>1, Invariant, PTL

\* upsert_file_discovery: a version that later scans skip was queued once.
THEOREM SeenQueued == Spec => []SeenIsQueued
<1>1. IInv => SeenIsQueued
  BY DEF IInv
<1> QED
  BY <1>1, Invariant, PTL

\* _execute_single_file: a completed file run has stored text at least as new as
\* the change that queued it.
THEOREM CompletedCurrent == Spec => []CompletedIsCurrent
<1>1. IInv => CompletedIsCurrent
  BY DEF IInv, Current
<1> QED
  BY <1>1, Invariant, PTL

-----------------------------------------------------------------------------
(***************************************************************************)
(* What the guard of start_run() and the absence of concurrent executions  *)
(* buy: a change is queued by one run, no run is orphaned, and the note of *)
(* a file never goes back.                                                 *)
(***************************************************************************)

(* Runs that were started one at a time.                                   *)

RunsRun == \A p \in Procs : pc[p] \in Scanning => runs[run[p]] = "running"

\* The thread that scans is alone: what it has selected is still stored, what it has
\* scanned is not older than what is stored, and nothing newer was ever queued
Alone ==
    /\ \A r, s \in RunningRuns : r = s
    /\ \A p \in Procs : pc[p] = "upsert" => found[p] = fingerprint[FileOf(item[p])]
    /\ \A p \in Procs, f \in Files :
         pc[p] \in {"discover", "upsert"} /\ snap[p][f] # 0 => snap[p][f] >= fingerprint[f]
    /\ \A x \in FileRuns : Ingests(x) => rows[x].cause <= fingerprint[FileOf(x)]
    /\ \A x, y \in FileRuns :
         FileOf(x) = FileOf(y) /\ Ingests(x) /\ Ingests(y) /\ rows[x].cause = rows[y].cause
         => x = y
    /\ faults = 0 => \A r \in RunningRuns : \E p \in Procs : run[p] = r /\ pc[p] \in InCycle

Serial == RunsRun /\ (~overlapped => Alone)

LEMMA InitSerial == Init => Serial
BY DEF Init, Serial, RunsRun, Alone, RunningRuns, Ingests, Scanning, NoSnap

LEMMA OneScanner ==
    ASSUME IInv, RunsRun, Alone, NEW p \in Procs, NEW q \in Procs,
           pc[p] \in Scanning, pc[q] \in Scanning
    PROVE  p = q
<1>1. run[p] \in RunningRuns /\ run[q] \in RunningRuns
  BY DEF IInv, Control, RunsRun, RunningRuns
<1> QED
  BY <1>1 DEF IInv, Unrecorded, Alone

\* A step that only moves threads out of their cycle, or elsewhere outside it
LEMMA SerialStays ==
    ASSUME Serial, runs' = runs, fingerprint' = fingerprint, overlapped' = overlapped,
           \A x \in FileRuns : Ingests(x)' => Ingests(x) /\ rows'[x].cause = rows[x].cause,
           \A q \in Procs : pc'[q] \in Scanning =>
               /\ pc'[q] = pc[q] /\ run'[q] = run[q] /\ snap'[q] = snap[q]
               /\ found'[q] = found[q] /\ item'[q] = item[q],
           faults' = 0 => /\ faults = 0
                          /\ \A q \in Procs : pc[q] \in InCycle =>
                               pc'[q] \in InCycle /\ run'[q] = run[q]
    PROVE  Serial'
<1>1. RunsRun'
  BY DEF Serial, RunsRun
<1>2. ASSUME ~overlapped'
      PROVE  Alone'
  <2>1. Alone
    BY <1>2 DEF Serial
  <2>2. \A q \in Procs : pc'[q] = "upsert" => found'[q] = fingerprint'[FileOf(item'[q])]
    BY <2>1 DEF Alone, Scanning
  <2>3. \A q \in Procs, f \in Files :
          pc'[q] \in {"discover", "upsert"} /\ snap'[q][f] # 0 => snap'[q][f] >= fingerprint'[f]
    BY <2>1 DEF Alone, Scanning
  <2>4. \A x \in FileRuns : Ingests(x)' => rows'[x].cause <= fingerprint'[FileOf(x)]
    BY <2>1 DEF Alone
  <2>5. \A x, y \in FileRuns :
          FileOf(x) = FileOf(y) /\ Ingests(x)' /\ Ingests(y)' /\ rows'[x].cause = rows'[y].cause
          => x = y
    BY <2>1 DEF Alone
  <2>6. faults' = 0 =>
          \A r \in RunningRuns' : \E p \in Procs : run'[p] = r /\ pc'[p] \in InCycle
    BY <2>1 DEF Alone, RunningRuns
  <2> QED
    BY <2>1, <2>2, <2>3, <2>4, <2>5, <2>6 DEF Alone, RunningRuns, Ingests
<1> QED
  BY <1>1, <1>2 DEF Serial

\* A fingerprint is not newer than the file
LEMMA StoredIsOld == ASSUME IInv PROVE \A f \in Files : fingerprint[f] <= disk[f]
<1> SUFFICES ASSUME NEW f \in Files PROVE fingerprint[f] <= disk[f]
  OBVIOUS
<1>1. CASE fingerprint[f] = 0
  BY <1>1, RunsAssumption DEF IInv, TypeOK, Versions
<1>2. CASE fingerprint[f] # 0
  BY <1>2 DEF IInv, SeenIsQueued, Current
<1> QED
  BY <1>1, <1>2

LEMMA InsertSerial ==
    ASSUME IInv, Serial, NEW p \in Procs, InsertRun(p)
    PROVE  Serial'
<1> USE DEF IInv, TypeOK, Goto
<1>1. /\ last + 1 \in Runs /\ runs' = [runs EXCEPT ![last + 1] = "running"]
      /\ run'[p] = last + 1 /\ pc'[p] = "scan"
      /\ \A q \in Procs \ {p} : run'[q] = run[q] /\ pc'[q] = pc[q]
      /\ UNCHANGED <<fingerprint, rows, snap, found, item, faults>>
  BY RunsAssumption DEF InsertRun, Runs
<1>2. RunsRun'
  <2> SUFFICES ASSUME NEW q \in Procs, pc'[q] \in Scanning
               PROVE  runs'[run'[q]] = "running"
    BY DEF RunsRun
  <2>1. CASE q = p
    BY <1>1, <2>1
  <2>2. CASE q # p
    <3>1. run[q] \in Runs /\ runs[run[q]] = "running"
      BY <1>1, <2>2 DEF Control, Serial, RunsRun
    <3> QED
      BY <1>1, <2>2, <3>1
  <2> QED
    BY <2>1, <2>2
<1>3. ASSUME ~overlapped'
      PROVE  Alone'
  <2>1. RunningRuns = {} /\ Alone
    BY <1>3 DEF InsertRun, Serial
  <2>2. RunningRuns' \subseteq {last + 1}
    BY <1>1, <2>1 DEF RunningRuns
  <2>3. \A q \in Procs : pc'[q] \notin {"discover", "upsert"}
    <3>1. \A q \in Procs : pc[q] \notin Scanning
      BY <2>1 DEF Serial, RunsRun, Control, RunningRuns
    <3> QED
      BY <1>1, <3>1 DEF Scanning
  <2>4. \A r \in RunningRuns' : \E q \in Procs : run'[q] = r /\ pc'[q] \in InCycle
    BY <1>1, <2>2 DEF InCycle
  <2>5. \A r, s \in RunningRuns' : r = s
    BY <2>2
  <2> HIDE DEF IInv, TypeOK
  <2> QED
    BY <1>1, <2>1, <2>3, <2>4, <2>5 DEF Alone, Ingests
<1> QED
  BY <1>2, <1>3 DEF Serial

LEMMA ScanSerial ==
    ASSUME IInv, Serial, NEW p \in Procs, Scan(p) \/ FindFile(p)
    PROVE  Serial'
<1> USE DEF Goto
<1>1. /\ UNCHANGED <<runs, run, fingerprint, rows, overlapped, faults>>
      /\ pc[p] \in Scanning /\ pc'[p] \in Scanning
      /\ \A q \in Procs \ {p} : /\ pc'[q] = pc[q] /\ snap'[q] = snap[q]
                                /\ found'[q] = found[q] /\ item'[q] = item[q]
  BY DEF Scan, FindFile, database, history, IInv, TypeOK, Scanning
<1>2. RunsRun'
  BY <1>1 DEF Serial, RunsRun
<1>3. ASSUME ~overlapped'
      PROVE  Alone'
  <2>1. Alone
    BY <1>1, <1>3 DEF Serial
  <2>2. pc'[p] = "upsert" => found'[p] = fingerprint[FileOf(item'[p])]
    BY DEF Scan, FindFile, IInv, TypeOK, FileOf
  <2>3. \A f \in Files : snap'[p][f] # 0 => snap'[p][f] >= fingerprint[f]
    <3>1. CASE Scan(p)
      <4>1. \A f \in Files : snap'[p][f] # 0 => snap'[p][f] = disk[f]
        BY <3>1 DEF Scan, IInv, TypeOK
      <4> QED
        BY <4>1, StoredIsOld, RunsAssumption DEF IInv, TypeOK, Versions
    <3>2. CASE FindFile(p)
      BY <2>1, <3>2 DEF FindFile, Alone
    <3> QED
      BY <3>1, <3>2
  <2>4. \A r \in RunningRuns' : r \in RunningRuns
    BY <1>1 DEF RunningRuns
  <2>5. \A q \in Procs : pc[q] \in InCycle => pc'[q] \in InCycle
    BY <1>1 DEF Scanning, InCycle
  <2> QED
    BY <1>1, <2>1, <2>2, <2>3, <2>4, <2>5 DEF Alone, Ingests
<1> QED
  BY <1>2, <1>3 DEF Serial

LEMMA VersionTypes ==
    ASSUME IInv
    PROVE  /\ \A f \in Files : fingerprint[f] \in Nat
           /\ \A p \in Procs, f \in Files : snap[p][f] \in Nat
           /\ \A x \in FileRuns : rows[x].cause \in Nat
<1>1. Versions \subseteq Nat
  BY RunsAssumption DEF Versions
<1> QED
  BY <1>1 DEF IInv, TypeOK

LEMMA UpsertSerial ==
    ASSUME IInv, IInv', Serial, NEW p \in Procs, QueueFile(p) \/ SkipFile(p)
    PROVE  Serial'
<1> USE DEF Goto, Upserted
<1>0. PICK x \in FileRuns, f \in Files : x = item[p] /\ f = FileOf(item[p])
  BY FileRunParts DEF QueueFile, SkipFile, IInv, Control
<1>1. /\ UNCHANGED <<runs, run, overlapped, faults>>
      /\ pc[p] = "upsert" /\ pc'[p] = "discover"
      /\ snap'[p] = [snap[p] EXCEPT ![f] = 0]
      /\ \A q \in Procs \ {p} : pc'[q] = pc[q] /\ snap'[q] = snap[q]
  BY <1>0 DEF QueueFile, SkipFile, history, IInv, TypeOK
<1>2. FileOf(x) = f /\ ~Ingests(x) /\ snap[p][f] # 0
  <2>1. x[1] = run[p] /\ snap[p][f] # 0 /\ x = <<run[p], f>>
    BY <1>0, <1>1 DEF IInv, Unrecorded, Recording, FileRuns, FileOf
  <2>2. rows[<<run[p], f>>].status = "none"
    BY <1>1, <2>1 DEF IInv, Unrecorded, Recording, Scanning
  <2> QED
    BY <1>0, <2>1, <2>2 DEF Ingests
<1>3. RunsRun'
  BY <1>1 DEF Serial, RunsRun, Scanning
<1>4. ASSUME ~overlapped'
      PROVE  Alone'
  <2>1. Alone
    BY <1>1, <1>4 DEF Serial
  <2>2. \A q \in Procs \ {p} : pc'[q] \notin Scanning
    BY <1>1, <2>1, OneScanner DEF Serial, Scanning
  <2>3. snap[p][f] >= fingerprint[f] /\ found[p] = fingerprint[f]
    BY <1>0, <1>1, <1>2, <2>1 DEF Alone
  <2>4. /\ \A y \in FileRuns \ {x} : rows'[y] = rows[y]
        /\ \A g \in Files \ {f} : fingerprint'[g] = fingerprint[g]
        /\ \/ /\ rows'[x].cause = snap[p][f] /\ fingerprint'[f] = snap[p][f]
              /\ snap[p][f] > fingerprint[f]
           \/ ~Ingests(x)' /\ fingerprint'[f] = fingerprint[f]
    <3>1. CASE QueueFile(p)
      <4>1. snap[p][f] # fingerprint[f]
        BY <1>0, <2>3, <3>1 DEF QueueFile
      <4>2. snap[p][f] > fingerprint[f]
        BY <2>3, <4>1, VersionTypes
      <4>3. /\ rows' = [rows EXCEPT ![x] = [status |-> "queued", cause |-> snap[p][f]]]
            /\ fingerprint' = [fingerprint EXCEPT ![f] = snap[p][f]]
        BY <1>0, <3>1 DEF QueueFile
      <4> QED
        BY <4>2, <4>3 DEF IInv, TypeOK
    <3>2. CASE SkipFile(p)
      <4>1. /\ rows' = [rows EXCEPT ![x] = [status |-> "skipped", cause |-> snap[p][f]]]
            /\ fingerprint' = fingerprint
        BY <1>0, <3>2 DEF SkipFile
      <4> QED
        BY <4>1 DEF IInv, TypeOK, Ingests
    <3> QED
      BY <3>1, <3>2
  <2>5. \A g \in Files : snap'[p][g] # 0 => snap'[p][g] >= fingerprint'[g]
    BY <1>1, <1>2, <2>1, <2>4 DEF Alone, IInv, TypeOK
  <2>6. \A y \in FileRuns : Ingests(y)' => rows'[y].cause <= fingerprint'[FileOf(y)]
    <3> SUFFICES ASSUME NEW y \in FileRuns, Ingests(y)'
                 PROVE  rows'[y].cause <= fingerprint'[FileOf(y)]
      OBVIOUS
    <3>1. rows'[y].cause \in Nat /\ fingerprint'[FileOf(y)] \in Nat /\ fingerprint[FileOf(y)] \in Nat
          /\ snap[p][f] \in Nat
      <4>1. /\ \A g \in Files : fingerprint'[g] \in Nat
            /\ \A z \in FileRuns : rows'[z].cause \in Nat
        <5>1. Versions \subseteq Nat
          BY RunsAssumption DEF Versions
        <5> QED
          BY <5>1 DEF IInv, TypeOK
      <4> QED
        BY <4>1, FileRunParts, VersionTypes
    <3>2. CASE y = x
      BY <1>2, <2>4, <3>1, <3>2
    <3>3. CASE y # x
      <4>1. Ingests(y) /\ rows[y] = rows'[y] /\ rows[y].cause <= fingerprint[FileOf(y)]
        BY <2>1, <2>4, <3>3 DEF Alone, Ingests
      <4>2. fingerprint[FileOf(y)] <= fingerprint'[FileOf(y)]
        BY <2>4, <3>1, FileRunParts
      <4> QED
        BY <3>1, <4>1, <4>2
    <3> QED
      BY <3>2, <3>3
  <2>7. \A y \in FileRuns \ {x} : FileOf(y) = f /\ Ingests(y)' /\ Ingests(x)'
          => rows'[y].cause # rows'[x].cause
    <3> SUFFICES ASSUME NEW y \in FileRuns \ {x}, FileOf(y) = f, Ingests(y)', Ingests(x)'
                 PROVE  rows'[y].cause # rows'[x].cause
      OBVIOUS
    <3>1. rows'[y].cause <= fingerprint[f] /\ rows'[x].cause > fingerprint[f]
      <4>1. rows'[y] = rows[y] /\ Ingests(y)
        BY <2>4 DEF Ingests
      <4>2. rows[y].cause <= fingerprint[f]
        BY <2>1, <4>1 DEF Alone
      <4> QED
        BY <2>4, <4>1, <4>2
    <3>2. rows'[y].cause \in Nat /\ rows'[x].cause \in Nat /\ fingerprint[f] \in Nat
      <4>1. y \in FileRuns /\ rows'[y] = rows[y] /\ rows'[x].cause = snap[p][f]
        BY <2>4
      <4> QED
        BY <4>1, VersionTypes
    <3> QED
      BY <3>1, <3>2
  <2>8. \A y, z \in FileRuns :
          FileOf(y) = FileOf(z) /\ Ingests(y)' /\ Ingests(z)' /\ rows'[y].cause = rows'[z].cause
          => y = z
    <3> SUFFICES ASSUME NEW y \in FileRuns, NEW z \in FileRuns, FileOf(y) = FileOf(z),
                        Ingests(y)', Ingests(z)', rows'[y].cause = rows'[z].cause
                 PROVE  y = z
      OBVIOUS
    <3>1. CASE y # x /\ z # x
      <4>1. rows'[y] = rows[y] /\ rows'[z] = rows[z] /\ Ingests(y) /\ Ingests(z)
        BY <2>4, <3>1 DEF Ingests
      <4> QED
        BY <2>1, <4>1 DEF Alone
    <3>2. CASE y = x \/ z = x
      BY <1>2, <2>7, <3>2
    <3> QED
      BY <3>1, <3>2
  <2>9. faults' = 0 =>
          \A r \in RunningRuns' : \E q \in Procs : run'[q] = r /\ pc'[q] \in InCycle
    BY <1>1, <2>1 DEF Alone, RunningRuns, InCycle
  <2>10. \A q \in Procs : pc'[q] # "upsert"
    BY <1>1, <2>2 DEF Scanning
  <2>11. \A q \in Procs, g \in Files :
           pc'[q] \in {"discover", "upsert"} /\ snap'[q][g] # 0 => snap'[q][g] >= fingerprint'[g]
    BY <2>2, <2>5 DEF Scanning
  <2>12. \A r, s \in RunningRuns' : r = s
    BY <1>1, <2>1 DEF Alone, RunningRuns
  <2> QED
    BY <2>6, <2>8, <2>9, <2>10, <2>11, <2>12 DEF Alone
<1> QED
  BY <1>3, <1>4 DEF Serial

LEMMA FinishSerial ==
    ASSUME IInv, Serial, NEW p \in Procs, FinishRun(p)
    PROVE  Serial'
<1>1. /\ UNCHANGED <<fingerprint, rows, run, snap, found, item, overlapped, faults>>
      /\ runs' = [runs EXCEPT ![run[p]] = "ended"] /\ pc[p] = "discover" /\ pc'[p] = "list"
      /\ \A q \in Procs \ {p} : pc'[q] = pc[q]
  BY DEF FinishRun, locals, history, Goto, IInv, TypeOK
<1>2. run[p] \in Runs
  BY <1>1 DEF IInv, Control, Scanning
<1>3. RunsRun'
  <2> SUFFICES ASSUME NEW q \in Procs, pc'[q] \in Scanning
               PROVE  runs'[run[q]] = "running"
    BY <1>1 DEF RunsRun
  <2>1. q # p /\ pc[q] \in Scanning
    BY <1>1 DEF Scanning
  <2>2. run[q] # run[p]
    BY <1>1, <2>1 DEF IInv, Unrecorded, Scanning
  <2>3. run[q] \in Runs /\ runs[run[q]] = "running"
    BY <2>1 DEF IInv, Control, Serial, RunsRun
  <2> QED
    BY <1>1, <2>2, <2>3 DEF IInv, TypeOK
<1>4. ASSUME ~overlapped'
      PROVE  Alone'
  <2>1. Alone
    BY <1>1, <1>4 DEF Serial
  <2>2. RunningRuns' = RunningRuns \ {run[p]}
    BY <1>1, <1>2 DEF RunningRuns, IInv, TypeOK
  <2>3. faults' = 0 =>
          \A r \in RunningRuns' : \E q \in Procs : run'[q] = r /\ pc'[q] \in InCycle
    BY <1>1, <2>1, <2>2 DEF Alone
  <2>4. \A q \in Procs : pc'[q] \in {"discover", "upsert"} => pc'[q] = pc[q]
    BY <1>1
  <2> QED
    BY <1>1, <2>1, <2>2, <2>3, <2>4 DEF Alone, Ingests
<1> QED
  BY <1>3, <1>4 DEF Serial

LEMMA NextSerial ==
    ASSUME IInv, IInv', Serial, [Next]_vars
    PROVE  Serial'
<1>1. ASSUME NEW p \in Procs, Refused(p) \/ Raise(p)
      PROVE  Serial'
  <2>1. /\ Forget({p}) /\ UNCHANGED <<runs, fingerprint, rows, overlapped>>
        /\ pc[p] \in InCycle => faults' # 0 /\ faults' # faults
        /\ faults' = faults \/ faults' = faults + 1
    BY <1>1 DEF Refused, Raise, Unwind, database, history, InCycle, IInv, TypeOK
  <2>2. pc'[p] \in {"idle", "stopped"} /\ \A q \in Procs \ {p} : pc'[q] = pc[q]
    BY <1>1 DEF Refused, Raise, Unwind, Goto, IInv, TypeOK
  <2>3. faults' = 0 => faults = 0
    BY <2>1 DEF IInv, TypeOK
  <2> QED
    BY <2>1, <2>2, <2>3, SerialStays DEF Forget, Scanning, Ingests
<1>2. ASSUME NEW p \in Procs, Collide(p)
      PROVE  Serial'
  <2>1. /\ Forget({p}) /\ UNCHANGED <<runs, fingerprint, rows, overlapped, faults>>
        /\ pc[p] = "upsert" /\ found[p] # fingerprint[FileOf(item[p])]
    BY <1>2 DEF Collide, Unwind, database, history
  <2>2. pc'[p] \in {"idle", "stopped"} /\ \A q \in Procs \ {p} : pc'[q] = pc[q]
    BY <1>2 DEF Collide, Unwind, Goto, IInv, TypeOK
  <2>3. overlapped'
    BY <2>1 DEF Serial, Alone
  <2>4. RunsRun'
    BY <2>1, <2>2 DEF Serial, RunsRun, Forget, Scanning
  <2> QED
    BY <2>3, <2>4 DEF Serial
<1>3. ASSUME NEW p \in Procs, StartRun(p)
      PROVE  Serial'
  <2>1. UNCHANGED <<runs, fingerprint, rows, overlapped, faults, locals>>
    BY <1>3 DEF StartRun, database, history
  <2>2. pc[p] = "acquire" /\ pc'[p] = "insert" /\ \A q \in Procs \ {p} : pc'[q] = pc[q]
    BY <1>3 DEF StartRun, Goto, IInv, TypeOK
  <2> QED
    BY <2>1, <2>2, SerialStays DEF locals, Scanning, InCycle, Ingests
<1>4. ASSUME NEW p \in Procs, TriggerScan(p) \/ BeginCycle(p) \/ Execution(p)
      PROVE  Serial'
  <2>1. /\ UNCHANGED <<runs, fingerprint, overlapped, faults>>
        /\ pc[p] \notin InCycle /\ pc'[p] \notin InCycle
        /\ \A q \in Procs \ {p} : /\ pc'[q] = pc[q] /\ run'[q] = run[q] /\ snap'[q] = snap[q]
                                  /\ found'[q] = found[q] /\ item'[q] = item[q]
    <3> USE DEF Goto, InCycle, IInv, TypeOK
    <3>1. CASE TriggerScan(p)
      BY <3>1 DEF TriggerScan, database, history, locals
    <3>2. CASE BeginCycle(p)
      BY <3>2 DEF BeginCycle, database, history
    <3>3. CASE ListRun(p)
      BY <3>3 DEF ListRun, database, history
    <3>4. CASE ReadFile(p)
      BY <3>4 DEF ReadFile
    <3>5. CASE WriteSummary(p) \/ PersistMemory(p)
      BY <3>5 DEF WriteSummary, PersistMemory, database, history, locals
    <3>6. CASE Complete(p) \/ Fail(p)
      BY <3>6 DEF Complete, Fail, Settle, Executing, history
    <3>7. CASE EndFiles(p)
      BY <3>7 DEF EndFiles, Forget, database, history
    <3> QED
      BY <1>4, <3>1, <3>2, <3>3, <3>4, <3>5, <3>6, <3>7 DEF Execution
  <2>2. \A x \in FileRuns : Ingests(x)' => Ingests(x) /\ rows'[x].cause = rows[x].cause
    <3>1. CASE \/ TriggerScan(p) \/ BeginCycle(p) \/ ListRun(p)
               \/ WriteSummary(p) \/ PersistMemory(p) \/ EndFiles(p)
      BY <3>1 DEF TriggerScan, BeginCycle, ListRun, WriteSummary, PersistMemory, EndFiles,
                  database, Ingests
    <3>2. CASE ReadFile(p)
      <4>1. PICK x \in todo[p] : rows' = [rows EXCEPT ![x].status = "running"]
        BY <3>2 DEF ReadFile
      <4>2. x \in FileRuns /\ Ingests(x)
        BY DEF IInv, TypeOK, Unrecorded, Recording
      <4> QED
        BY <4>1, <4>2 DEF IInv, TypeOK, Ingests
    <3>3. CASE Complete(p) \/ Fail(p)
      <4>1. PICK s \in FileStatuses : rows' = [rows EXCEPT ![item[p]].status = s]
        BY <3>3 DEF Complete, Fail, Settle, FileStatuses
      <4>2. item[p] \in FileRuns /\ Ingests(item[p])
        BY <3>3 DEF Complete, Fail, Executing, IInv, Control, Unrecorded, Recording
      <4> QED
        BY <4>1, <4>2 DEF IInv, TypeOK, Ingests
    <3> QED
      BY <1>4, <3>1, <3>2, <3>3 DEF Execution
  <2>3. \A q \in Procs : pc'[q] \in InCycle \/ pc[q] \in InCycle => q # p
    BY <2>1
  <2>4. Scanning \subseteq InCycle
    BY DEF Scanning, InCycle
  <2> QED
    BY <2>1, <2>2, <2>3, <2>4, SerialStays
<1>5. CASE ApiStops
  <2>1. /\ Forget(Clients) /\ UNCHANGED <<runs, fingerprint, rows, overlapped>>
        /\ faults' # 0
    BY <1>5 DEF ApiStops, database, IInv, TypeOK
  <2>2. \A q \in Procs : IF q \in Clients THEN pc'[q] = "idle" ELSE pc'[q] = pc[q]
    BY <1>5 DEF ApiStops
  <2> QED
    BY <2>1, <2>2, SerialStays DEF Forget, Scanning, Ingests
<1>6. CASE Restart
  <2>1. UNCHANGED <<runs, fingerprint, rows, overlapped, faults, locals>>
    BY <1>6 DEF Restart, database, history
  <2>2. \A q \in Procs : pc'[q] = pc[q] \/ (pc[q] = "stopped" /\ pc'[q] = "idle")
    BY <1>6 DEF Restart, Goto, IInv, TypeOK
  <2> QED
    BY <2>1, <2>2, SerialStays DEF locals, Scanning, InCycle, Ingests
<1>7. CASE UNCHANGED vars \/ \E f \in Files : Edit(f)
  BY <1>7, SerialStays DEF Edit, vars, database, locals, history, Ingests
<1> QED
  BY <1>1, <1>2, <1>3, <1>4, <1>5, <1>6, <1>7,
     InsertSerial, ScanSerial, UpsertSerial, FinishSerial DEF Next, Cycle

\* start_run: as long as it finds the run of the other process, a change is queued
\* by one run, across stops of either process.
THEOREM QueuedOnce == Spec => []ChangeQueuedOnce
<1>1. Init => Serial
  BY InitSerial
<1>2. IInv /\ IInv' /\ Serial /\ [Next]_vars => Serial'
  BY NextSerial
<1>3. Serial => ChangeQueuedOnce
  BY DEF Serial, Alone, ChangeQueuedOnce
<1> QED
  BY <1>1, <1>2, <1>3, Invariant, PTL DEF Spec

\* run_cycle: without stops, and with runs apart, every running run has a thread
\* that will finish it.
THEOREM NoOrphans == Spec => []NoOrphanedRun
<1>1. Init => Serial
  BY InitSerial
<1>2. IInv /\ IInv' /\ Serial /\ [Next]_vars => Serial'
  BY NextSerial
<1>3. Serial => NoOrphanedRun
  BY DEF Serial, Alone, NoOrphanedRun
<1> QED
  BY <1>1, <1>2, <1>3, Invariant, PTL DEF Spec
-----------------------------------------------------------------------------
(* The note of a file nobody executed twice at a time.                     *)

\* Whoever executes a file that is not contended is alone with it, and what it has
\* read is at least as new as the note
Noting ==
    /\ \A f \in Files : note[f] <= disk[f]
    /\ \A p \in Procs : Executing(p) => content[p] <= disk[FileOf(item[p])]
    /\ \A p, q \in Procs :
         Executing(p) /\ Executing(q) /\ p # q /\ FileOf(item[p]) = FileOf(item[q])
         => FileOf(item[p]) \in contended
    /\ \A p \in Procs :
         pc[p] = "store" /\ FileOf(item[p]) \notin contended => note[FileOf(item[p])] <= content[p]

LEMMA InitNoting == Init => Noting
BY RunsAssumption DEF Init, Noting, Executing, NoSnap

LEMMA ExecutedFile == ASSUME IInv, NEW p \in Procs, Executing(p) PROVE FileOf(item[p]) \in Files
BY FileRunParts DEF IInv, Control, Executing

\* A step that writes no note and begins no execution
LEMMA NotingStays ==
    ASSUME IInv, IInv', Noting, note' = note, contended' = contended,
           \A f \in Files : disk'[f] >= disk[f],
           \A q \in Procs : Executing(q)' =>
               /\ Executing(q) /\ (pc'[q] = "store" => pc[q] = "store")
               /\ item'[q] = item[q] /\ content'[q] = content[q]
    PROVE  Noting'
<1>1. /\ \A f \in Files : disk[f] \in Nat /\ disk'[f] \in Nat /\ note[f] \in Nat
      /\ \A p \in Procs : content[p] \in Nat
  BY RunsAssumption DEF IInv, TypeOK, Versions
<1>2. \A f \in Files : note'[f] <= disk'[f]
  BY <1>1 DEF Noting
<1>3. \A p \in Procs : Executing(p)' => content'[p] <= disk'[FileOf(item'[p])]
  BY <1>1, ExecutedFile DEF Noting
<1>4. \A p \in Procs : pc'[p] = "store" => Executing(p)'
  BY DEF Executing
<1> QED
  BY <1>2, <1>3, <1>4 DEF Noting

LEMMA ReadNoting ==
    ASSUME IInv, IInv', Noting, NEW p \in Procs, ReadFile(p)
    PROVE  Noting'
<1> USE DEF Goto
<1>1. PICK x \in todo[p] :
        /\ item' = [item EXCEPT ![p] = x]
        /\ content' = [content EXCEPT ![p] = disk[FileOf(x)]]
        /\ contended' = IF \E q \in Procs : Executing(q) /\ FileOf(item[q]) = FileOf(x)
                        THEN contended \cup {FileOf(x)} ELSE contended
  BY DEF ReadFile
<1>2. x \in FileRuns /\ FileOf(x) \in Files
  BY FileRunParts DEF IInv, TypeOK
<1>3. /\ disk' = disk /\ note' = note /\ contended \subseteq contended'
      /\ ~Executing(p) /\ pc'[p] = "store" /\ item'[p] = x /\ content'[p] = disk[FileOf(x)]
      /\ \A q \in Procs \ {p} :
           pc'[q] = pc[q] /\ item'[q] = item[q] /\ content'[q] = content[q]
  BY <1>1, <1>2 DEF ReadFile, Executing, stores, IInv, TypeOK
<1>4. disk[FileOf(x)] \in Nat
  BY <1>2, RunsAssumption DEF IInv, TypeOK, Versions
<1>5. \A q \in Procs : Executing(q)' => content'[q] <= disk[FileOf(item'[q])]
  BY <1>3, <1>4 DEF Noting, Executing
<1>6. \A q \in Procs \ {p} : Executing(q)' /\ FileOf(item'[q]) = FileOf(x) => FileOf(x) \in contended'
  BY <1>1, <1>3 DEF Executing
<1>7. \A q, r \in Procs :
        Executing(q)' /\ Executing(r)' /\ q # r /\ FileOf(item'[q]) = FileOf(item'[r])
        => FileOf(item'[q]) \in contended'
  <2> SUFFICES ASSUME NEW q \in Procs, NEW r \in Procs, Executing(q)', Executing(r)', q # r,
                      FileOf(item'[q]) = FileOf(item'[r])
               PROVE  FileOf(item'[q]) \in contended'
    OBVIOUS
  <2>1. CASE q # p /\ r # p
    BY <1>3, <2>1 DEF Noting, Executing
  <2>2. CASE q = p \/ r = p
    BY <1>3, <1>6, <2>2
  <2> QED
    BY <2>1, <2>2
<1>8. \A q \in Procs : pc'[q] = "store" /\ FileOf(item'[q]) \notin contended'
        => note'[FileOf(item'[q])] <= content'[q]
  BY <1>2, <1>3 DEF Noting
<1> QED
  BY <1>3, <1>5, <1>7, <1>8 DEF Noting

LEMMA WriteNoting ==
    ASSUME IInv, IInv', Noting, NEW p \in Procs, WriteSummary(p)
    PROVE  Noting'
<1> DEFINE f == FileOf(item[p])
<1>1. /\ UNCHANGED <<disk, contended, item, content>> /\ note' = [note EXCEPT ![f] = content[p]]
      /\ pc[p] = "store" /\ pc'[p] = "persist" /\ \A q \in Procs \ {p} : pc'[q] = pc[q]
  BY DEF WriteSummary, Goto, locals, history, IInv, TypeOK
<1>2. Executing(p) /\ f \in Files /\ content[p] <= disk[f]
  BY <1>1, ExecutedFile DEF Noting, Executing
<1>3. \A g \in Files : note'[g] <= disk[g]
  BY <1>1, <1>2 DEF Noting, IInv, TypeOK
<1>4. \A q \in Procs : Executing(q)' => Executing(q)
  BY <1>1 DEF Executing
<1>5. ASSUME NEW q \in Procs, pc'[q] = "store", FileOf(item[q]) \notin contended
      PROVE  note'[FileOf(item[q])] <= content[q]
  <2>1. q # p /\ pc[q] = "store" /\ Executing(q) /\ FileOf(item[q]) \in Files
    BY <1>1, <1>5, ExecutedFile DEF Executing
  <2>2. FileOf(item[q]) # f
    BY <1>2, <1>5, <2>1 DEF Noting
  <2>3. note'[FileOf(item[q])] = note[FileOf(item[q])]
    BY <1>1, <2>1, <2>2 DEF IInv, TypeOK
  <2> QED
    BY <1>5, <2>1, <2>3 DEF Noting
<1> QED
  BY <1>1, <1>3, <1>4, <1>5 DEF Noting

LEMMA NextNoting ==
    ASSUME IInv, IInv', Noting, [Next]_vars
    PROVE  Noting'
<1>0. \A f \in Files : disk[f] \in Nat
  BY RunsAssumption DEF IInv, TypeOK, Versions
<1>1. ASSUME NEW p \in Procs, TriggerScan(p) \/ BeginCycle(p) \/ Cycle(p) \/ Execution(p) \/ Raise(p),
             ~ReadFile(p), ~WriteSummary(p)
      PROVE  Noting'
  <2>1. UNCHANGED <<disk, note, contended>>
    BY <1>1 DEF TriggerScan, BeginCycle, Cycle, Execution, Raise, StartRun, Refused, InsertRun, Scan,
                FindFile, QueueFile, SkipFile, Collide, FinishRun, Upserted, ListRun, PersistMemory,
                Complete, Fail, Settle, EndFiles, stores, history
  <2>2. /\ \A q \in Procs \ {p} : /\ pc'[q] = pc[q] /\ item'[q] = item[q]
                                  /\ content'[q] = content[q]
        /\ \/ ~Executing(p)'
           \/ /\ Executing(p) /\ pc'[p] = "finish"
              /\ item' = item /\ content' = content
    <3> USE DEF Goto, Executing, Forget, IInv, TypeOK
    <3>1. CASE TriggerScan(p) \/ BeginCycle(p) \/ Raise(p)
      BY <3>1 DEF TriggerScan, BeginCycle, Raise, Unwind, locals
    <3>2. CASE StartRun(p) \/ Refused(p) \/ InsertRun(p) \/ Scan(p)
      BY <3>2 DEF StartRun, Refused, InsertRun, Scan, Unwind, locals
    <3>3. CASE FindFile(p) \/ Collide(p) \/ FinishRun(p)
      BY <3>3 DEF FindFile, Collide, FinishRun, Unwind, locals
    <3>4. CASE QueueFile(p) \/ SkipFile(p)
      BY <3>4 DEF QueueFile, SkipFile, Upserted
    <3>5. CASE ListRun(p) \/ PersistMemory(p) \/ EndFiles(p)
      BY <3>5 DEF ListRun, PersistMemory, EndFiles, locals
    <3>6. CASE Complete(p) \/ Fail(p)
      BY <3>6 DEF Complete, Fail, Settle
    <3> QED
      BY <1>1, <3>1, <3>2, <3>3, <3>4, <3>5, <3>6 DEF Cycle, Execution
  <2> QED
    BY <1>0, <2>1, <2>2, NotingStays DEF Executing
<1>2. CASE ApiStops \/ Restart
  <2>1. UNCHANGED <<disk, note, contended>>
    BY <1>2 DEF ApiStops, Restart, stores, history
  <2>2. \A q \in Procs : pc'[q] = "idle" \/ (pc'[q] = pc[q] /\ item'[q] = item[q] /\ content'[q] = content[q])
    BY <1>2 DEF ApiStops, Restart, Goto, Forget, locals, IInv, TypeOK
  <2> QED
    BY <1>0, <2>1, <2>2, NotingStays DEF Executing
<1>3. ASSUME NEW f \in Files, Edit(f)
      PROVE  Noting'
  <2>1. \A g \in Files : disk'[g] >= disk[g]
    BY <1>0, <1>3 DEF Edit, IInv, TypeOK
  <2> QED
    BY <1>3, <2>1, NotingStays DEF Edit, locals, history, Executing
<1>4. CASE UNCHANGED vars
  BY <1>0, <1>4, NotingStays DEF vars, stores, locals, history, Executing
<1> QED
  BY <1>1, <1>2, <1>3, <1>4, ReadNoting, WriteNoting DEF Next

\* write_summary: the note of a file goes back only when two threads executed file
\* runs of that file at once, whatever is edited, stopped or retried.
THEOREM NoteForward == Spec => NoteNeverGoesBack
<1>1. Init => Noting
  BY InitNoting
<1>2. IInv /\ IInv' /\ Noting /\ [Next]_vars => Noting'
  BY NextNoting
<1>3. IInv /\ Noting /\ [Next]_vars => [\A f \in Files : note'[f] < note[f] => f \in contended]_vars
  <2> SUFFICES ASSUME IInv, Noting, Next, NEW f \in Files, note'[f] < note[f]
               PROVE  f \in contended
    OBVIOUS
  <2>1. note[f] \in Nat
    BY RunsAssumption DEF IInv, TypeOK, Versions
  <2>2. note' # note
    BY <2>1
  <2>3. PICK p \in Procs : WriteSummary(p)
    BY <2>2 DEF Next, TriggerScan, BeginCycle, Cycle, Execution, Raise, StartRun, Refused, InsertRun,
                Scan, FindFile, QueueFile, SkipFile, Collide, FinishRun, Upserted, ListRun, ReadFile,
                PersistMemory, Complete, Fail, Settle, EndFiles, ApiStops, Restart, Edit, stores
  <2>4. f = FileOf(item[p]) /\ note'[f] = content[p] /\ pc[p] = "store"
    BY <2>1, <2>3 DEF WriteSummary, IInv, TypeOK
  <2>5. content[p] \in Nat
    BY RunsAssumption DEF IInv, TypeOK, Versions
  <2> QED
    BY <2>1, <2>4, <2>5 DEF Noting
<1> QED
  BY <1>1, <1>2, <1>3, Invariant, PTL DEF Spec, NoteNeverGoesBack
=============================================================================
