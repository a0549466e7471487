-------------------------- MODULE FileSerialProofs ---------------------------
(***************************************************************************)
(* Operations that do not overlap: then the count of attempts bounds the   *)
(* executions of every file run, those an operator retried included, and   *)
(* file runs, queue and threads implement FileLifecycle.                   *)
(***************************************************************************)
EXTENDS FileOwnershipProofs

-----------------------------------------------------------------------------
(* The inductive invariant.                                                *)

\* At most one thread is inside an operation
Alone == \A p, q \in Procs : Busy(p) /\ Busy(q) => p = q

\* What f has used up and may still use
Spent(f) ==
    /\ executions[f] <= MaxAttempts
    /\ executions[f] <= retry[f].attempts + 1
    /\ retry[f].status = "queued" => HasAttempt(f)
    /\ ~Exists(f) => HasAttempt(f) /\ retry[f].status # "queued"

\* The stage of f when thread p starts its workflow, and while p runs it
Point(p, f) ==
    /\ pc[p] = "record" \/ (pc[p] \in {"read", "append"} /\ goal[p] = "start")
         => event[f].to \in {"discovered", "retrying"}
    /\ pc[p] = "fetch" \/ (pc[p] = "store" /\ goal[p] = "begin") => event[f].to = "retrying"
    /\ pc[p] = "workflow" \/ (pc[p] = "store" /\ goal[p] = "start")
         => event[f].to = "workflow_started"

\* Thread p may rely on what it knows of the file run in its hands ...
Handled(p, f) ==
    /\ Exists(f) /\ f \notin todo[p]
    /\ Starting(p) => HasAttempt(f) /\ retry[f].status # "queued"
    /\ pc[p] = "enqueue" => tally[p] = retry[f].attempts
    /\ pc[p] = "append" => seen[p] = event[f].to /\ Legal(event[f].to, Target[goal[p]].stage)
    /\ Point(p, f)

\* ... and of those in its list
InList(p, f) ==
    /\ Exists(f) /\ HasAttempt(f)
    /\ mode[p] = "run" =>
         /\ retry[f].status # "queued"
         /\ pc[p] # "scan" \/ row[f].status = "queued" => event[f].to = "discovered"

Sound(f) ==
    /\ Spent(f)
    /\ \A p \in Procs : cur[p] = f => Handled(p, f)
    /\ \A p \in Procs : f \in todo[p] => InList(p, f)

SInv ==
    /\ TypeOK /\ Control /\ Persisted
    /\ Alone
    /\ \A f \in Files : Sound(f)

-----------------------------------------------------------------------------
(* Frames.                                                                 *)

\* No thread but p is inside an operation
Solo(p) == \A q \in Procs \ {p} : ~Busy(q)

LEMMA NobodyElse ==
    ASSUME Control, NEW p \in Procs, Solo(p), Others(p)
    PROVE  \A q \in Procs \ {p} : cur'[q] \notin Files /\ todo'[q] = {}
BY DEF Control, Solo, Busy, Stopped, Working, Transitioning, Others

\* The one thread at work may do to f what leaves it sound in its own hands.
LEMMA SoloSound ==
    ASSUME NEW f \in Files, NEW p \in Procs, Control, Solo(p), Others(p), Spent(f)',
           cur'[p] = f => Handled(p, f)', f \in todo'[p] => InList(p, f)'
    PROVE  Sound(f)'
<1>1. \A q \in Procs \ {p} : cur'[q] \notin Files /\ todo'[q] = {}
  BY NobodyElse
<1> QED
  BY <1>1 DEF Sound

LEMMA SameSound ==
    ASSUME NEW f \in Files, NEW p \in Procs, Control, Solo(p), Others(p), Sound(f), SameRecords(f),
           cur'[p] = f => Handled(p, f)', f \in todo'[p] => InList(p, f)'
    PROVE  Sound(f)'
<1>1. Spent(f)'
  BY DEF Sound, Spent, SameRecords, HasAttempt, Exists
<1> QED
  BY <1>1, SoloSound

-----------------------------------------------------------------------------
(* Each step keeps each file run sound.                                    *)

LEMMA TransitionSound ==
    ASSUME TypeOK, Control, NEW f \in Files, Sound(f), NEW p \in Procs, Solo(p), Transition(p)
    PROVE  Sound(f)'
<1> USE FilesAssumption DEF TypeOK, Control, Goto, Enter, Leave, database, threads, history, Transitioning, Working
<1>1. CASE ReadStage(p)
  <2>1. Others(p) /\ SameRecords(f) /\ todo'[p] \subseteq todo[p]
    BY <1>1 DEF ReadStage, Others, SameRecords
  <2>2. cur'[p] = f => Handled(p, f)'
    BY <1>1, <2>1 DEF ReadStage, Sound, Handled, Point, SameRecords, HasAttempt, Exists, Starting
  <2>3. f \in todo'[p] => InList(p, f)'
    BY <1>1, <2>1 DEF ReadStage, Sound, InList, SameRecords, HasAttempt, Exists
  <2> QED
    BY <2>1, <2>2, <2>3, SameSound
<1>2. CASE Refuse(p)
  <2>1. Others(p) /\ SameRecords(f) /\ todo'[p] \subseteq todo[p]
    BY <1>2 DEF Refuse, Unwind, Others, SameRecords
  <2>2. cur'[p] = f => Handled(p, f)'
    BY <1>2, <2>1 DEF Refuse, Unwind, Sound, Handled, Point, SameRecords, HasAttempt, Exists, Starting
  <2>3. f \in todo'[p] => InList(p, f)'
    BY <1>2, <2>1 DEF Refuse, Unwind, Sound, InList, SameRecords, HasAttempt, Exists
  <2> QED
    BY <2>1, <2>2, <2>3, SameSound
<1>3. CASE AppendEvent(p)
  <2>1. /\ Others(p) /\ cur[p] \in Files /\ goal[p] \in Goals /\ pc[p] = "append"
        /\ pc'[p] = "store" /\ cur' = cur /\ goal' = goal /\ mode' = mode /\ todo' = todo
        /\ retry' = retry /\ row' = row
    BY <1>3 DEF AppendEvent, Others
  <2>2. CASE cur[p] # f
    <3>1. SameRecords(f)
      BY <1>3, <2>1, <2>2 DEF AppendEvent, SameRecords
    <3>2. f \in todo'[p] => InList(p, f)'
      BY <2>1, <3>1 DEF Sound, InList, SameRecords, HasAttempt, Exists
    <3> QED
      BY <2>1, <2>2, <3>1, <3>2, SameSound
  <2>3. CASE cur[p] = f
    <3>1. event'[f].to = Target[goal[p]].stage /\ Exists(f)'
      BY <1>3, <2>1, <2>3, TargetTypes DEF AppendEvent, Exists
    <3>2. Handled(p, f) /\ Spent(f)
      BY <2>3 DEF Sound
    <3>3. executions'[f] = IF goal[p] = "start" THEN executions[f] + 1 ELSE executions[f]
      BY <1>3, <2>1, <2>3 DEF AppendEvent
    <3>4. CASE goal[p] = "start"
      <4>1. HasAttempt(f) /\ retry[f].status # "queued"
        BY <2>1, <3>2, <3>4 DEF Handled, Starting
      <4>2. Spent(f)'
        BY <2>1, <3>1, <3>3, <3>4, <4>1, AttemptsAssumption DEF Spent, HasAttempt
      <4>3. Handled(p, f)'
        BY <2>1, <3>1, <3>2, <3>4 DEF Handled, Starting, Point, Target
      <4> QED
        BY <2>1, <2>3, <3>2, <4>2, <4>3, SoloSound DEF Handled
    <3>5. CASE goal[p] # "start"
      <4>1. Spent(f)'
        BY <2>1, <3>1, <3>2, <3>3, <3>5 DEF Spent, HasAttempt
      <4>2. Handled(p, f)'
        BY <2>1, <3>1, <3>2, <3>3, <3>5 DEF Handled, Starting, Point, Target, HasAttempt
      <4> QED
        BY <2>1, <2>3, <3>2, <4>1, <4>2, SoloSound DEF Handled
    <3> QED
      BY <3>4, <3>5
  <2> QED
    BY <2>2, <2>3
<1>4. CASE StoreRow(p)
  <2>1. Others(p) /\ SameRecords(f) /\ todo' = todo /\ pc[p] = "store" /\ goal[p] \in Goals
    BY <1>4 DEF StoreRow, Return, Others, SameRecords
  <2>2. ASSUME cur'[p] = f
        PROVE  Handled(p, f)'
    <3>1. /\ cur[p] = f
          /\ \/ pc'[p] = "fetch" /\ goal[p] = "begin"
             \/ pc'[p] = "workflow" /\ goal[p] = "start"
             \/ pc'[p] = "read" /\ goal'[p] \in {"complete", "poison"}
             \/ pc'[p] \in {"count", "settle_row"}
      BY <1>4, <2>2 DEF StoreRow, Return
    <3>2. Handled(p, f)
      BY <3>1 DEF Sound
    <3> QED
      BY <2>1, <3>1, <3>2 DEF Handled, Starting, Point, SameRecords, HasAttempt, Exists
  <2>3. ASSUME f \in todo'[p]
        PROVE  InList(p, f)'
    <3>1. f \in todo[p] /\ (mode'[p] = "run" => mode[p] = "run")
      BY <1>4, <2>1, <2>3 DEF StoreRow, Return
    <3> QED
      BY <2>1, <3>1 DEF Sound, InList, SameRecords, HasAttempt, Exists
  <2> QED
    BY <2>1, <2>2, <2>3, SameSound
<1> QED
  BY <1>1, <1>2, <1>3, <1>4 DEF Transition

LEMMA QueueRetrySound ==
    ASSUME TypeOK, Control, NEW f \in Files, Sound(f), NEW p \in Procs, Solo(p), QueueRetry(p)
    PROVE  Sound(f)'
<1> USE FilesAssumption DEF TypeOK, Control, Goto, Enter, Leave, database, threads, history, Transitioning, Working
<1>1. CASE CountAttempts(p)
  <2>1. Others(p) /\ SameRecords(f) /\ todo'[p] \subseteq todo[p]
    BY <1>1 DEF CountAttempts, Others, SameRecords
  <2>2. cur'[p] = f => Handled(p, f)'
    BY <1>1, <2>1 DEF CountAttempts, Sound, Handled, Point, SameRecords, HasAttempt, Exists, Starting
  <2>3. f \in todo'[p] => InList(p, f)'
    BY <1>1, <2>1 DEF CountAttempts, Sound, InList, SameRecords, HasAttempt, Exists
  <2> QED
    BY <2>1, <2>2, <2>3, SameSound
<1>2. CASE Enqueue(p)
  <2>1. /\ Others(p) /\ cur[p] \in Files /\ pc[p] = "enqueue" /\ pc'[p] = "read" /\ cur' = cur
        /\ goal'[p] \in {"poison", "requeue"} /\ mode' = mode /\ todo' = todo
        /\ event' = event /\ executions' = executions /\ row' = row
    BY <1>2 DEF Enqueue, Others
  <2>2. CASE cur[p] # f
    <3>1. SameRecords(f)
      BY <1>2, <2>1, <2>2 DEF Enqueue, SameRecords
    <3>2. f \in todo'[p] => InList(p, f)'
      BY <2>1, <3>1 DEF Sound, InList, SameRecords, HasAttempt, Exists
    <3> QED
      BY <2>1, <2>2, <3>1, <3>2, SameSound
  <2>3. CASE cur[p] = f
    <3>1. Handled(p, f) /\ Spent(f)
      BY <2>3 DEF Sound
    <3>2. /\ retry'[f].attempts = retry[f].attempts + 1
          /\ retry'[f].status = "queued" => retry[f].attempts + 1 < MaxAttempts
      BY <1>2, <2>1, <2>3, <3>1, AttemptsAssumption DEF Enqueue, Handled
    <3>3. retry[f].attempts \in Nat /\ executions[f] \in Nat
      OBVIOUS
    <3>4. Spent(f)'
      BY <2>1, <3>1, <3>2, <3>3 DEF Spent, HasAttempt, Exists, Handled
    <3>5. Handled(p, f)'
      BY <2>1, <3>1 DEF Handled, Starting, Point, Exists
    <3> QED
      BY <2>1, <2>3, <3>1, <3>4, <3>5, SoloSound DEF Handled
  <2> QED
    BY <2>2, <2>3
<1> QED
  BY <1>1, <1>2 DEF QueueRetry

LEMMA ExecuteSound ==
    ASSUME TypeOK, Control, NEW f \in Files, Sound(f), NEW p \in Procs, Solo(p),
           Execute(p) \/ RecordFails(p) \/ Crash(p) \/ TriggerScan(p) \/ Run(p)
    PROVE  Sound(f)'
<1> USE FilesAssumption DEF TypeOK, Control, Goto, Enter, Leave, database, threads, history, Transitioning, Working
<1>1. CASE Record(p)
  <2>1. Others(p) /\ SameRecords(f) /\ todo'[p] \subseteq todo[p]
    BY <1>1 DEF Record, Others, SameRecords
  <2>2. cur'[p] = f => Handled(p, f)'
    BY <1>1, <2>1 DEF Record, Sound, Handled, Point, SameRecords, HasAttempt, Exists, Starting
  <2>3. f \in todo'[p] => InList(p, f)'
    BY <1>1, <2>1 DEF Record, Sound, InList, SameRecords, HasAttempt, Exists
  <2> QED
    BY <2>1, <2>2, <2>3, SameSound
<1>2. CASE WorkflowSucceeds(p)
  <2>1. Others(p) /\ SameRecords(f) /\ todo'[p] \subseteq todo[p]
    BY <1>2 DEF WorkflowSucceeds, Others, SameRecords
  <2>2. cur'[p] = f => Handled(p, f)'
    BY <1>2, <2>1 DEF WorkflowSucceeds, Sound, Handled, Point, SameRecords, HasAttempt, Exists, Starting
  <2>3. f \in todo'[p] => InList(p, f)'
    BY <1>2, <2>1 DEF WorkflowSucceeds, Sound, InList, SameRecords, HasAttempt, Exists
  <2> QED
    BY <2>1, <2>2, <2>3, SameSound
<1>3. ASSUME NEW g \in {"fail", "fail_final"}, WorkflowFails(p, g)
      PROVE  Sound(f)'
  <2>1. Others(p) /\ SameRecords(f) /\ todo'[p] \subseteq todo[p]
    BY <1>3 DEF WorkflowFails, Others, SameRecords
  <2>2. cur'[p] = f => Handled(p, f)'
    BY <1>3, <2>1 DEF WorkflowFails, Sound, Handled, Point, SameRecords, HasAttempt, Exists, Starting
  <2>3. f \in todo'[p] => InList(p, f)'
    BY <1>3, <2>1 DEF WorkflowFails, Sound, InList, SameRecords, HasAttempt, Exists
  <2> QED
    BY <2>1, <2>2, <2>3, SameSound
<1>4. CASE RecordFails(p)
  <2>1. Others(p) /\ SameRecords(f) /\ todo'[p] \subseteq todo[p]
    BY <1>4 DEF RecordFails, Unwind, Others, SameRecords
  <2>2. cur'[p] = f => Handled(p, f)'
    BY <1>4, <2>1 DEF RecordFails, Unwind, Sound, Handled, Point, SameRecords, HasAttempt, Exists, Starting
  <2>3. f \in todo'[p] => InList(p, f)'
    BY <1>4, <2>1 DEF RecordFails, Unwind, Sound, InList, SameRecords, HasAttempt, Exists
  <2> QED
    BY <2>1, <2>2, <2>3, SameSound
<1>5. CASE Crash(p)
  <2>1. Others(p) /\ SameRecords(f) /\ todo'[p] \subseteq todo[p]
    BY <1>5 DEF Crash, Unwind, Others, SameRecords
  <2>2. cur'[p] = f => Handled(p, f)'
    BY <1>5, <2>1 DEF Crash, Unwind, Sound, Handled, Point, SameRecords, HasAttempt, Exists, Starting
  <2>3. f \in todo'[p] => InList(p, f)'
    BY <1>5, <2>1 DEF Crash, Unwind, Sound, InList, SameRecords, HasAttempt, Exists
  <2> QED
    BY <2>1, <2>2, <2>3, SameSound
<1>6. CASE TriggerScan(p)
  <2>1. Others(p) /\ SameRecords(f) /\ todo'[p] \subseteq todo[p]
    BY <1>6 DEF TriggerScan, Others, SameRecords
  <2>2. cur'[p] = f => Handled(p, f)'
    BY <1>6, <2>1 DEF TriggerScan, Sound, Handled, Point, SameRecords, HasAttempt, Exists, Starting
  <2>3. f \in todo'[p] => InList(p, f)'
    BY <1>6, <2>1 DEF TriggerScan, Sound, InList, SameRecords, HasAttempt, Exists
  <2> QED
    BY <2>1, <2>2, <2>3, SameSound
<1>7. CASE ListRun(p)
  <2>1. Others(p) /\ SameRecords(f) /\ todo'[p] \subseteq todo[p]
    BY <1>7 DEF ListRun, Others, SameRecords
  <2>2. cur'[p] = f => Handled(p, f)'
    BY <1>7, <2>1 DEF ListRun, Sound, Handled, Point, SameRecords, HasAttempt, Exists, Starting
  <2>3. f \in todo'[p] => InList(p, f)'
    BY <1>7, <2>1 DEF ListRun, Sound, InList, SameRecords, HasAttempt, Exists
  <2> QED
    BY <2>1, <2>2, <2>3, SameSound
<1>8. ASSUME NEW g \in Files, NextFile(p, g)
      PROVE  Sound(f)'
  <2>1. Others(p) /\ SameRecords(f) /\ todo'[p] \subseteq todo[p]
    BY <1>8 DEF NextFile, InList, Others, SameRecords
  <2>2. cur'[p] = f => Handled(p, f)'
    BY <1>8, <2>1 DEF NextFile, InList, Sound, Handled, Point, SameRecords, HasAttempt, Exists, Starting
  <2>3. f \in todo'[p] => InList(p, f)'
    BY <1>8, <2>1 DEF NextFile, InList, Sound, InList, SameRecords, HasAttempt, Exists
  <2> QED
    BY <2>1, <2>2, <2>3, SameSound
<1>9. CASE EndRun(p)
  <2>1. Others(p) /\ SameRecords(f) /\ todo'[p] \subseteq todo[p]
    BY <1>9 DEF EndRun, Others, SameRecords
  <2>2. cur'[p] = f => Handled(p, f)'
    BY <1>9, <2>1 DEF EndRun, Sound, Handled, Point, SameRecords, HasAttempt, Exists, Starting
  <2>3. f \in todo'[p] => InList(p, f)'
    BY <1>9, <2>1 DEF EndRun, Sound, InList, SameRecords, HasAttempt, Exists
  <2> QED
    BY <2>1, <2>2, <2>3, SameSound
<1> QED
  BY <1>1, <1>2, <1>3, <1>4, <1>5, <1>6, <1>7, <1>8, <1>9 DEF Execute, Run

LEMMA RetryPassSound ==
    ASSUME TypeOK, Control, NEW f \in Files, Sound(f), Solo(Worker), BeginCycle \/ RetryPass
    PROVE  Sound(f)'
<1> USE FilesAssumption DEF TypeOK, Control, Goto, Enter, Leave, database, threads, history, Transitioning, Working
<1>0. Worker \in Procs
  BY DEF Procs
<1>1. CASE BeginCycle
  <2>1. /\ Others(Worker) /\ SameRecords(f) /\ cur'[Worker] # f /\ mode'[Worker] = "retry"
        /\ todo'[Worker] = DueRetries
    BY <1>0, <1>1 DEF BeginCycle, Others, SameRecords
  <2>2. f \in todo'[Worker] => InList(Worker, f)'
    BY <2>1 DEF DueRetries, InList, Sound, Spent, SameRecords, HasAttempt, Exists
  <2> QED
    BY <1>0, <2>1, <2>2, SameSound
<1>2. CASE BeginScan
  <2>1. Others(Worker) /\ SameRecords(f) /\ todo'[Worker] \subseteq todo[Worker]
    BY <1>0, <1>2 DEF BeginScan, Others, SameRecords
  <2>2. cur'[Worker] = f => Handled(Worker, f)'
    BY <1>0, <1>2, <2>1 DEF BeginScan, Sound, Handled, Point, SameRecords, HasAttempt, Exists, Starting
  <2>3. f \in todo'[Worker] => InList(Worker, f)'
    BY <1>0, <1>2, <2>1 DEF BeginScan, Sound, InList, SameRecords, HasAttempt, Exists
  <2> QED
    BY <1>0, <2>1, <2>2, <2>3, SameSound
<1>3. ASSUME NEW g \in Files, BeginRetry(g)
      PROVE  Sound(f)'
  <2>1. /\ Others(Worker) /\ event' = event /\ executions' = executions
        /\ mode' = mode /\ mode[Worker] = "retry" /\ todo'[Worker] = todo[Worker] \ {g}
        /\ g \in todo[Worker]
        /\ cur'[Worker] = g /\ pc'[Worker] = "read" /\ goal'[Worker] = "begin"
        /\ retry'[f].attempts = retry[f].attempts
        /\ retry'[f].status = IF g = f THEN "in_progress" ELSE retry[f].status
    BY <1>0, <1>3 DEF BeginRetry, Others
  <2>2. Spent(f)'
    BY <2>1 DEF Sound, Spent, HasAttempt, Exists
  <2>3. cur'[Worker] = f => Handled(Worker, f)'
    BY <1>0, <2>1 DEF Sound, InList, Handled, Starting, Point, HasAttempt, Exists
  <2>4. f \in todo'[Worker] => InList(Worker, f)'
    BY <1>0, <2>1 DEF Sound, InList, HasAttempt, Exists
  <2> QED
    BY <1>0, <2>1, <2>2, <2>3, <2>4, SoloSound
<1>4. CASE Fetch(Worker)
  <2>1. Others(Worker) /\ SameRecords(f) /\ todo'[Worker] \subseteq todo[Worker]
    BY <1>0, <1>4 DEF Fetch, Others, SameRecords
  <2>2. cur'[Worker] = f => Handled(Worker, f)'
    BY <1>0, <1>4, <2>1 DEF Fetch, Sound, Handled, Point, SameRecords, HasAttempt, Exists, Starting
  <2>3. f \in todo'[Worker] => InList(Worker, f)'
    BY <1>0, <1>4, <2>1 DEF Fetch, Sound, InList, SameRecords, HasAttempt, Exists
  <2> QED
    BY <1>0, <2>1, <2>2, <2>3, SameSound
<1>5. CASE SettleReadsRow(Worker)
  <2>1. Others(Worker) /\ SameRecords(f) /\ todo'[Worker] \subseteq todo[Worker]
    BY <1>0, <1>5 DEF SettleReadsRow, Others, SameRecords
  <2>2. cur'[Worker] = f => Handled(Worker, f)'
    BY <1>0, <1>5, <2>1 DEF SettleReadsRow, Sound, Handled, Point, SameRecords, HasAttempt, Exists, Starting
  <2>3. f \in todo'[Worker] => InList(Worker, f)'
    BY <1>0, <1>5, <2>1 DEF SettleReadsRow, Sound, InList, SameRecords, HasAttempt, Exists
  <2> QED
    BY <1>0, <2>1, <2>2, <2>3, SameSound
<1>6. CASE SettleReadsItem(Worker)
  <2>1. Others(Worker) /\ SameRecords(f) /\ todo'[Worker] \subseteq todo[Worker]
    BY <1>0, <1>6 DEF SettleReadsItem, Others, SameRecords
  <2>2. cur'[Worker] = f => Handled(Worker, f)'
    BY <1>0, <1>6, <2>1 DEF SettleReadsItem, Sound, Handled, Point, SameRecords, HasAttempt, Exists, Starting
  <2>3. f \in todo'[Worker] => InList(Worker, f)'
    BY <1>0, <1>6, <2>1 DEF SettleReadsItem, Sound, InList, SameRecords, HasAttempt, Exists
  <2> QED
    BY <1>0, <2>1, <2>2, <2>3, SameSound
<1>7. CASE SettleMarks(Worker) \/ FailRetry(Worker)
  <2>1. /\ Others(Worker) /\ event' = event /\ executions' = executions /\ todo' = todo
        /\ mode'[Worker] # "run" /\ pc'[Worker] \in {"next", "count"}
        /\ cur'[Worker] \in {cur[Worker], NoFile}
        /\ retry'[f].attempts = retry[f].attempts
        /\ retry'[f].status = "queued" => retry[f].status = "queued"
    BY <1>0, <1>7 DEF SettleMarks, FailRetry, Verdict, Others
  <2>2. Spent(f)'
    BY <2>1 DEF Sound, Spent, HasAttempt, Exists
  <2>3. cur'[Worker] = f => Handled(Worker, f)'
    BY <1>0, <2>1 DEF Sound, Handled, Starting, Point, Exists
  <2>4. f \in todo'[Worker] => InList(Worker, f)'
    BY <1>0, <2>1 DEF Sound, InList, HasAttempt, Exists
  <2> QED
    BY <1>0, <2>1, <2>2, <2>3, <2>4, SoloSound
<1> QED
  BY <1>1, <1>2, <1>3, <1>4, <1>5, <1>6, <1>7 DEF RetryPass, Settle

LEMMA ScannedSound ==
    ASSUME TypeOK, Control, NEW f \in Files, Sound(f), NEW p \in Procs, Solo(p), Scanned(p)
    PROVE  Sound(f)'
<1> USE FilesAssumption DEF TypeOK, Control, Goto, Enter, Leave, database, threads, history, Transitioning, Working
<1>1. PICK g \in Files : (\E status \in {"queued", "skipped"} : Discover(p, g, status))
                           \/ DiscoverError(p, g)
  BY DEF Scanned
<1>2. /\ Others(p) /\ ~Exists(g) /\ cur' = cur /\ retry' = retry /\ pc' = pc /\ pc[p] = "scan"
      /\ todo'[p] = todo[p] \cup {g} /\ mode' = mode /\ executions' = executions
  BY <1>1 DEF Discover, DiscoverError, Others
<1>3. cur'[p] # f
  BY <1>2
<1>4. \/ event'[g].to = "discovered"
      \/ event'[g].to = "failed" /\ row'[g].status = "failed"
  <2>1. ASSUME NEW status \in {"queued", "skipped"}, Discover(p, g, status)
        PROVE  event'[g].to = "discovered"
    BY <2>1 DEF Discover
  <2>2. CASE DiscoverError(p, g)
    BY <2>2 DEF DiscoverError
  <2> QED
    BY <1>1, <2>1, <2>2
<1>5. CASE g # f
  <2>1. SameRecords(f) /\ row'[f] = row[f]
    BY <1>1, <1>2, <1>5 DEF Discover, DiscoverError, SameRecords
  <2>2. f \in todo'[p] => InList(p, f)'
    BY <1>2, <1>5, <2>1 DEF Sound, InList, SameRecords, HasAttempt, Exists
  <2> QED
    BY <1>2, <1>3, <2>1, <2>2, SameSound
<1>6. CASE g = f
  <2>1. HasAttempt(f) /\ retry[f].status # "queued" /\ Spent(f)
    BY <1>2, <1>6 DEF Sound, Spent
  <2>2. Exists(f)'
    BY <1>4, <1>6 DEF Exists, NoStage
  <2>3. Spent(f)' /\ InList(p, f)'
    BY <1>2, <1>4, <1>6, <2>1, <2>2 DEF Spent, InList, HasAttempt
  <2> QED
    BY <1>2, <1>3, <2>3, SoloSound
<1> QED
  BY <1>5, <1>6

LEMMA ManualRetrySound ==
    ASSUME TypeOK, Control, NEW f \in Files, Sound(f), NEW p \in Procs, Solo(p),
           NEW g \in Files, ManualRetry(p, g)
    PROVE  Sound(f)'
<1> USE FilesAssumption DEF TypeOK, Control, Goto, Enter, Leave, database, threads, history, Transitioning, Working
<1>1. /\ Others(p) /\ SameRecords(f) /\ todo'[p] = {} /\ pc'[p] = "count" /\ cur'[p] = g /\ Exists(g)
  BY DEF ManualRetry, Others, SameRecords
<1>2. cur'[p] = f => Handled(p, f)'
  BY <1>1 DEF Handled, Starting, Point, SameRecords, Exists
<1> QED
  BY <1>1, <1>2, SameSound

\* Nobody need be idle for these.
LEMMA EnvironmentSound ==
    ASSUME TypeOK, Control, NEW f \in Files, Sound(f),
           Restart \/ (\E g \in Files : BackoffElapses(g)) \/ UNCHANGED vars
    PROVE  Sound(f)'
<1> USE FilesAssumption DEF TypeOK, Control, Goto, Enter, Leave, database, threads, history, Transitioning, Working
<1>1. CASE Restart
  <2>1. /\ event' = event /\ row' = row /\ executions' = executions /\ cur' = cur /\ todo' = todo
        /\ goal' = goal /\ mode' = mode /\ seen' = seen /\ tally' = tally /\ retry' = retry
    BY <1>1 DEF Restart
  <2>2. \A q \in Procs : pc'[q] = pc[q] \/ (cur[q] # f /\ todo[q] = {})
    BY <1>1 DEF Restart, Stopped
  <2> QED
    BY <2>1, <2>2 DEF Sound, Spent, Handled, InList, Point, HasAttempt, Exists, Starting
<1>2. ASSUME NEW g \in Files, BackoffElapses(g)
      PROVE  Sound(f)'
  <2>1. /\ event' = event /\ row' = row /\ executions' = executions /\ cur' = cur /\ todo' = todo
        /\ goal' = goal /\ mode' = mode /\ seen' = seen /\ tally' = tally /\ pc' = pc
        /\ retry'[f].status = retry[f].status /\ retry'[f].attempts = retry[f].attempts
    BY <1>2 DEF BackoffElapses
  <2> QED
    BY <2>1 DEF Sound, Spent, Handled, InList, Point, HasAttempt, Exists, Starting
<1>3. CASE UNCHANGED vars
  BY <1>3 DEF vars, Sound, Spent, Handled, InList, Point, HasAttempt, Exists, Starting
<1> QED
  BY <1>1, <1>2, <1>3

\* A step of thread p leaves the positions of the others alone, and a step that is
\* no thread's makes nobody busy.
LEMMA OneMoves ==
    ASSUME TypeOK, NEW p \in Procs,
           Continue(p) \/ Scanned(p) \/ RecordFails(p) \/ Crash(p) \/ TriggerScan(p)
             \/ (\E f \in Files : ManualRetry(p, f))
    PROVE  \A q \in Procs \ {p} : pc'[q] = pc[q]
<1> USE DEF TypeOK, Goto, Enter, Leave, Unwind, threads
<1>1. CASE Transition(p) \/ QueueRetry(p)
  BY <1>1 DEF Transition, ReadStage, Refuse, AppendEvent, StoreRow, Return, QueueRetry,
              CountAttempts, Enqueue
<1>2. CASE Execute(p) \/ RecordFails(p) \/ Crash(p)
  BY <1>2 DEF Execute, Record, WorkflowSucceeds, WorkflowFails, RecordFails, Crash
<1>3. CASE Run(p) \/ Scanned(p) \/ TriggerScan(p) \/ \E f \in Files : ManualRetry(p, f)
  BY <1>3 DEF Run, ListRun, NextFile, EndRun, Scanned, Discover, DiscoverError, TriggerScan,
              ManualRetry
<1> QED
  BY <1>1, <1>2, <1>3 DEF Continue

LEMMA WorkerMoves ==
    ASSUME TypeOK, BeginCycle \/ RetryPass
    PROVE  \A q \in Procs \ {Worker} : pc'[q] = pc[q]
BY DEF TypeOK, Goto, Enter, Leave, threads, RetryPass, BeginRetry, Fetch, Settle, SettleReadsRow,
       SettleReadsItem, SettleMarks, FailRetry, BeginCycle, BeginScan

LEMMA SoloActor ==
    ASSUME ~Overlap, TypeOK, Control, Alone, NEW p \in Procs,
           Continue(p) \/ Scanned(p) \/ RecordFails(p) \/ Crash(p) \/ TriggerScan(p)
             \/ (\E f \in Files : ManualRetry(p, f))
    PROVE  Solo(p)
<1>1. Busy(p) \/ MayStart
  BY DEF Continue, Transition, ReadStage, Refuse, AppendEvent, StoreRow, QueueRetry,
         CountAttempts, Enqueue, Execute, Record, WorkflowSucceeds, WorkflowFails, RecordFails,
         Crash, Run, ListRun, NextFile, EndRun, Scanned, Discover, DiscoverError, TriggerScan,
         ManualRetry, Busy, Stopped
<1> QED
  BY <1>1 DEF Alone, Solo, MayStart

LEMMA SoloWorker ==
    ASSUME ~Overlap, TypeOK, Control, Alone, BeginCycle \/ RetryPass
    PROVE  Solo(Worker)
<1>1. Busy(Worker) \/ MayStart
  BY DEF RetryPass, BeginRetry, Fetch, Settle, SettleReadsRow, SettleReadsItem, SettleMarks,
         FailRetry, BeginCycle, BeginScan, Busy, Stopped
<1> QED
  BY <1>1 DEF Alone, Solo, MayStart, Procs

-----------------------------------------------------------------------------
(* The invariant and the budget.                                           *)

LEMMA InitSerial == Init => SInv
<1> SUFFICES ASSUME Init
             PROVE  SInv
  OBVIOUS
<1>1. TypeOK /\ Control
  BY InitTypes
<1>2. Persisted
  BY DEF Init, Persisted, CompletedIsPersisted, NoStage, Transitioning, Procs
<1>3. Alone
  BY DEF Init, Alone, Busy, Procs
<1>4. ASSUME NEW f \in Files
      PROVE  Sound(f)
  <2>1. /\ event[f].to = NoStage /\ retry[f].status = "none" /\ retry[f].attempts = 0
        /\ executions[f] = 0
        /\ \A p \in Procs : cur[p] # f /\ todo[p] = {}
    BY FilesAssumption DEF Init
  <2>2. Spent(f)
    BY <2>1, AttemptsAssumption DEF Spent, HasAttempt
  <2> QED
    BY <2>1, <2>2 DEF Sound
<1> QED
  BY <1>1, <1>2, <1>3, <1>4 DEF SInv

LEMMA NextSerial ==
    ASSUME ~Overlap, SInv, [Next]_vars
    PROVE  SInv'
<1>1. TypeOK' /\ Control' /\ Persisted' /\ TypeOK /\ Control /\ Alone
  BY NextTypes, NextPersists DEF SInv
<1>2. ASSUME NEW p \in Procs,
             Continue(p) \/ Scanned(p) \/ RecordFails(p) \/ Crash(p) \/ TriggerScan(p)
               \/ (\E f \in Files : ManualRetry(p, f))
      PROVE  SInv'
  <2>1. Solo(p)
    BY <1>1, <1>2, SoloActor
  <2>2. Alone'
    BY <1>1, <1>2, <2>1, OneMoves DEF Alone, Solo, Busy
  <2>3. ASSUME NEW f \in Files
        PROVE  Sound(f)'
    <3>1. Sound(f)
      BY DEF SInv
    <3>2. CASE Transition(p)
      BY <1>1, <2>1, <3>1, <3>2, TransitionSound
    <3>3. CASE QueueRetry(p)
      BY <1>1, <2>1, <3>1, <3>3, QueueRetrySound
    <3>4. CASE Execute(p) \/ RecordFails(p) \/ Crash(p) \/ TriggerScan(p) \/ Run(p)
      BY <1>1, <2>1, <3>1, <3>4, ExecuteSound
    <3>5. CASE Scanned(p)
      BY <1>1, <2>1, <3>1, <3>5, ScannedSound
    <3>6. ASSUME NEW g \in Files, ManualRetry(p, g)
          PROVE  Sound(f)'
      BY <1>1, <2>1, <3>1, <3>6, ManualRetrySound
    <3> QED
      BY <1>2, <3>2, <3>3, <3>4, <3>5, <3>6 DEF Continue
  <2> QED
    BY <1>1, <2>2, <2>3 DEF SInv
<1>3. CASE BeginCycle \/ RetryPass
  <2>1. Solo(Worker) /\ Worker \in Procs
    BY <1>1, <1>3, SoloWorker DEF Procs
  <2>2. Alone'
    BY <1>1, <1>3, <2>1, WorkerMoves DEF Alone, Solo, Busy
  <2>3. ASSUME NEW f \in Files
        PROVE  Sound(f)'
    BY <1>1, <1>3, <2>1, RetryPassSound DEF SInv
  <2> QED
    BY <1>1, <2>2, <2>3 DEF SInv
<1>4. CASE Restart \/ (\E g \in Files : BackoffElapses(g)) \/ UNCHANGED vars
  <2>1. \A q \in Procs : Busy(q)' => Busy(q)
    BY <1>1, <1>4 DEF Restart, Goto, BackoffElapses, vars, threads, Busy, TypeOK
  <2>2. Alone'
    BY <1>1, <2>1 DEF Alone
  <2>3. ASSUME NEW f \in Files
        PROVE  Sound(f)'
    BY <1>1, <1>4, EnvironmentSound DEF SInv
  <2> QED
    BY <1>1, <2>2, <2>3 DEF SInv
<1> QED
  BY <1>2, <1>3, <1>4 DEF Next

\* With operations one after the other, no file run at all starts its workflow more
\* than max_attempts times, manual retries, crashes and restarts included: every
\* way back to the workflow goes through the count.
THEOREM SerialBudget ==
    ASSUME ~Overlap
    PROVE  Spec => []ExecutionBudget
<1>1. SInv /\ [Next]_vars => SInv'
  BY NextSerial
<1>2. SInv => ExecutionBudget
  BY DEF SInv, Sound, Spent, ExecutionBudget
<1> QED
  BY InitSerial, <1>1, <1>2, PTL DEF Spec

-----------------------------------------------------------------------------
(* The refinement.                                                         *)

\* What Lifecycle!phase stands for
Phase == [f \in Files |-> PhaseOf(event[f].to)]
Seen == <<Phase, executions, memory>>

LEMMA Phases ==
    /\ PhaseOf(NoStage) = "absent"
    /\ \A s \in {"discovered", "failed", "retry_queued", "retrying"} : PhaseOf(s) = "pending"
    /\ \A s \in {"workflow_started", "workflow_completed"} : PhaseOf(s) = "active"
    /\ PhaseOf("completed") = "done" /\ PhaseOf("poisoned") = "dead"
BY DEF PhaseOf, NoStage

\* Only these transactions show
LEMMA Writers ==
    ASSUME [Next]_vars
    PROVE  \/ \E p \in Procs : AppendEvent(p) \/ Scanned(p) \/ Execute(p) \/ RecordFails(p)
           \/ UNCHANGED <<event, executions, memory>>
<1>1. ASSUME NEW p \in Procs, Transition(p) \/ QueueRetry(p) \/ Run(p)
      PROVE  AppendEvent(p) \/ UNCHANGED <<event, executions, memory>>
  BY <1>1 DEF Transition, ReadStage, Refuse, StoreRow, QueueRetry, CountAttempts, Enqueue,
              Run, ListRun, NextFile, EndRun, database, history
<1>2. ASSUME NEW p \in Procs, Crash(p) \/ TriggerScan(p) \/ \E f \in Files : ManualRetry(p, f)
      PROVE  UNCHANGED <<event, executions, memory>>
  BY <1>2 DEF Crash, TriggerScan, ManualRetry, database, history
<1>3. CASE BeginCycle \/ RetryPass \/ Restart \/ (\E f \in Files : BackoffElapses(f))
  BY <1>3 DEF BeginCycle, RetryPass, BeginScan, BeginRetry, Fetch, Settle, SettleReadsRow,
              SettleReadsItem, SettleMarks, FailRetry, Restart, BackoffElapses, database, history
<1>4. CASE UNCHANGED vars
  BY <1>4 DEF vars, database, history
<1> QED
  BY <1>1, <1>2, <1>3, <1>4 DEF Next, Continue

LEMMA AppendRefines ==
    ASSUME SInv, NEW p \in Procs, AppendEvent(p)
    PROVE  Lifecycle!Next \/ UNCHANGED Seen
<1> DEFINE f == cur[p]
           E == event[f].to
           T == Target[goal[p]].stage
<1>1. TypeOK /\ Control /\ Persisted
  BY DEF SInv
<1>2. pc[p] = "append" /\ f \in Files /\ goal[p] \in Goals
  BY <1>1 DEF AppendEvent, Control, Working, Transitioning
<1>3. Handled(p, f)
  BY <1>2 DEF SInv, Sound
<1>4. E # NoStage /\ E \in Stages /\ (E = T \/ <<E, T>> \in Allowed)
  BY <1>1, <1>2, <1>3 DEF Handled, Legal, Exists, TypeOK
<1>5. /\ event' = [event EXCEPT ![f] = [from |-> seen[p], to |-> T]]
      /\ memory' = memory
      /\ goal[p] # "start" => executions' = executions
      /\ goal[p] = "start" => executions' = [executions EXCEPT ![f] = @ + 1]
  BY DEF AppendEvent
<1>6. Phase' = [Phase EXCEPT ![f] = PhaseOf(T)]
  <2>1. \A g \in Files : event'[g].to = IF g = f THEN T ELSE event[g].to
    BY <1>1, <1>2, <1>5 DEF TypeOK
  <2> HIDE DEF f, T
  <2> QED
    BY <2>1 DEF Phase
<1>7. Phase[f] = PhaseOf(E)
  BY <1>2 DEF Phase
<1>8. PhaseOf(T) = PhaseOf(E) => Phase' = Phase
  BY <1>2, <1>6, <1>7 DEF Phase
<1>9. CASE goal[p] = "start"
  <2>1. E \in {"discovered", "retrying"} /\ HasAttempt(f)
    BY <1>2, <1>3, <1>9 DEF Handled, Point, Starting
  <2>2. Phase[f] = "pending" /\ PhaseOf(T) = "active"
    BY <1>7, <1>9, <2>1, Phases DEF Target
  <2>3. executions[f] < MaxAttempts
    BY <1>1, <1>2, <2>1, AttemptsAssumption DEF HasAttempt, TypeOK
  <2>4. Lifecycle!Start(f)
    BY <1>5, <1>6, <1>9, <2>2, <2>3 DEF Lifecycle!Start, Lifecycle!Moves, Phase
  <2> QED
    BY <1>2, <2>4 DEF Lifecycle!Next
<1>10. CASE goal[p] = "complete"
  <2>1. T = "completed" /\ E \in {"workflow_completed", "completed"}
    BY <1>4, <1>10 DEF Target, Allowed
  <2>2. CASE E = "completed"
    BY <1>5, <1>8, <1>10, <2>1, <2>2 DEF Seen
  <2>3. CASE E = "workflow_completed"
    <3>1. f \in memory
      BY <1>1, <1>2, <1>10 DEF Persisted, Transitioning
    <3>2. Lifecycle!Succeed(f)
      BY <1>5, <1>6, <1>7, <1>10, <2>1, <2>3, <3>1, Phases DEF Lifecycle!Succeed, Lifecycle!Moves, Phase
    <3> QED
      BY <1>2, <3>2 DEF Lifecycle!Next
  <2> QED
    BY <2>1, <2>2, <2>3
<1>11. CASE goal[p] \in {"fail", "fail_final", "requeue"}
  <2>1. /\ PhaseOf(T) = "pending"
        /\ E \in {"discovered", "failed", "retry_queued", "retrying",
                   "workflow_started", "workflow_completed"}
    BY <1>4, <1>11, Phases DEF Target, Allowed
  <2>2. CASE E \in {"workflow_started", "workflow_completed"}
    <3>1. Lifecycle!Fail(f)
      BY <1>5, <1>6, <1>7, <1>11, <2>1, <2>2, Phases DEF Lifecycle!Fail, Lifecycle!Moves, Phase
    <3> QED
      BY <1>2, <3>1 DEF Lifecycle!Next
  <2>3. CASE E \in {"discovered", "failed", "retry_queued", "retrying"}
    BY <1>5, <1>8, <1>11, <2>1, <2>3, Phases DEF Seen
  <2> QED
    BY <2>1, <2>2, <2>3
<1>12. CASE goal[p] = "poison"
  <2>1. T = "poisoned" /\ E \in {"discovered", "failed", "retry_queued", "retrying", "poisoned"}
    BY <1>4, <1>12 DEF Target, Allowed
  <2>2. CASE E = "poisoned"
    BY <1>5, <1>8, <1>12, <2>1, <2>2 DEF Seen
  <2>3. CASE E # "poisoned"
    <3>1. Lifecycle!GiveUp(f)
      BY <1>5, <1>6, <1>7, <1>12, <2>1, <2>3, Phases DEF Lifecycle!GiveUp, Lifecycle!Moves, Phase
    <3> QED
      BY <1>2, <3>1 DEF Lifecycle!Next
  <2> QED
    BY <2>2, <2>3
<1>13. CASE goal[p] \in {"begin", "finish"}
  <2>1. \/ T = "retrying" /\ E \in {"retry_queued", "retrying"}
        \/ T = "workflow_completed" /\ E \in {"workflow_started", "workflow_completed"}
    BY <1>4, <1>13 DEF Target, Allowed
  <2> QED
    BY <1>5, <1>8, <1>13, <2>1, Phases DEF Seen
<1> QED
  BY <1>2, <1>9, <1>10, <1>11, <1>12, <1>13, GoalNames

LEMMA ScanRefines ==
    ASSUME SInv, NEW p \in Procs, Scanned(p)
    PROVE  Lifecycle!Next
<1>1. TypeOK
  BY DEF SInv
<1>2. PICK f \in Files : (\E status \in {"queued", "skipped"} : Discover(p, f, status))
                           \/ DiscoverError(p, f)
  BY DEF Scanned
<1>3. PICK s \in {"discovered", "failed"} : event' = [event EXCEPT ![f] = [from |-> NoStage, to |-> s]]
  BY <1>2 DEF Discover, DiscoverError
<1>4. UNCHANGED <<executions, memory>> /\ event[f].to = NoStage
  BY <1>2 DEF Discover, DiscoverError, Exists, history
<1>5. Phase' = [Phase EXCEPT ![f] = "pending"]
  <2>1. \A g \in Files : event'[g].to = IF g = f THEN s ELSE event[g].to
    BY <1>1, <1>3 DEF TypeOK
  <2>2. PhaseOf(s) = "pending"
    BY Phases
  <2> QED
    BY <2>1, <2>2 DEF Phase
<1>6. Lifecycle!Appear(f)
  BY <1>4, <1>5, Phases DEF Lifecycle!Appear, Lifecycle!Moves, Phase
<1> QED
  BY <1>6 DEF Lifecycle!Next

LEMMA ExecuteRefines ==
    ASSUME SInv, NEW p \in Procs, Execute(p) \/ RecordFails(p)
    PROVE  Lifecycle!Next \/ UNCHANGED Seen
<1>1. TypeOK /\ Control
  BY DEF SInv
<1>2. /\ UNCHANGED <<event, executions>>
      /\ memory' = memory \/ (pc[p] = "workflow" /\ memory' = memory \cup {cur[p]})
  BY DEF Execute, Record, WorkflowSucceeds, WorkflowFails, RecordFails, database, history
<1>3. CASE memory' = memory
  BY <1>2, <1>3 DEF Seen, Phase
<1>4. CASE pc[p] = "workflow" /\ memory' = memory \cup {cur[p]}
  <2>1. cur[p] \in Files
    BY <1>1, <1>4 DEF Control, Working
  <2>2. event[cur[p]].to = "workflow_started"
    BY <1>4, <2>1 DEF SInv, Sound, Handled, Point
  <2>3. Phase' = Phase
    BY <1>2 DEF Phase
  <2>4. Lifecycle!Persist(cur[p])
    BY <1>2, <1>4, <2>1, <2>2, <2>3, Phases DEF Lifecycle!Persist, Phase
  <2> QED
    BY <2>1, <2>4 DEF Lifecycle!Next
<1> QED
  BY <1>2, <1>3, <1>4

\* With operations one after the other, queue, tables and threads implement
\* FileLifecycle: each file run is tried at most max_attempts times, ends once, and
\* ends well only after its memory was stored.
THEOREM SerialLifecycle ==
    ASSUME ~Overlap
    PROVE  Spec => ImplementsLifecycle
<1>1. Init => Lifecycle!Init
  BY Phases DEF Init, Lifecycle!Init
<1>2. SInv /\ [Next]_vars => [Lifecycle!Next]_Seen
  <2> SUFFICES ASSUME SInv, [Next]_vars
               PROVE  Lifecycle!Next \/ UNCHANGED Seen
    OBVIOUS
  <2>1. CASE UNCHANGED <<event, executions, memory>>
    BY <2>1 DEF Seen, Phase
  <2> QED
    BY <2>1, Writers, AppendRefines, ScanRefines, ExecuteRefines
<1>3. SInv /\ [Next]_vars => SInv'
  BY NextSerial
<1> QED
  BY <1>1, <1>2, <1>3, InitSerial, PTL DEF Spec, ImplementsLifecycle, Lifecycle!Spec, Lifecycle!vars, Seen, Phase

=============================================================================
