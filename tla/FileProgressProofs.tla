-------------------------- MODULE FileProgressProofs --------------------------
(***************************************************************************)
(* Theorems about FileProgress, for every set of file runs and of request  *)
(* threads and every max_attempts, with overlap, requests and crashes      *)
(* without bound on their order.                                           *)
(***************************************************************************)
EXTENDS FileProgress, TLAPS

-----------------------------------------------------------------------------
(* The inductive invariant.                                                *)

Working == {"record", "fetch", "workflow", "count", "enqueue", "settle_row",
            "settle_item", "settle_mark", "fail_retry"} \cup Transitioning

\* What the position of a thread says of its locals.
Control ==
    \A p \in Procs :
        /\ pc[p] \in Working <=> cur[p] \in Files
        /\ pc[p] \in Transitioning => goal[p] \in Goals
        /\ pc[p] \notin Transitioning => goal[p] # "requeue"
        /\ pc[p] \in {"fetch", "settle_row", "settle_item", "settle_mark", "fail_retry"}
             => mode[p] = "retry"
        /\ pc[p] \in Transitioning /\ goal[p] = "begin" => mode[p] = "retry"
        /\ mode[p] \in {"retry", "abandon"} => p = Worker
        /\ mode[p] \in {"idle", "manual"} => todo[p] = {}
        /\ pc[p] \in {"idle"} \cup Stopped <=> mode[p] = "idle"
        /\ pc[p] = "scan" => mode[p] = "run"

\* The memory is stored before the closing transitions begin.
Persisted ==
    /\ CompletedIsPersisted
    /\ \A p \in Procs :
         pc[p] \in Transitioning /\ goal[p] \in {"finish", "complete"} => cur[p] \in memory

\* The retry row is written before the transitions that need it.
Enqueued ==
    /\ RetryStageHasItem
    /\ \A p \in Procs :
         pc[p] \in Transitioning /\ goal[p] \in {"begin", "requeue"} => retry[cur[p]].status # "none"
    /\ \A p \in Procs, f \in Files :
         f \in todo[p] /\ mode[p] \in {"retry", "abandon"} => retry[f].status # "none"

-----------------------------------------------------------------------------
(* Facts about the constants of the module.                                *)

LEMMA GoalNames ==
    Goals = {"begin", "start", "finish", "complete", "fail", "fail_final", "poison", "requeue"}
BY DEF Goals, Target

LEMMA TargetTypes ==
    /\ \A g \in Goals : Target[g] \in [stage : Stages, status : Statuses]
    /\ \A g \in Goals : Target[g].stage # NoStage
    /\ \A g \in Goals : Target[g].stage = "completed" => g = "complete"
    /\ \A g \in Goals : Target[g].stage = "retry_queued" => g = "requeue"
    /\ \A g \in Goals : Target[g].stage = "retrying" => g = "begin"
BY DEF Goals, Target, Stages, Statuses, NoStage

-----------------------------------------------------------------------------
(* Types and control.                                                      *)

LEMMA InitTypes == Init => TypeOK /\ Control
BY FilesAssumption
   DEF Init, TypeOK, Control, Procs, PCs, Modes, Statuses, RetryStatuses, Stages, NoStage,
       Transitioning, Stopped, Working, Goals, Target

\* The locals of the threads, todo apart
LocalTypes ==
    /\ pc \in [Procs -> PCs] /\ goal \in [Procs -> Goals \cup {"none"}]
    /\ mode \in [Procs -> Modes] /\ cur \in [Procs -> Files \cup {NoFile}]
    /\ seen \in [Procs -> Stages \cup {NoStage}] /\ tally \in [Procs -> Nat]

LEMMA LeaveTypes ==
    ASSUME LocalTypes, NEW p \in Procs, NEW m \in Modes, NEW w \in PCs, Leave(p, m, w)
    PROVE  LocalTypes'
BY DEF LocalTypes, Leave, Goto

LEMMA EnterTypes ==
    ASSUME LocalTypes, NEW p \in Procs, NEW g \in Goals, Enter(p, g),
           UNCHANGED <<mode, cur, seen, tally>>
    PROVE  LocalTypes'
<1>1. "read" \in PCs
  BY DEF PCs, Transitioning
<1> QED
  BY <1>1 DEF LocalTypes, Enter, Goto

LEMMA ReturnTypes ==
    ASSUME LocalTypes, NEW p \in Procs, Return(p)
    PROVE  LocalTypes'
<1>1. {"retry", "run", "idle"} \subseteq Modes /\ {"next", "idle", "settle_row"} \subseteq PCs
  BY DEF Modes, PCs
<1>2. CASE Leave(p, "retry", "next") \/ Leave(p, "run", "next") \/ Leave(p, "idle", "idle")
  BY <1>1, <1>2, LeaveTypes
<1>3. CASE /\ Goto(p, "settle_row")
           /\ goal' = [goal EXCEPT ![p] = "none"]
           /\ UNCHANGED <<mode, cur, seen, tally>>
  BY <1>1, <1>3 DEF LocalTypes, Goto
<1> QED
  BY <1>2, <1>3 DEF Return

LEMMA TransitionTypes ==
    ASSUME TypeOK, Control, NEW p \in Procs, Transition(p)
    PROVE  TypeOK' /\ Control'
<1> USE FilesAssumption, GoalNames, TargetTypes
    DEF TypeOK, Control, Goto, Enter, Leave, database, threads, history,
        PCs, Modes, Transitioning, Stopped, Working
<1>1. CASE ReadStage(p)
  BY <1>1 DEF ReadStage
<1>2. CASE Refuse(p)
  BY <1>2 DEF Refuse, Unwind
<1>3. CASE AppendEvent(p)
  <2>1. cur[p] \in Files /\ goal[p] \in Goals
    BY <1>3 DEF AppendEvent
  <2>2. event' \in [Files -> [from : Stages \cup {NoStage}, to : Stages \cup {NoStage}]]
    BY <1>3, <2>1 DEF AppendEvent
  <2>3. executions' \in [Files -> Nat]
    BY <1>3, <2>1 DEF AppendEvent
  <2>4. TypeOK'
    BY <1>3, <2>2, <2>3 DEF AppendEvent
  <2>5. Control'
    BY <1>3, <2>1 DEF AppendEvent
  <2> QED
    BY <2>4, <2>5
<1>4. CASE StoreRow(p)
  <2>1. cur[p] \in Files /\ goal[p] \in Goals /\ pc[p] = "store"
    BY <1>4 DEF StoreRow
  <2>2. row' \in [Files -> [stage : Stages \cup {NoStage}, status : Statuses]]
    BY <1>4, <2>1 DEF StoreRow
  <2>3. LocalTypes'
    <3> USE DEF LocalTypes
    <3>1. CASE goal[p] \in {"begin", "start", "fail"}
      <4>1. PICK w \in {"fetch", "workflow", "count"} : Goto(p, w)
        BY <1>4, <3>1 DEF StoreRow
      <4>2. UNCHANGED <<mode, cur, goal, seen, tally>>
        BY <1>4, <3>1 DEF StoreRow
      <4> QED
        BY <4>1, <4>2
    <3>2. CASE goal[p] \in {"finish", "fail_final"}
      <4>1. PICK g \in {"complete", "poison"} : Enter(p, g) /\ UNCHANGED <<mode, cur, seen, tally>>
        BY <1>4, <3>2 DEF StoreRow
      <4>2. {"complete", "poison"} \subseteq Goals
        BY DEF Goals, Target
      <4> QED
        BY <4>1, <4>2, EnterTypes
    <3>3. CASE goal[p] \in {"complete", "poison", "requeue"}
      <4>1. Return(p)
        BY <1>4, <3>3 DEF StoreRow
      <4> QED
        BY <4>1, ReturnTypes
    <3> QED
      BY <2>1, <3>1, <3>2, <3>3
  <2>4. TypeOK'
    BY <1>4, <2>2, <2>3 DEF StoreRow, LocalTypes
  <2>5. ASSUME NEW q \in Procs, q # p
        PROVE  /\ pc'[q] = pc[q] /\ mode'[q] = mode[q] /\ cur'[q] = cur[q]
               /\ goal'[q] = goal[q] /\ todo'[q] = todo[q]
    BY <1>4, <2>5 DEF StoreRow, Return
  <2>6. \/ /\ pc'[p] \in {"fetch", "workflow", "count"}
           /\ goal'[p] = goal[p] /\ goal[p] # "requeue"
           /\ pc'[p] = "fetch" => goal[p] = "begin"
           /\ mode'[p] = mode[p] /\ cur'[p] = cur[p]
        \/ /\ pc'[p] = "read" /\ goal'[p] \in {"complete", "poison"}
           /\ mode'[p] = mode[p] /\ cur'[p] = cur[p]
        \/ /\ pc'[p] = "settle_row" /\ goal'[p] = "none"
           /\ mode'[p] = mode[p] /\ mode[p] = "retry" /\ cur'[p] = cur[p]
        \/ /\ pc'[p] = "next" /\ mode[p] = "abandon" /\ mode'[p] = "retry"
           /\ cur'[p] = NoFile /\ goal'[p] = "none"
        \/ /\ pc'[p] = "next" /\ mode[p] = "run" /\ mode'[p] = "run"
           /\ cur'[p] = NoFile /\ goal'[p] = "none"
        \/ /\ pc'[p] = "idle" /\ mode[p] = "manual" /\ mode'[p] = "idle"
           /\ cur'[p] = NoFile /\ goal'[p] = "none"
    BY <1>4, <2>1 DEF StoreRow, Return
  <2>7. todo' = todo
    BY <1>4 DEF StoreRow
  <2>8. Control'
    BY <1>4, <2>1, <2>5, <2>6, <2>7 DEF StoreRow
  <2> QED
    BY <2>4, <2>8
<1> QED
  BY <1>1, <1>2, <1>3, <1>4 DEF Transition

RetryRows == [status : RetryStatuses, attempts : Nat, due : BOOLEAN]

\* An update of one column of file_retry_queue
LEMMA RetryRowTypes ==
    ASSUME NEW rows \in [Files -> RetryRows], NEW f \in Files, NEW s \in RetryStatuses
    PROVE  [rows EXCEPT ![f].status = s] \in [Files -> RetryRows]
<1>1. [rows[f] EXCEPT !.status = s] \in RetryRows
  BY DEF RetryRows
<1> QED
  BY <1>1

LEMMA WorkTypes ==
    ASSUME TypeOK, Control, NEW p \in Procs,
           QueueRetry(p) \/ Execute(p) \/ Run(p) \/ RecordFails(p)
    PROVE  TypeOK' /\ Control'
<1> USE FilesAssumption, GoalNames
    DEF TypeOK, Control, Goto, Enter, Leave, database, threads, history,
        PCs, Modes, Transitioning, Stopped, Working
<1>1. CASE CountAttempts(p)
  BY <1>1 DEF CountAttempts
<1>2. CASE Enqueue(p)
  <2>1. cur[p] \in Files /\ tally[p] + 1 \in Nat
    BY <1>2 DEF Enqueue
  <2>2. retry' \in [Files -> [status : RetryStatuses, attempts : Nat, due : BOOLEAN]]
    BY <1>2, <2>1 DEF Enqueue, RetryStatuses
  <2>3. TypeOK'
    BY <1>2, <2>2 DEF Enqueue
  <2>4. Control'
    BY <1>2 DEF Enqueue
  <2> QED
    BY <2>3, <2>4
<1>3. CASE Record(p)
  BY <1>3 DEF Record
<1>4. CASE WorkflowSucceeds(p)
  BY <1>4 DEF WorkflowSucceeds
<1>5. ASSUME NEW g \in {"fail", "fail_final"}, WorkflowFails(p, g)
      PROVE  TypeOK' /\ Control'
  <2>1. cur[p] \in Files /\ g \in Goals
    BY <1>5 DEF WorkflowFails
  <2>2. memory' \in SUBSET Files
    BY <1>5, <2>1 DEF WorkflowFails
  <2>3. TypeOK'
    BY <1>5, <2>1, <2>2 DEF WorkflowFails
  <2>4. Control'
    BY <1>5, <2>1 DEF WorkflowFails
  <2> QED
    BY <2>3, <2>4
<1>6. CASE ListRun(p)
  BY <1>6 DEF ListRun
<1>7. ASSUME NEW f \in Files, NextFile(p, f)
      PROVE  TypeOK' /\ Control'
  BY <1>7 DEF NextFile
<1>8. CASE EndRun(p)
  BY <1>8 DEF EndRun
<1>9. CASE RecordFails(p)
  <2>1. cur[p] \in Files
    BY <1>9 DEF RecordFails
  <2>2. memory' \in SUBSET Files /\ faults' \in Nat
    BY <1>9, <2>1 DEF RecordFails
  <2>3. CASE mode[p] = "retry"
    <3>1. TypeOK'
      BY <1>9, <2>2, <2>3 DEF RecordFails
    <3>2. Control'
      BY <1>9, <2>1, <2>3 DEF RecordFails
    <3> QED
      BY <3>1, <3>2
  <2>4. CASE mode[p] # "retry"
    <3>1. Unwind(p, "crashed") /\ UNCHANGED <<event, row, retry, executions, touched, requests>>
      BY <1>9, <2>4 DEF RecordFails
    <3>2. TypeOK'
      BY <3>1, <2>2 DEF Unwind
    <3>3. Control'
      BY <3>1 DEF Unwind
    <3> QED
      BY <3>2, <3>3
  <2> QED
    BY <2>3, <2>4
<1> QED
  BY <1>1, <1>2, <1>3, <1>4, <1>5, <1>6, <1>7, <1>8, <1>9 DEF QueueRetry, Execute, Run

LEMMA RetryPassTypes ==
    ASSUME TypeOK, Control, BeginCycle \/ RetryPass \/ Restart
    PROVE  TypeOK' /\ Control'
<1> DEFINE p == Worker
<1> USE FilesAssumption, GoalNames
    DEF TypeOK, Control, Goto, Enter, Leave, database, threads, history,
        PCs, Modes, Transitioning, Stopped, Working
<1>0. Worker \in Procs
  BY DEF Procs
<1>1. CASE BeginCycle
  BY <1>0, <1>1 DEF BeginCycle, DueRetries
<1>2. CASE BeginScan
  BY <1>0, <1>2 DEF BeginScan
<1>3. ASSUME NEW f \in Files, BeginRetry(f)
      PROVE  TypeOK' /\ Control'
  <2>1. "in_progress" \in RetryStatuses
    BY DEF RetryStatuses
  <2>2. retry' \in [Files -> RetryRows]
    BY <1>3, <2>1, RetryRowTypes DEF BeginRetry, RetryRows
  <2>3. TypeOK'
    BY <1>0, <1>3, <2>2 DEF BeginRetry, RetryRows
  <2>4. Control'
    BY <1>0, <1>3 DEF BeginRetry
  <2> QED
    BY <2>3, <2>4
<1>4. CASE Fetch(Worker)
  BY <1>0, <1>4 DEF Fetch
<1>5. CASE SettleReadsRow(Worker)
  BY <1>0, <1>5 DEF SettleReadsRow
<1>6. CASE SettleReadsItem(Worker)
  <2>1. CASE Leave(Worker, "retry", "next") /\ UNCHANGED <<database, todo, history>>
    <3>1. TypeOK'
      BY <1>0, <2>1
    <3>2. Control'
      BY <1>0, <1>6, <2>1 DEF SettleReadsItem
    <3> QED
      BY <3>1, <3>2
  <2>2. CASE Goto(Worker, "settle_mark")
             /\ UNCHANGED <<database, todo, history, mode, cur, goal, seen, tally>>
    BY <1>0, <1>6, <2>2 DEF SettleReadsItem
  <2> QED
    BY <1>6, <2>1, <2>2 DEF SettleReadsItem
<1>7. CASE SettleMarks(Worker)
  <2>1. Verdict(seen[Worker]) \in RetryStatuses
    BY DEF Verdict, RetryStatuses
  <2>2. cur[Worker] \in Files
    BY <1>0, <1>7 DEF SettleMarks
  <2>3. retry' \in [Files -> RetryRows]
    BY <1>7, <2>1, <2>2, RetryRowTypes DEF SettleMarks, RetryRows
  <2>4. TypeOK'
    BY <1>0, <1>7, <2>3 DEF SettleMarks, RetryRows
  <2>5. Control'
    BY <1>0, <1>7 DEF SettleMarks
  <2> QED
    BY <2>4, <2>5
<1>8. CASE FailRetry(Worker)
  <2>1. "failed" \in RetryStatuses
    BY DEF RetryStatuses
  <2>2. cur[Worker] \in Files
    BY <1>0, <1>8 DEF FailRetry
  <2>3. retry' \in [Files -> RetryRows]
    BY <1>8, <2>1, <2>2, RetryRowTypes DEF FailRetry, RetryRows
  <2>4. TypeOK'
    BY <1>0, <1>8, <2>3 DEF FailRetry, RetryRows
  <2>5. Control'
    BY <1>0, <1>8 DEF FailRetry
  <2> QED
    BY <2>4, <2>5
<1>9. CASE Restart
  BY <1>0, <1>9 DEF Restart
<1> QED
  BY <1>1, <1>2, <1>3, <1>4, <1>5, <1>6, <1>7, <1>8, <1>9 DEF RetryPass, Settle

LEMMA EnvironmentTypes ==
    ASSUME TypeOK, Control, NEW p \in Procs, NEW f \in Files,
           \/ \E status \in {"queued", "skipped"} : Discover(p, f, status)
           \/ DiscoverError(p, f) \/ ManualRetry(p, f) \/ BackoffElapses(f)
    PROVE  TypeOK' /\ Control'
<1> USE FilesAssumption, BoundsAssumption
    DEF TypeOK, Control, Goto, Leave, database, threads, history,
        PCs, Modes, Transitioning, Stopped, Working
<1>1. ASSUME NEW status \in {"queued", "skipped"}, Discover(p, f, status)
      PROVE  TypeOK' /\ Control'
  <2>1. /\ event' \in [Files -> [from : Stages \cup {NoStage}, to : Stages \cup {NoStage}]]
        /\ row' \in [Files -> [stage : Stages \cup {NoStage}, status : Statuses]]
    BY <1>1 DEF Discover, Stages, Statuses
  <2>2. TypeOK'
    BY <1>1, <2>1 DEF Discover
  <2>3. Control'
    BY <1>1 DEF Discover
  <2> QED
    BY <2>2, <2>3
<1>2. CASE DiscoverError(p, f)
  <2>1. /\ event' \in [Files -> [from : Stages \cup {NoStage}, to : Stages \cup {NoStage}]]
        /\ row' \in [Files -> [stage : Stages \cup {NoStage}, status : Statuses]]
    BY <1>2 DEF DiscoverError, Stages, Statuses
  <2>2. TypeOK'
    BY <1>2, <2>1 DEF DiscoverError
  <2>3. Control'
    BY <1>2 DEF DiscoverError
  <2> QED
    BY <2>2, <2>3
<1>3. CASE ManualRetry(p, f)
  <2>1. TypeOK'
    BY <1>3 DEF ManualRetry
  <2>2. Control'
    BY <1>3 DEF ManualRetry
  <2> QED
    BY <2>1, <2>2
<1>4. CASE BackoffElapses(f)
  <2>1. [retry[f] EXCEPT !.due = TRUE] \in RetryRows
    <3>1. retry[f] \in RetryRows
      BY DEF RetryRows
    <3> QED
      BY <3>1 DEF RetryRows
  <2>2. retry' \in [Files -> RetryRows]
    BY <1>4, <2>1 DEF BackoffElapses, RetryRows
  <2>3. TypeOK'
    BY <1>4, <2>2 DEF BackoffElapses, RetryRows
  <2>4. Control'
    BY <1>4 DEF BackoffElapses
  <2> QED
    BY <2>3, <2>4
<1> QED
  BY <1>1, <1>2, <1>3, <1>4

LEMMA RequestTypes ==
    ASSUME TypeOK, Control, NEW p \in Procs, TriggerScan(p) \/ Crash(p)
    PROVE  TypeOK' /\ Control'
<1> USE FilesAssumption
    DEF TypeOK, Control, Goto, Leave, database, threads, history,
        PCs, Modes, Transitioning, Stopped, Working
<1>1. CASE TriggerScan(p)
  BY <1>1 DEF TriggerScan
<1>2. CASE Crash(p)
  <2>1. TypeOK'
    BY <1>2 DEF Crash, Unwind
  <2>2. Control'
    BY <1>2 DEF Crash, Unwind
  <2> QED
    BY <2>1, <2>2
<1> QED
  BY <1>1, <1>2

LEMMA StutterTypes ==
    ASSUME TypeOK, Control, UNCHANGED vars
    PROVE  TypeOK' /\ Control'
BY DEF TypeOK, Control, vars, database, threads, history

LEMMA NextTypes ==
    ASSUME TypeOK, Control, [Next]_vars
    PROVE  TypeOK' /\ Control'
<1>1. CASE BeginCycle \/ RetryPass \/ Restart
  BY <1>1, RetryPassTypes
<1>2. ASSUME NEW p \in Procs,
             Continue(p) \/ Scanned(p) \/ RecordFails(p) \/ TriggerScan(p)
               \/ (\E f \in Files : ManualRetry(p, f))
      PROVE  TypeOK' /\ Control'
  <2>1. CASE Transition(p)
    BY <2>1, TransitionTypes
  <2>2. CASE QueueRetry(p) \/ Execute(p) \/ Run(p) \/ RecordFails(p)
    BY <2>2, WorkTypes
  <2>3. CASE Scanned(p)
    BY <2>3, EnvironmentTypes DEF Scanned
  <2>4. CASE \E f \in Files : ManualRetry(p, f)
    BY <2>4, EnvironmentTypes
  <2>5. CASE TriggerScan(p)
    BY <2>5, RequestTypes
  <2> QED
    BY <1>2, <2>1, <2>2, <2>3, <2>4, <2>5 DEF Continue
<1>3. ASSUME NEW p \in Procs, Crash(p)
      PROVE  TypeOK' /\ Control'
  BY <1>3, RequestTypes
<1>4. ASSUME NEW f \in Files, BackoffElapses(f)
      PROVE  TypeOK' /\ Control'
  <2>1. Worker \in Procs
    BY DEF Procs
  <2> QED
    BY <1>4, <2>1, EnvironmentTypes
<1>5. CASE UNCHANGED vars
  BY <1>5, StutterTypes
<1> QED
  BY <1>1, <1>2, <1>3, <1>4, <1>5 DEF Next

\* Every variable keeps its type, and what the position of a thread says of
\* its locals (a file in hand exactly while it works on one, no transition to
\* retrying outside the retry pass, ...) holds in every reachable state, for
\* every number of files and threads.
THEOREM TypeCorrect == Spec => [](TypeOK /\ Control)
<1>1. Init => TypeOK /\ Control
  BY InitTypes
<1>2. TypeOK /\ Control /\ [Next]_vars => TypeOK' /\ Control'
  BY NextTypes
<1> QED
  BY <1>1, <1>2, PTL DEF Spec

-----------------------------------------------------------------------------
(* A completed file run is persisted.                                      *)

\* Thread p records the success of the file in its hands
Closing(p) == pc[p] \in Transitioning /\ goal[p] \in {"finish", "complete"}

\* A step that records no stage keeps Persisted when a thread that closes was
\* closing before, or has just stored its memory.
LEMMA PersistedKept ==
    ASSUME Persisted, UNCHANGED <<event, row>>, memory \subseteq memory',
           \A p \in Procs : Closing(p)' => \/ Closing(p) /\ cur'[p] = cur[p]
                                          \/ cur'[p] \in memory'
    PROVE  Persisted'
BY DEF Persisted, CompletedIsPersisted, Closing, Transitioning

LEMMA TransitionPersists ==
    ASSUME TypeOK, Control, Persisted, NEW p \in Procs, Transition(p)
    PROVE  Persisted'
<1> USE DEF TypeOK, Control, Goto, Enter, Leave, database, threads, history, Transitioning, Working
<1>1. CASE ReadStage(p)
  <2>1. \A q \in Procs : Closing(q)' => Closing(q) /\ cur'[q] = cur[q]
    BY <1>1 DEF ReadStage, Closing
  <2> QED
    BY <1>1, <2>1, PersistedKept DEF ReadStage
<1>2. CASE Refuse(p)
  <2>1. \A q \in Procs : Closing(q)' => Closing(q) /\ cur'[q] = cur[q]
    BY <1>2 DEF Refuse, Unwind, Closing
  <2> QED
    BY <1>2, <2>1, PersistedKept DEF Refuse
<1>3. CASE AppendEvent(p)
  <2>1. cur[p] \in Files /\ goal[p] \in Goals
    BY <1>3 DEF AppendEvent
  <2>2. Target[goal[p]].stage = "completed" => cur[p] \in memory
    BY <1>3, <2>1, TargetTypes DEF AppendEvent, Persisted
  <2>3. CompletedIsPersisted'
    BY <1>3, <2>1, <2>2 DEF AppendEvent, Persisted, CompletedIsPersisted
  <2>4. \A q \in Procs : Closing(q)' => Closing(q) /\ cur'[q] = cur[q]
    BY <1>3 DEF AppendEvent, Closing
  <2> QED
    BY <1>3, <2>3, <2>4 DEF AppendEvent, Persisted, Closing
<1>4. CASE StoreRow(p)
  <2>1. cur[p] \in Files /\ goal[p] \in Goals
    BY <1>4 DEF StoreRow
  <2>2. Target[goal[p]].stage = "completed" => cur[p] \in memory
    BY <1>4, <2>1, TargetTypes DEF StoreRow, Persisted
  <2>3. CompletedIsPersisted'
    BY <1>4, <2>1, <2>2 DEF StoreRow, Persisted, CompletedIsPersisted
  <2>4. \A q \in Procs : Closing(q)' => Closing(q) /\ cur'[q] = cur[q]
    BY <1>4, <2>1, GoalNames DEF StoreRow, Return, Closing
  <2> QED
    BY <1>4, <2>3, <2>4 DEF StoreRow, Persisted, Closing
<1> QED
  BY <1>1, <1>2, <1>3, <1>4 DEF Transition

LEMMA WorkPersists ==
    ASSUME TypeOK, Control, Persisted, NEW p \in Procs,
           QueueRetry(p) \/ Execute(p) \/ Run(p) \/ RecordFails(p) \/ Crash(p) \/ TriggerScan(p)
    PROVE  Persisted'
<1> USE DEF TypeOK, Control, Goto, Enter, Leave, database, threads, history, Transitioning, Working
<1>1. CASE QueueRetry(p)
  <2>1. \A q \in Procs : Closing(q)' => Closing(q) /\ cur'[q] = cur[q]
    BY <1>1 DEF QueueRetry, CountAttempts, Enqueue, Closing
  <2> QED
    BY <1>1, <2>1, PersistedKept DEF QueueRetry, CountAttempts, Enqueue
<1>2. CASE Record(p)
  <2>1. \A q \in Procs : Closing(q)' => Closing(q) /\ cur'[q] = cur[q]
    BY <1>2 DEF Record, Closing
  <2> QED
    BY <1>2, <2>1, PersistedKept DEF Record
<1>3. CASE WorkflowSucceeds(p)
  <2>1. \A q \in Procs : Closing(q)' => \/ Closing(q) /\ cur'[q] = cur[q]
                                       \/ cur'[q] \in memory'
    BY <1>3 DEF WorkflowSucceeds, Closing
  <2> QED
    BY <1>3, <2>1, PersistedKept DEF WorkflowSucceeds
<1>4. ASSUME NEW g \in {"fail", "fail_final"}, WorkflowFails(p, g)
      PROVE  Persisted'
  <2>1. \A q \in Procs : Closing(q)' => Closing(q) /\ cur'[q] = cur[q]
    BY <1>4 DEF WorkflowFails, Closing
  <2>2. memory \subseteq memory'
    BY <1>4 DEF WorkflowFails
  <2> QED
    BY <1>4, <2>1, <2>2, PersistedKept DEF WorkflowFails
<1>5. CASE Run(p)
  <2>1. \A q \in Procs : Closing(q)' => Closing(q) /\ cur'[q] = cur[q]
    BY <1>5 DEF Run, ListRun, NextFile, EndRun, Closing
  <2> QED
    BY <1>5, <2>1, PersistedKept DEF Run, ListRun, NextFile, EndRun
<1>6. CASE RecordFails(p)
  <2>1. \A q \in Procs : Closing(q)' => Closing(q) /\ cur'[q] = cur[q]
    BY <1>6 DEF RecordFails, Unwind, Closing
  <2>2. memory \subseteq memory'
    BY <1>6 DEF RecordFails
  <2> QED
    BY <1>6, <2>1, <2>2, PersistedKept DEF RecordFails
<1>7. CASE Crash(p)
  <2>1. \A q \in Procs : Closing(q)' => Closing(q) /\ cur'[q] = cur[q]
    BY <1>7 DEF Crash, Unwind, Closing
  <2> QED
    BY <1>7, <2>1, PersistedKept DEF Crash
<1>8. CASE TriggerScan(p)
  <2>1. \A q \in Procs : Closing(q)' => Closing(q) /\ cur'[q] = cur[q]
    BY <1>8 DEF TriggerScan, Closing
  <2> QED
    BY <1>8, <2>1, PersistedKept DEF TriggerScan
<1> QED
  BY <1>1, <1>2, <1>3, <1>4, <1>5, <1>6, <1>7, <1>8 DEF Execute

LEMMA RetryPassPersists ==
    ASSUME TypeOK, Control, Persisted, BeginCycle \/ RetryPass \/ Restart
    PROVE  Persisted'
<1> USE DEF TypeOK, Control, Goto, Enter, Leave, database, threads, history, Transitioning, Working
<1>0. Worker \in Procs
  BY DEF Procs
<1>1. CASE BeginCycle \/ BeginScan \/ Restart
  <2>1. \A q \in Procs : Closing(q)' => Closing(q) /\ cur'[q] = cur[q]
    BY <1>0, <1>1 DEF BeginCycle, BeginScan, Restart, Closing
  <2> QED
    BY <1>1, <2>1, PersistedKept DEF BeginCycle, BeginScan, Restart
<1>2. ASSUME NEW f \in Files, BeginRetry(f)
      PROVE  Persisted'
  <2>1. \A q \in Procs : Closing(q)' => Closing(q) /\ cur'[q] = cur[q]
    BY <1>0, <1>2 DEF BeginRetry, Closing
  <2> QED
    BY <1>2, <2>1, PersistedKept DEF BeginRetry
<1>3. CASE Fetch(Worker) \/ FailRetry(Worker)
  <2>1. \A q \in Procs : Closing(q)' => Closing(q) /\ cur'[q] = cur[q]
    BY <1>0, <1>3 DEF Fetch, FailRetry, Closing
  <2> QED
    BY <1>3, <2>1, PersistedKept DEF Fetch, FailRetry
<1>4. CASE Settle(Worker)
  <2>1. \A q \in Procs : Closing(q)' => Closing(q) /\ cur'[q] = cur[q]
    BY <1>0, <1>4 DEF Settle, SettleReadsRow, SettleReadsItem, SettleMarks, Closing
  <2> QED
    BY <1>4, <2>1, PersistedKept DEF Settle, SettleReadsRow, SettleReadsItem, SettleMarks
<1> QED
  BY <1>1, <1>2, <1>3, <1>4 DEF RetryPass

LEMMA EnvironmentPersists ==
    ASSUME TypeOK, Control, Persisted, NEW p \in Procs, NEW f \in Files,
           \/ \E status \in {"queued", "skipped"} : Discover(p, f, status)
           \/ DiscoverError(p, f) \/ ManualRetry(p, f) \/ BackoffElapses(f)
    PROVE  Persisted'
<1> USE DEF TypeOK, Control, Goto, database, threads, history, Transitioning, Working
<1>1. CASE (\E status \in {"queued", "skipped"} : Discover(p, f, status)) \/ DiscoverError(p, f)
  <2>1. /\ event'[f].to # "completed" /\ row'[f].stage # "completed"
        /\ \A g \in Files \ {f} : event'[g] = event[g] /\ row'[g] = row[g]
        /\ UNCHANGED <<memory, pc, goal, cur>>
    BY <1>1 DEF Discover, DiscoverError
  <2> QED
    BY <2>1 DEF Persisted, CompletedIsPersisted
<1>2. CASE ManualRetry(p, f)
  <2>1. \A q \in Procs : Closing(q)' => Closing(q) /\ cur'[q] = cur[q]
    BY <1>2 DEF ManualRetry, Closing
  <2> QED
    BY <1>2, <2>1, PersistedKept DEF ManualRetry
<1>3. CASE BackoffElapses(f)
  BY <1>3, PersistedKept DEF BackoffElapses, Closing
<1> QED
  BY <1>1, <1>2, <1>3

LEMMA NextPersists ==
    ASSUME TypeOK, Control, Persisted, [Next]_vars
    PROVE  Persisted'
<1>1. CASE BeginCycle \/ RetryPass \/ Restart
  BY <1>1, RetryPassPersists
<1>2. ASSUME NEW p \in Procs,
             Continue(p) \/ Scanned(p) \/ RecordFails(p) \/ Crash(p) \/ TriggerScan(p)
               \/ (\E f \in Files : ManualRetry(p, f))
      PROVE  Persisted'
  <2>1. CASE Transition(p)
    BY <2>1, TransitionPersists
  <2>2. CASE QueueRetry(p) \/ Execute(p) \/ Run(p) \/ RecordFails(p) \/ Crash(p) \/ TriggerScan(p)
    BY <2>2, WorkPersists
  <2>3. CASE Scanned(p) \/ \E f \in Files : ManualRetry(p, f)
    BY <2>3, EnvironmentPersists DEF Scanned
  <2> QED
    BY <1>2, <2>1, <2>2, <2>3 DEF Continue
<1>3. ASSUME NEW f \in Files, BackoffElapses(f)
      PROVE  Persisted'
  BY <1>3, EnvironmentPersists DEF Procs
<1>4. CASE UNCHANGED vars
  BY <1>4 DEF Persisted, CompletedIsPersisted, vars, database, threads, history
<1> QED
  BY <1>1, <1>2, <1>3, <1>4 DEF Next

\* No interleaving, crash, failed transaction or manual retry lets a file run
\* be reported completed, in its timeline or in its row, without its memory:
\* _execute_single_file persists it before the two closing transitions.
THEOREM CompletedPersisted == Spec => []CompletedIsPersisted
<1>1. Init => Persisted
  BY DEF Init, Persisted, CompletedIsPersisted, NoStage, Transitioning, Procs
<1>2. TypeOK /\ Control /\ Persisted /\ [Next]_vars => Persisted'
  BY NextPersists
<1>3. Persisted => CompletedIsPersisted
  BY DEF Persisted
<1> QED
  BY <1>1, <1>2, <1>3, TypeCorrect, PTL DEF Spec

-----------------------------------------------------------------------------
(* A file run that waits for a retry is in the retry queue.                *)

\* Thread p records a stage that needs a row in file_retry_queue
Waiting(p) == pc[p] \in Transitioning /\ goal[p] \in {"begin", "requeue"}

\* f is one of the due retries that thread p iterates over
Listed(p, f) == f \in todo[p] /\ mode[p] \in {"retry", "abandon"}

\* No row of file_retry_queue is deleted.
ItemsKept == \A f \in Files : retry[f].status # "none" => retry'[f].status # "none"

\* A step that records no stage keeps Enqueued when it deletes no row and
\* every thread that needs one needed it before, or there is one.
LEMMA EnqueuedKept ==
    ASSUME Control, Enqueued, UNCHANGED event, ItemsKept,
           \A p \in Procs : Waiting(p)' => \/ Waiting(p) /\ cur'[p] = cur[p]
                                          \/ retry'[cur'[p]].status # "none",
           \A p \in Procs, f \in Files :
               Listed(p, f)' => Listed(p, f) \/ retry'[f].status # "none"
    PROVE  Enqueued'
<1>1. RetryStageHasItem'
  BY DEF Enqueued, RetryStageHasItem, ItemsKept
<1>2. ASSUME NEW p \in Procs, Waiting(p)'
      PROVE  retry'[cur'[p]].status # "none"
  <2>1. Waiting(p) => cur[p] \in Files
    BY DEF Control, Waiting, Working
  <2> QED
    BY <1>2, <2>1 DEF Enqueued, ItemsKept, Waiting
<1>3. ASSUME NEW p \in Procs, NEW f \in Files, Listed(p, f)'
      PROVE  retry'[f].status # "none"
  BY <1>3 DEF Enqueued, ItemsKept, Listed
<1> QED
  BY <1>1, <1>2, <1>3 DEF Enqueued, Waiting, Listed

LEMMA TransitionEnqueued ==
    ASSUME TypeOK, Control, Enqueued, NEW p \in Procs, Transition(p)
    PROVE  Enqueued'
<1> USE DEF TypeOK, Control, Goto, Enter, Leave, database, threads, history, Transitioning, Working
<1>1. CASE ReadStage(p) \/ Refuse(p)
  <2>1. \A q \in Procs : Waiting(q)' => Waiting(q) /\ cur'[q] = cur[q]
    BY <1>1 DEF ReadStage, Refuse, Unwind, Waiting
  <2>2. \A q \in Procs, g \in Files : Listed(q, g)' => Listed(q, g)
    BY <1>1 DEF ReadStage, Refuse, Unwind, Listed
  <2>3. ItemsKept
    BY <1>1 DEF ReadStage, Refuse, Unwind, ItemsKept
  <2> QED
    BY <1>1, <2>1, <2>2, <2>3, EnqueuedKept DEF ReadStage, Refuse
<1>2. CASE AppendEvent(p)
  <2>1. cur[p] \in Files /\ goal[p] \in Goals
    BY <1>2 DEF AppendEvent
  <2>2. Target[goal[p]].stage \in {"retry_queued", "retrying"} => retry[cur[p]].status # "none"
    BY <1>2, <2>1, TargetTypes DEF AppendEvent, Enqueued
  <2>3. RetryStageHasItem'
    BY <1>2, <2>1, <2>2 DEF AppendEvent, Enqueued, RetryStageHasItem
  <2>4. \A q \in Procs : Waiting(q)' => Waiting(q)
    BY <1>2 DEF AppendEvent, Waiting
  <2> QED
    BY <1>2, <2>3, <2>4 DEF AppendEvent, Enqueued, Waiting
<1>3. CASE StoreRow(p)
  <2>1. \A q \in Procs : Waiting(q)' => Waiting(q) /\ cur'[q] = cur[q]
    BY <1>3, GoalNames DEF StoreRow, Return, Waiting
  <2>2. \A q \in Procs, g \in Files : Listed(q, g)' => Listed(q, g)
    BY <1>3 DEF StoreRow, Return, Listed
  <2> QED
    BY <1>3, <2>1, <2>2, EnqueuedKept DEF StoreRow, ItemsKept
<1> QED
  BY <1>1, <1>2, <1>3 DEF Transition

LEMMA WorkEnqueued ==
    ASSUME TypeOK, Control, Enqueued, NEW p \in Procs,
           QueueRetry(p) \/ Execute(p) \/ Run(p) \/ RecordFails(p) \/ Crash(p) \/ TriggerScan(p)
    PROVE  Enqueued'
<1> USE DEF TypeOK, Control, Goto, Enter, Leave, database, threads, history, Transitioning, Working
<1>1. CASE CountAttempts(p)
  <2>1. \A q \in Procs : Waiting(q)' => Waiting(q) /\ cur'[q] = cur[q]
    BY <1>1 DEF CountAttempts, Waiting
  <2>2. \A q \in Procs, g \in Files : Listed(q, g)' => Listed(q, g)
    BY <1>1 DEF CountAttempts, Listed
  <2>3. ItemsKept
    BY <1>1 DEF CountAttempts, ItemsKept
  <2> QED
    BY <1>1, <2>1, <2>2, <2>3, EnqueuedKept DEF CountAttempts
<1>2. CASE Enqueue(p)
  <2>1. cur[p] \in Files
    BY <1>2 DEF Enqueue
  <2>2. /\ retry'[cur[p]].status # "none"
        /\ \A g \in Files \ {cur[p]} : retry'[g] = retry[g]
    BY <1>2, <2>1 DEF Enqueue
  <2>3. \A q \in Procs : Waiting(q)' => \/ Waiting(q) /\ cur'[q] = cur[q]
                                       \/ retry'[cur'[q]].status # "none"
    BY <1>2, <2>2 DEF Enqueue, Waiting
  <2>4. \A q \in Procs, g \in Files : Listed(q, g)' => Listed(q, g)
    BY <1>2 DEF Enqueue, Listed
  <2>5. ItemsKept
    BY <2>2 DEF ItemsKept
  <2> QED
    BY <1>2, <2>3, <2>4, <2>5, EnqueuedKept DEF Enqueue
<1>3. CASE Execute(p)
  <2>1. \A q \in Procs : Waiting(q)' => Waiting(q) /\ cur'[q] = cur[q]
    BY <1>3 DEF Execute, Record, WorkflowSucceeds, WorkflowFails, Waiting
  <2>2. \A q \in Procs, g \in Files : Listed(q, g)' => Listed(q, g)
    BY <1>3 DEF Execute, Record, WorkflowSucceeds, WorkflowFails, Listed
  <2>3. ItemsKept
    BY <1>3 DEF Execute, Record, WorkflowSucceeds, WorkflowFails, ItemsKept
  <2> QED
    BY <1>3, <2>1, <2>2, <2>3, EnqueuedKept DEF Execute, Record, WorkflowSucceeds, WorkflowFails
<1>4. CASE Run(p)
  <2>1. \A q \in Procs : Waiting(q)' => Waiting(q) /\ cur'[q] = cur[q]
    BY <1>4 DEF Run, ListRun, NextFile, EndRun, Waiting
  <2>2. \A q \in Procs, g \in Files : Listed(q, g)' => Listed(q, g)
    BY <1>4 DEF Run, ListRun, NextFile, EndRun, Listed
  <2>3. ItemsKept
    BY <1>4 DEF Run, ListRun, NextFile, EndRun, ItemsKept
  <2> QED
    BY <1>4, <2>1, <2>2, <2>3, EnqueuedKept DEF Run, ListRun, NextFile, EndRun
<1>5. CASE RecordFails(p) \/ Crash(p)
  <2>1. \A q \in Procs : Waiting(q)' => Waiting(q) /\ cur'[q] = cur[q]
    BY <1>5 DEF RecordFails, Crash, Unwind, Waiting
  <2>2. \A q \in Procs, g \in Files : Listed(q, g)' => Listed(q, g)
    BY <1>5 DEF RecordFails, Crash, Unwind, Listed
  <2>3. ItemsKept
    BY <1>5 DEF RecordFails, Crash, Unwind, ItemsKept
  <2> QED
    BY <1>5, <2>1, <2>2, <2>3, EnqueuedKept DEF RecordFails, Crash
<1>6. CASE TriggerScan(p)
  <2>1. \A q \in Procs : Waiting(q)' => Waiting(q) /\ cur'[q] = cur[q]
    BY <1>6 DEF TriggerScan, Waiting
  <2>2. \A q \in Procs, g \in Files : Listed(q, g)' => Listed(q, g)
    BY <1>6 DEF TriggerScan, Listed
  <2>3. ItemsKept
    BY <1>6 DEF TriggerScan, ItemsKept
  <2> QED
    BY <1>6, <2>1, <2>2, <2>3, EnqueuedKept DEF TriggerScan
<1> QED
  BY <1>1, <1>2, <1>3, <1>4, <1>5, <1>6 DEF QueueRetry

LEMMA RetryPassEnqueued ==
    ASSUME TypeOK, Control, Enqueued, BeginCycle \/ RetryPass \/ Restart
    PROVE  Enqueued'
<1> USE DEF TypeOK, Control, Goto, Enter, Leave, database, threads, history, Transitioning, Working
<1>0. Worker \in Procs
  BY DEF Procs
<1>1. CASE BeginCycle
  <2>1. \A q \in Procs : Waiting(q)' => Waiting(q) /\ cur'[q] = cur[q]
    BY <1>0, <1>1 DEF BeginCycle, DueRetries, Waiting
  <2>2. \A q \in Procs, g \in Files :
            Listed(q, g)' => Listed(q, g) \/ retry'[g].status # "none"
    BY <1>0, <1>1 DEF BeginCycle, DueRetries, Listed
  <2>3. ItemsKept
    BY <1>0, <1>1 DEF BeginCycle, DueRetries, ItemsKept
  <2> QED
    BY <1>1, <2>1, <2>2, <2>3, EnqueuedKept DEF BeginCycle
<1>2. CASE BeginScan \/ Restart
  <2>1. \A q \in Procs : Waiting(q)' => Waiting(q) /\ cur'[q] = cur[q]
    BY <1>0, <1>2 DEF BeginScan, Restart, Waiting
  <2>2. \A q \in Procs, g \in Files : Listed(q, g)' => Listed(q, g)
    BY <1>0, <1>2 DEF BeginScan, Restart, Listed
  <2>3. ItemsKept
    BY <1>0, <1>2 DEF BeginScan, Restart, ItemsKept
  <2> QED
    BY <1>2, <2>1, <2>2, <2>3, EnqueuedKept DEF BeginScan, Restart
<1>3. ASSUME NEW f \in Files, BeginRetry(f)
      PROVE  Enqueued'
  <2>1. \A q \in Procs : Waiting(q)' => \/ Waiting(q) /\ cur'[q] = cur[q]
                                       \/ retry'[cur'[q]].status # "none"
    BY <1>0, <1>3 DEF BeginRetry, Waiting
  <2>2. \A q \in Procs, g \in Files : Listed(q, g)' => Listed(q, g)
    BY <1>0, <1>3 DEF BeginRetry, Listed
  <2>3. ItemsKept
    BY <1>0, <1>3 DEF BeginRetry, ItemsKept
  <2> QED
    BY <1>3, <2>1, <2>2, <2>3, EnqueuedKept DEF BeginRetry
<1>4. CASE Fetch(Worker) \/ FailRetry(Worker)
  <2>1. \A q \in Procs : Waiting(q)' => Waiting(q) /\ cur'[q] = cur[q]
    BY <1>0, <1>4 DEF Fetch, FailRetry, Waiting
  <2>2. \A q \in Procs, g \in Files : Listed(q, g)' => Listed(q, g)
    BY <1>0, <1>4 DEF Fetch, FailRetry, Listed
  <2>3. ItemsKept
    <3>1. CASE Fetch(Worker)
      BY <3>1 DEF Fetch, ItemsKept
    <3>2. CASE FailRetry(Worker)
      <4>1. \A g \in Files : retry'[g].status \in {retry[g].status, "failed"}
        BY <1>0, <3>2 DEF FailRetry
      <4> QED
        BY <4>1 DEF ItemsKept
    <3> QED
      BY <1>4, <3>1, <3>2
  <2> QED
    BY <1>4, <2>1, <2>2, <2>3, EnqueuedKept DEF Fetch, FailRetry
<1>5. CASE SettleReadsRow(Worker) \/ SettleReadsItem(Worker)
  <2>1. \A q \in Procs : Waiting(q)' => Waiting(q) /\ cur'[q] = cur[q]
    BY <1>0, <1>5 DEF SettleReadsRow, SettleReadsItem, Waiting
  <2>2. \A q \in Procs, g \in Files : Listed(q, g)' => Listed(q, g)
    BY <1>0, <1>5 DEF SettleReadsRow, SettleReadsItem, Listed
  <2>3. ItemsKept
    BY <1>5 DEF SettleReadsRow, SettleReadsItem, ItemsKept
  <2> QED
    BY <1>5, <2>1, <2>2, <2>3, EnqueuedKept DEF SettleReadsRow, SettleReadsItem
<1>6. CASE SettleMarks(Worker)
  <2>1. \A q \in Procs : Waiting(q)' => Waiting(q) /\ cur'[q] = cur[q]
    BY <1>0, <1>6 DEF SettleMarks, Waiting
  <2>2. \A q \in Procs, g \in Files : Listed(q, g)' => Listed(q, g)
    BY <1>0, <1>6 DEF SettleMarks, Listed
  <2>3. Verdict(seen[Worker]) # "none"
    BY DEF Verdict
  <2>4. ItemsKept
    BY <1>0, <1>6, <2>3 DEF SettleMarks, ItemsKept
  <2> QED
    BY <1>6, <2>1, <2>2, <2>4, EnqueuedKept DEF SettleMarks
<1> QED
  BY <1>1, <1>2, <1>3, <1>4, <1>5, <1>6 DEF RetryPass, Settle

LEMMA EnvironmentEnqueued ==
    ASSUME TypeOK, Control, Enqueued, NEW p \in Procs, NEW f \in Files,
           \/ \E status \in {"queued", "skipped"} : Discover(p, f, status)
           \/ DiscoverError(p, f) \/ ManualRetry(p, f) \/ BackoffElapses(f)
    PROVE  Enqueued'
<1> USE DEF TypeOK, Control, Goto, Enter, Leave, database, threads, history, Transitioning, Working
<1>1. CASE (\E status \in {"queued", "skipped"} : Discover(p, f, status)) \/ DiscoverError(p, f)
  <2>1. /\ event'[f].to \notin {"retry_queued", "retrying"}
        /\ \A g \in Files \ {f} : event'[g] = event[g]
        /\ UNCHANGED <<retry, pc, goal, cur, mode>>
    <3>1. /\ \E to \in {"discovered", "failed"} :
                event' = [event EXCEPT ![f] = [from |-> NoStage, to |-> to]]
          /\ UNCHANGED <<retry, pc, goal, cur, mode>>
      BY <1>1 DEF Discover, DiscoverError
    <3> QED
      BY <3>1
  <2>2. \A q \in Procs, g \in Files : Listed(q, g)' => Listed(q, g)
    <3>1. /\ todo' = [todo EXCEPT ![p] = @ \cup {f}] /\ mode' = mode
          /\ pc[p] = "scan"
      BY <1>1 DEF Discover, DiscoverError
    <3>2. mode[p] = "run"
      BY <3>1
    <3> QED
      BY <3>1, <3>2 DEF Listed
  <2>3. RetryStageHasItem'
    BY <2>1 DEF Enqueued, RetryStageHasItem
  <2> QED
    BY <2>1, <2>2, <2>3 DEF Enqueued, Listed
<1>2. CASE ManualRetry(p, f)
  <2>1. \A q \in Procs : Waiting(q)' => Waiting(q) /\ cur'[q] = cur[q]
    BY <1>2 DEF ManualRetry, Waiting
  <2>2. \A q \in Procs, g \in Files : Listed(q, g)' => Listed(q, g)
    BY <1>2 DEF ManualRetry, Listed
  <2>3. ItemsKept
    BY <1>2 DEF ManualRetry, ItemsKept
  <2> QED
    BY <1>2, <2>1, <2>2, <2>3, EnqueuedKept DEF ManualRetry
<1>3. CASE BackoffElapses(f)
  <2>1. \A q \in Procs : Waiting(q)' => Waiting(q) /\ cur'[q] = cur[q]
    BY <1>3 DEF BackoffElapses, Waiting
  <2>2. \A q \in Procs, g \in Files : Listed(q, g)' => Listed(q, g)
    BY <1>3 DEF BackoffElapses, Listed
  <2>3. \A g \in Files : retry'[g].status = retry[g].status
    BY <1>3 DEF BackoffElapses
  <2>4. ItemsKept
    BY <2>3 DEF ItemsKept
  <2> QED
    BY <1>3, <2>1, <2>2, <2>4, EnqueuedKept DEF BackoffElapses
<1> QED
  BY <1>1, <1>2, <1>3

LEMMA NextEnqueued ==
    ASSUME TypeOK, Control, Enqueued, [Next]_vars
    PROVE  Enqueued'
<1>1. CASE BeginCycle \/ RetryPass \/ Restart
  BY <1>1, RetryPassEnqueued
<1>2. ASSUME NEW p \in Procs,
             Continue(p) \/ Scanned(p) \/ RecordFails(p) \/ Crash(p) \/ TriggerScan(p)
               \/ (\E f \in Files : ManualRetry(p, f))
      PROVE  Enqueued'
  <2>1. CASE Transition(p)
    BY <2>1, TransitionEnqueued
  <2>2. CASE QueueRetry(p) \/ Execute(p) \/ Run(p) \/ RecordFails(p) \/ Crash(p) \/ TriggerScan(p)
    BY <2>2, WorkEnqueued
  <2>3. CASE Scanned(p) \/ \E f \in Files : ManualRetry(p, f)
    BY <2>3, EnvironmentEnqueued DEF Scanned
  <2> QED
    BY <1>2, <2>1, <2>2, <2>3 DEF Continue
<1>3. ASSUME NEW f \in Files, BackoffElapses(f)
      PROVE  Enqueued'
  BY <1>3, EnvironmentEnqueued DEF Procs
<1>4. CASE UNCHANGED vars
  BY <1>4 DEF Enqueued, RetryStageHasItem, vars, database, threads, history
<1> QED
  BY <1>1, <1>2, <1>3, <1>4 DEF Next

\* No interleaving, crash or manual retry leaves a file run whose timeline
\* says retry_queued or retrying without a row in the retry queue, the row the
\* worker finds it by: queue_retry writes that row first, and nothing deletes
\* it.
THEOREM RetryQueued == Spec => []RetryStageHasItem
<1>1. Init => Enqueued
  BY DEF Init, Enqueued, RetryStageHasItem, NoStage, Transitioning, Procs
<1>2. TypeOK /\ Control /\ Enqueued /\ [Next]_vars => Enqueued'
  BY NextEnqueued
<1>3. Enqueued => RetryStageHasItem
  BY DEF Enqueued
<1> QED
  BY <1>1, <1>2, <1>3, TypeCorrect, PTL DEF Spec

=============================================================================
