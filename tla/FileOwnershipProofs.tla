------------------------- MODULE FileOwnershipProofs -------------------------
(***************************************************************************)
(* The file runs nobody retries by hand, whatever scans, crashes, retries  *)
(* of other file runs and manual retries of other file runs go on beside   *)
(* them: each belongs to one thread at a time, its timeline is legal, and  *)
(* its workflow starts at most max_attempts times.  In the second part, as *)
(* long as nothing crashes: queue, row and timeline agree, and only an     *)
(* operator leads the worker to a transition the policy refuses.           *)
(***************************************************************************)
EXTENDS FileProgressProofs

\* Thread p will work on f, or does
Claims(p, f) == cur[p] = f \/ f \in todo[p]

\* Thread p is about to start the workflow of the file in its hands
Starting(p) ==
    \/ pc[p] \in {"fetch", "record"}
    \/ pc[p] \in {"read", "append"} /\ goal[p] \in {"begin", "start"}
    \/ pc[p] = "store" /\ goal[p] = "begin"

\* Thread p has queued the retry of f, whose row is not due before p is through
\* with f; or it settles the retry that ended with f queued again
Requeues(p, f) ==
    \/ goal[p] = "requeue" /\ ~retry[f].due
    \/ p = Worker /\ pc[p] \in {"settle_row", "settle_item"}

\* f has an attempt to spend
HasAttempt(f) ==
    executions[f] <= retry[f].attempts /\ retry[f].attempts < MaxAttempts

\* f is in the list of a run, which executes it once, or in that of a retry pass
Listing(p, f) ==
    \/ mode[p] = "run" /\ retry[f].status = "none"
    \/ mode[p] \in {"retry", "abandon"} /\ retry[f].status = "queued"

\* A file run nobody retried by hand belongs to one thread at a time ...
Ownership(f) ==
    /\ \A p, q \in Procs : Claims(p, f) /\ Claims(q, f) => p = q
    /\ \A p \in Procs : cur[p] = f => f \notin todo[p]
    /\ ~Exists(f) => /\ \A p \in Procs : ~Claims(p, f)
                     /\ retry[f].status = "none"
                     /\ HasAttempt(f)
    /\ \A p \in Procs : f \in todo[p] => Listing(p, f)
    /\ \A p \in Procs : cur[p] = f /\ retry[f].status = "queued" => Requeues(p, f)

\* ... spends an attempt for each execution after the first
Spending(f) ==
    /\ executions[f] <= MaxAttempts
    /\ executions[f] <= retry[f].attempts + 1
    /\ retry[f].status = "queued" => HasAttempt(f)
    /\ \A p \in Procs : cur[p] = f /\ Starting(p) => HasAttempt(f)
    /\ \A p \in Procs : f \in todo[p] => HasAttempt(f)
    /\ \A p \in Procs : cur[p] = f /\ pc[p] = "enqueue" => tally[p] = retry[f].attempts

\* ... and the stage its thread has read is still the latest
Checked(f) ==
    \A p \in Procs :
        cur[p] = f /\ pc[p] = "append" =>
            seen[p] = event[f].to /\ Legal(event[f].to, Target[goal[p]].stage)

Owned(f) == Ownership(f) /\ Spending(f) /\ Checked(f)

IInv ==
    /\ TypeOK
    /\ Control
    /\ \A f \in Files \ touched : Owned(f)

-----------------------------------------------------------------------------
(* Steps that leave a file run alone.                                      *)

\* Thread p has f in hand after the step only if it was its own before, and what
\* it is about to do with f is what it was about to do, or is justified now
KeepsHold(p, f) ==
    cur'[p] = f =>
        /\ Claims(p, f) /\ f \notin todo'[p]
        /\ Starting(p)' => HasAttempt(f)
        /\ pc'[p] = "enqueue" => tally'[p] = retry[f].attempts
        /\ pc'[p] = "append" =>
             seen'[p] = event[f].to /\ Legal(event[f].to, Target[goal'[p]].stage)
        /\ retry[f].status = "queued" => Requeues(p, f)'

\* ... and has it in its list only if it was there, for the same loop
KeepsList(p, f) ==
    f \in todo'[p] =>
        /\ f \in todo[p]
        /\ \/ mode'[p] = mode[p]
           \/ {mode[p], mode'[p]} \subseteq {"retry", "abandon"}

SameRecords(f) ==
    event'[f] = event[f] /\ retry'[f] = retry[f] /\ executions'[f] = executions[f]

Others(p) ==
    \A q \in Procs \ {p} :
        /\ pc'[q] = pc[q] /\ mode'[q] = mode[q] /\ cur'[q] = cur[q] /\ goal'[q] = goal[q]
        /\ seen'[q] = seen[q] /\ tally'[q] = tally[q] /\ todo'[q] = todo[q]

LEMMA OthersKeep ==
    ASSUME NEW f \in Files, NEW p \in Procs, Owned(f), Others(p), retry'[f] = retry[f]
    PROVE  \A q \in Procs \ {p} : KeepsHold(q, f) /\ KeepsList(q, f)
<1> SUFFICES ASSUME NEW q \in Procs \ {p}
             PROVE  KeepsHold(q, f) /\ KeepsList(q, f)
  OBVIOUS
<1>1. Starting(q)' <=> Starting(q)
  BY DEF Others, Starting
<1>2. Requeues(q, f) => Requeues(q, f)'
  BY DEF Others, Requeues
<1> QED
  BY <1>1, <1>2 DEF Others, KeepsHold, KeepsList, Owned, Ownership, Spending, Checked, Claims

\* A thread that keeps its hold on f, or lets go of it, disturbs nothing.
LEMMA KeepsOwned ==
    ASSUME NEW f \in Files, NEW p \in Procs, Owned(f), Others(p), SameRecords(f),
           KeepsHold(p, f), KeepsList(p, f)
    PROVE  Owned(f)'
<1>1. \A q \in Procs : KeepsHold(q, f) /\ KeepsList(q, f)
  BY OthersKeep DEF SameRecords
<1>2. \A q \in Procs : Claims(q, f)' => Claims(q, f)
  BY <1>1 DEF Claims, KeepsHold, KeepsList
<1>3. Ownership(f)'
  <2>1. \A q \in Procs : f \in todo'[q] => Listing(q, f)'
    BY <1>1 DEF Owned, Ownership, Listing, KeepsList, SameRecords
  <2>2. \A q \in Procs : cur'[q] = f /\ retry'[f].status = "queued" => Requeues(q, f)'
    BY <1>1 DEF KeepsHold, SameRecords
  <2>3. \A q \in Procs : cur'[q] = f => f \notin todo'[q]
    BY <1>1 DEF KeepsHold
  <2>4. (~Exists(f) => retry[f].status = "none" /\ HasAttempt(f))'
    BY DEF Owned, Ownership, Exists, HasAttempt, SameRecords
  <2>5. (~Exists(f))' => \A q \in Procs : ~Claims(q, f)'
    BY <1>2 DEF Owned, Ownership, Exists, SameRecords
  <2> QED
    BY <1>2, <2>1, <2>2, <2>3, <2>4, <2>5 DEF Owned, Ownership
<1>4. Spending(f)'
  BY <1>1 DEF Owned, Spending, HasAttempt, SameRecords, KeepsHold, KeepsList
<1>5. Checked(f)'
  BY <1>1 DEF Owned, Checked, SameRecords, KeepsHold
<1> QED
  BY <1>3, <1>4, <1>5 DEF Owned

\* The thread that owns f may change its records.
LEMMA ChangesOwned ==
    ASSUME NEW f \in Files, NEW p \in Procs, Owned(f), Others(p), Claims(p, f),
           Exists(f)',
           cur'[p] = f =>
               /\ f \notin todo'[p]
               /\ retry'[f].status = "queued" => Requeues(p, f)'
               /\ Starting(p)' => HasAttempt(f)'
               /\ pc'[p] = "enqueue" => tally'[p] = retry'[f].attempts
               /\ pc'[p] # "append",
           f \in todo'[p] => Listing(p, f)' /\ HasAttempt(f)',
           executions'[f] <= MaxAttempts, executions'[f] <= retry'[f].attempts + 1,
           retry'[f].status = "queued" => HasAttempt(f)'
    PROVE  Owned(f)'
<1>1. \A q \in Procs \ {p} : ~Claims(q, f)
  BY DEF Owned, Ownership
<1>2. \A q \in Procs \ {p} : cur'[q] # f /\ f \notin todo'[q]
  BY <1>1 DEF Others, Claims
<1>3. Ownership(f)'
  BY <1>2 DEF Ownership, Claims
<1>4. Spending(f)'
  BY <1>2 DEF Spending
<1>5. Checked(f)'
  BY <1>2 DEF Checked
<1> QED
  BY <1>3, <1>4, <1>5 DEF Owned


-----------------------------------------------------------------------------
(* Each step keeps each file run owned.                                    *)

LEMMA TransitionOwned ==
    ASSUME TypeOK, Control, NEW f \in Files, Owned(f), NEW p \in Procs, Transition(p)
    PROVE  Owned(f)'
<1> USE FilesAssumption DEF TypeOK, Control, Goto, Enter, Leave, database, threads, history, Transitioning, Working
<1>1. CASE ReadStage(p)
  <2>1. Others(p) /\ SameRecords(f)
    BY <1>1 DEF ReadStage, Others, SameRecords
  <2>2. KeepsHold(p, f)
    BY <1>1 DEF ReadStage, KeepsHold, Owned, Ownership, Spending, Checked, Claims, Starting, Requeues
  <2>3. KeepsList(p, f)
    BY <1>1 DEF ReadStage, KeepsList
  <2> QED
    BY <2>1, <2>2, <2>3, KeepsOwned
<1>2. CASE Refuse(p)
  <2>1. Others(p) /\ SameRecords(f)
    BY <1>2 DEF Refuse, Unwind, Others, SameRecords
  <2>2. KeepsHold(p, f)
    BY <1>2 DEF Refuse, Unwind, KeepsHold, Owned, Ownership, Spending, Checked, Claims, Starting, Requeues
  <2>3. KeepsList(p, f)
    BY <1>2 DEF Refuse, Unwind, KeepsList
  <2> QED
    BY <2>1, <2>2, <2>3, KeepsOwned
<1>3. CASE AppendEvent(p)
  <2>1. Others(p) /\ cur[p] \in Files /\ goal[p] \in Goals /\ pc[p] = "append"
    BY <1>3 DEF AppendEvent, Others
  <2>2. CASE cur[p] # f
    <3>1. SameRecords(f)
      BY <1>3, <2>2 DEF AppendEvent, SameRecords
    <3>2. KeepsHold(p, f) /\ KeepsList(p, f)
      BY <1>3, <2>2 DEF AppendEvent, KeepsHold, KeepsList
    <3> QED
      BY <2>1, <3>1, <3>2, KeepsOwned
  <2>3. CASE cur[p] = f
    <3>1. Exists(f)'
      BY <1>3, <2>1, <2>3, TargetTypes DEF AppendEvent, Exists
    <3>2. /\ retry' = retry /\ cur' = cur /\ todo' = todo /\ mode' = mode /\ goal' = goal
          /\ pc'[p] = "store" /\ f \notin todo[p]
      BY <1>3, <2>3 DEF AppendEvent, Owned, Ownership
    <3>3. CASE goal[p] = "start"
      <4>1. HasAttempt(f) /\ executions'[f] = executions[f] + 1
        BY <1>3, <2>1, <2>3, <3>3 DEF AppendEvent, Owned, Spending, Starting
      <4>2. retry[f].status # "queued"
        BY <2>1, <2>3, <3>3 DEF Owned, Ownership, Requeues
      <4>3. executions'[f] <= MaxAttempts /\ executions'[f] <= retry'[f].attempts + 1
        BY <3>2, <4>1, AttemptsAssumption DEF HasAttempt
      <4>4. ~Starting(p)'
        BY <3>2, <3>3 DEF Starting
      <4> QED
        BY <2>1, <2>3, <3>1, <3>2, <4>2, <4>3, <4>4, ChangesOwned DEF Claims
    <3>4. CASE goal[p] # "start"
      <4>1. executions' = executions
        BY <1>3, <3>4 DEF AppendEvent
      <4>2. Starting(p)' => Starting(p)
        BY <2>1, <3>2 DEF Starting
      <4>3. HasAttempt(f)' <=> HasAttempt(f)
        BY <3>2, <4>1 DEF HasAttempt
      <4>4. retry[f].status = "queued" => Requeues(p, f)'
        BY <2>1, <2>3, <3>2 DEF Owned, Ownership, Requeues
      <4>5. executions[f] <= MaxAttempts /\ executions[f] <= retry[f].attempts + 1
        BY DEF Owned, Spending
      <4>6. /\ retry[f].status = "queued" => HasAttempt(f)
            /\ Starting(p) => HasAttempt(f)
        BY <2>3 DEF Owned, Spending
      <4> QED
        BY <2>1, <2>3, <3>1, <3>2, <4>1, <4>2, <4>3, <4>4, <4>5, <4>6, ChangesOwned DEF Claims
    <3> QED
      BY <3>3, <3>4
  <2> QED
    BY <2>2, <2>3
<1>4. CASE StoreRow(p)
  <2>1. Others(p) /\ SameRecords(f) /\ goal[p] \in Goals
    BY <1>4 DEF StoreRow, Return, Others, SameRecords
  <2>2. KeepsList(p, f)
    BY <1>4 DEF StoreRow, Return, KeepsList
  <2>3. KeepsHold(p, f)
    <3>1. SUFFICES ASSUME cur'[p] = f
                   PROVE  KeepsHold(p, f)
      BY DEF KeepsHold
    <3>2. cur[p] = f /\ todo' = todo /\ pc[p] = "store"
      BY <1>4, <3>1 DEF StoreRow, Return
    <3>3. \/ pc'[p] = "fetch" /\ goal[p] = "begin"
          \/ pc'[p] \in {"workflow", "count"} /\ goal[p] \in {"start", "fail"}
          \/ pc'[p] = "read" /\ goal'[p] \in {"complete", "poison"} /\ goal[p] \in {"finish", "fail_final"}
          \/ pc'[p] = "settle_row" /\ mode[p] = "retry" /\ goal'[p] = "none"
      BY <1>4, <3>1, <3>2 DEF StoreRow, Return
    <3>4. Starting(p)' => Starting(p)
      BY <3>2, <3>3 DEF Starting
    <3>5. retry[f].status = "queued" => Requeues(p, f)'
      BY <3>2, <3>3 DEF Owned, Ownership, Requeues
    <3> QED
      BY <3>2, <3>3, <3>4, <3>5 DEF KeepsHold, Claims, Owned, Ownership, Spending
  <2> QED
    BY <2>1, <2>2, <2>3, KeepsOwned
<1> QED
  BY <1>1, <1>2, <1>3, <1>4 DEF Transition

LEMMA QueueRetryOwned ==
    ASSUME TypeOK, Control, NEW f \in Files, Owned(f), NEW p \in Procs, QueueRetry(p)
    PROVE  Owned(f)'
<1> USE FilesAssumption DEF TypeOK, Control, Goto, Enter, Leave, database, threads, history, Transitioning, Working
<1>1. CASE CountAttempts(p)
  <2>1. Others(p) /\ SameRecords(f)
    BY <1>1 DEF CountAttempts, Others, SameRecords
  <2>2. KeepsHold(p, f)
    BY <1>1 DEF CountAttempts, KeepsHold, Owned, Ownership, Spending, Checked, Claims, Starting, Requeues
  <2>3. KeepsList(p, f)
    BY <1>1 DEF CountAttempts, KeepsList
  <2> QED
    BY <2>1, <2>2, <2>3, KeepsOwned
<1>2. CASE Enqueue(p)
  <2>1. Others(p) /\ cur[p] \in Files /\ pc[p] = "enqueue"
    BY <1>2 DEF Enqueue, Others
  <2>2. CASE cur[p] # f
    <3>1. SameRecords(f)
      BY <1>2, <2>2 DEF Enqueue, SameRecords
    <3>2. KeepsHold(p, f) /\ KeepsList(p, f)
      BY <1>2, <2>2 DEF Enqueue, KeepsHold, KeepsList
    <3> QED
      BY <2>1, <3>1, <3>2, KeepsOwned
  <2>3. CASE cur[p] = f
    <3> DEFINE exhausted == tally[p] + 1 >= MaxAttempts
    <3>1. /\ event' = event /\ cur' = cur /\ todo' = todo /\ mode' = mode
          /\ executions' = executions /\ pc'[p] = "read"
          /\ goal'[p] = IF exhausted THEN "poison" ELSE "requeue"
          /\ retry'[f] = [status |-> IF exhausted THEN "poisoned" ELSE "queued",
                          attempts |-> tally[p] + 1, due |-> FALSE]
      BY <1>2, <2>3 DEF Enqueue
    <3>2. tally[p] = retry[f].attempts /\ executions[f] <= retry[f].attempts + 1
          /\ executions[f] <= MaxAttempts
      BY <2>1, <2>3 DEF Owned, Spending
    <3>3. Exists(f)'
      BY <2>3, <3>1 DEF Owned, Ownership, Claims, Exists
    <3>4. retry'[f].status = "queued" => HasAttempt(f)' /\ Requeues(p, f)'
      <4>1. ASSUME ~exhausted
            PROVE  HasAttempt(f)' /\ Requeues(p, f)'
        BY <3>1, <3>2, <4>1, AttemptsAssumption DEF HasAttempt, Requeues
      <4> QED
        BY <3>1, <4>1
    <3>5. ~Starting(p)'
      BY <3>1 DEF Starting
    <3>6. retry[f].attempts \in Nat /\ executions[f] \in Nat /\ f \notin todo[p]
      BY <2>3 DEF Owned, Ownership
    <3>7. executions'[f] <= MaxAttempts /\ executions'[f] <= retry'[f].attempts + 1
      BY <3>1, <3>2, <3>6
    <3> QED
      BY <2>1, <2>3, <3>1, <3>3, <3>4, <3>5, <3>6, <3>7, ChangesOwned DEF Claims
  <2> QED
    BY <2>2, <2>3
<1> QED
  BY <1>1, <1>2 DEF QueueRetry

LEMMA ExecuteOwned ==
    ASSUME TypeOK, Control, NEW f \in Files, Owned(f), NEW p \in Procs,
           Execute(p) \/ RecordFails(p) \/ Crash(p) \/ TriggerScan(p)
    PROVE  Owned(f)'
<1> USE FilesAssumption DEF TypeOK, Control, Goto, Enter, Leave, database, threads, history, Transitioning, Working
<1>1. CASE Record(p)
  <2>1. Others(p) /\ SameRecords(f)
    BY <1>1 DEF Record, Others, SameRecords
  <2>2. KeepsHold(p, f)
    BY <1>1 DEF Record, KeepsHold, Owned, Ownership, Spending, Checked, Claims, Starting, Requeues
  <2>3. KeepsList(p, f)
    BY <1>1 DEF Record, KeepsList
  <2> QED
    BY <2>1, <2>2, <2>3, KeepsOwned
<1>2. CASE WorkflowSucceeds(p)
  <2>1. Others(p) /\ SameRecords(f)
    BY <1>2 DEF WorkflowSucceeds, Others, SameRecords
  <2>2. KeepsHold(p, f)
    BY <1>2 DEF WorkflowSucceeds, KeepsHold, Owned, Ownership, Spending, Checked, Claims, Starting, Requeues
  <2>3. KeepsList(p, f)
    BY <1>2 DEF WorkflowSucceeds, KeepsList
  <2> QED
    BY <2>1, <2>2, <2>3, KeepsOwned
<1>3. ASSUME NEW g \in {"fail", "fail_final"}, WorkflowFails(p, g)
      PROVE  Owned(f)'
  <2>1. Others(p) /\ SameRecords(f)
    BY <1>3 DEF WorkflowFails, Others, SameRecords
  <2>2. KeepsHold(p, f)
    BY <1>3 DEF WorkflowFails, KeepsHold, Owned, Ownership, Spending, Checked, Claims, Starting, Requeues
  <2>3. KeepsList(p, f)
    BY <1>3 DEF WorkflowFails, KeepsList
  <2> QED
    BY <2>1, <2>2, <2>3, KeepsOwned
<1>4. CASE RecordFails(p)
  <2>1. Others(p) /\ SameRecords(f)
    BY <1>4 DEF RecordFails, Unwind, Others, SameRecords
  <2>2. KeepsHold(p, f)
    BY <1>4 DEF RecordFails, Unwind, KeepsHold, Owned, Ownership, Spending, Checked, Claims, Starting, Requeues
  <2>3. KeepsList(p, f)
    BY <1>4 DEF RecordFails, Unwind, KeepsList
  <2> QED
    BY <2>1, <2>2, <2>3, KeepsOwned
<1>5. CASE Crash(p)
  <2>1. Others(p) /\ SameRecords(f)
    BY <1>5 DEF Crash, Unwind, Others, SameRecords
  <2>2. KeepsHold(p, f)
    BY <1>5 DEF Crash, Unwind, KeepsHold, Owned, Ownership, Spending, Checked, Claims, Starting, Requeues
  <2>3. KeepsList(p, f)
    BY <1>5 DEF Crash, Unwind, KeepsList
  <2> QED
    BY <2>1, <2>2, <2>3, KeepsOwned
<1>6. CASE TriggerScan(p)
  <2>1. Others(p) /\ SameRecords(f)
    BY <1>6 DEF TriggerScan, Others, SameRecords
  <2>2. KeepsHold(p, f)
    BY <1>6 DEF TriggerScan, KeepsHold, Owned, Ownership, Spending, Checked, Claims, Starting, Requeues
  <2>3. KeepsList(p, f)
    BY <1>6 DEF TriggerScan, KeepsList
  <2> QED
    BY <2>1, <2>2, <2>3, KeepsOwned
<1> QED
  BY <1>1, <1>2, <1>3, <1>4, <1>5, <1>6 DEF Execute

LEMMA RunOwned ==
    ASSUME TypeOK, Control, NEW f \in Files, Owned(f), NEW p \in Procs, Run(p)
    PROVE  Owned(f)'
<1> USE FilesAssumption DEF TypeOK, Control, Goto, Enter, Leave, database, threads, history, Transitioning, Working
<1>1. CASE ListRun(p)
  <2>1. Others(p) /\ SameRecords(f)
    BY <1>1 DEF ListRun, Others, SameRecords
  <2>2. KeepsHold(p, f)
    BY <1>1 DEF ListRun, KeepsHold, Owned, Ownership, Spending, Checked, Claims, Starting, Requeues
  <2>3. KeepsList(p, f)
    BY <1>1 DEF ListRun, KeepsList
  <2> QED
    BY <2>1, <2>2, <2>3, KeepsOwned
<1>2. ASSUME NEW g \in Files, NextFile(p, g)
      PROVE  Owned(f)'
  <2>1. Others(p) /\ SameRecords(f)
    BY <1>2 DEF NextFile, Listing, Others, SameRecords
  <2>2. KeepsHold(p, f)
    BY <1>2 DEF NextFile, Listing, KeepsHold, Owned, Ownership, Spending, Checked, Claims, Starting, Requeues
  <2>3. KeepsList(p, f)
    BY <1>2 DEF NextFile, Listing, KeepsList
  <2> QED
    BY <2>1, <2>2, <2>3, KeepsOwned
<1>3. CASE EndRun(p)
  <2>1. Others(p) /\ SameRecords(f)
    BY <1>3 DEF EndRun, Others, SameRecords
  <2>2. KeepsHold(p, f)
    BY <1>3 DEF EndRun, KeepsHold, Owned, Ownership, Spending, Checked, Claims, Starting, Requeues
  <2>3. KeepsList(p, f)
    BY <1>3 DEF EndRun, KeepsList
  <2> QED
    BY <2>1, <2>2, <2>3, KeepsOwned
<1> QED
  BY <1>1, <1>2, <1>3 DEF Run


LEMMA RetryPassOwned ==
    ASSUME TypeOK, Control, NEW f \in Files, Owned(f), BeginCycle \/ RetryPass \/ Restart
    PROVE  Owned(f)'
<1> USE FilesAssumption DEF TypeOK, Control, Goto, Enter, Leave, database, threads, history, Transitioning, Working
<1>0. Worker \in Procs
  BY DEF Procs
<1>1. CASE BeginCycle
  <2>1. /\ Others(Worker) /\ SameRecords(f) /\ cur' = cur /\ cur[Worker] # f
        /\ todo'[Worker] = DueRetries /\ mode'[Worker] = "retry"
    BY <1>0, <1>1 DEF BeginCycle, Others, SameRecords
  <2>2. CASE f \notin DueRetries
    <3>1. KeepsHold(Worker, f) /\ KeepsList(Worker, f)
      BY <2>1, <2>2 DEF KeepsHold, KeepsList
    <3> QED
      BY <1>0, <2>1, <3>1, KeepsOwned
  <2>3. CASE f \in DueRetries
    <3>1. retry[f].status = "queued" /\ retry[f].due /\ pc[Worker] = "idle"
      BY <1>1, <2>3 DEF DueRetries, BeginCycle
    <3>2. \A q \in Procs \ {Worker} : ~Claims(q, f)
      <4>1. ASSUME NEW q \in Procs \ {Worker}, cur[q] = f
            PROVE  FALSE
        BY <3>1, <4>1 DEF Owned, Ownership, Requeues
      <4>2. ASSUME NEW q \in Procs \ {Worker}, f \in todo[q]
            PROVE  FALSE
        BY <3>1, <4>2 DEF Owned, Ownership, Listing
      <4> QED
        BY <4>1, <4>2 DEF Claims
    <3>3. \A q \in Procs \ {Worker} : cur'[q] # f /\ f \notin todo'[q]
      BY <2>1, <3>2 DEF Others, Claims
    <3>4. /\ Exists(f) /\ HasAttempt(f)
          /\ executions[f] <= MaxAttempts /\ executions[f] <= retry[f].attempts + 1
      BY <3>1 DEF Owned, Ownership, Spending
    <3>5. /\ Exists(f)' /\ HasAttempt(f)' /\ Listing(Worker, f)'
      BY <2>1, <3>1, <3>4 DEF SameRecords, Exists, HasAttempt, Listing
    <3>6. Ownership(f)'
      BY <2>1, <3>3, <3>5 DEF Ownership, Claims
    <3>7. Spending(f)'
      BY <2>1, <3>3, <3>4, <3>5 DEF Spending, SameRecords
    <3>8. Checked(f)'
      BY <2>1, <3>3 DEF Checked
    <3> QED
      BY <3>6, <3>7, <3>8 DEF Owned
  <2> QED
    BY <2>2, <2>3
<1>2. CASE BeginScan
  <2>1. Others(Worker) /\ SameRecords(f)
    BY <1>0, <1>2 DEF BeginScan, Others, SameRecords
  <2>2. KeepsHold(Worker, f)
    BY <1>0, <1>2 DEF BeginScan, KeepsHold, Owned, Ownership, Spending, Checked, Claims, Starting, Requeues
  <2>3. KeepsList(Worker, f)
    BY <1>0, <1>2 DEF BeginScan, KeepsList
  <2> QED
    BY <1>0, <2>1, <2>2, <2>3, KeepsOwned
<1>3. ASSUME NEW g \in Files, BeginRetry(g)
      PROVE  Owned(f)'
  <2>1. /\ Others(Worker) /\ event' = event /\ executions' = executions
        /\ mode' = mode /\ mode[Worker] = "retry" /\ todo'[Worker] = todo[Worker] \ {g}
        /\ cur'[Worker] = g /\ pc'[Worker] = "read" /\ goal'[Worker] = "begin"
    BY <1>0, <1>3 DEF BeginRetry, Others
  <2>2. CASE g # f
    <3>1. SameRecords(f)
      BY <1>3, <2>1, <2>2 DEF BeginRetry, SameRecords
    <3>2. KeepsHold(Worker, f) /\ KeepsList(Worker, f)
      BY <2>1, <2>2 DEF KeepsHold, KeepsList
    <3> QED
      BY <1>0, <2>1, <3>1, <3>2, KeepsOwned
  <2>3. CASE g = f
    <3>1. f \in todo[Worker] /\ retry'[f].status = "in_progress"
          /\ retry'[f].attempts = retry[f].attempts
      BY <1>3, <2>3 DEF BeginRetry
    <3>2. /\ Exists(f) /\ HasAttempt(f)
          /\ executions[f] <= MaxAttempts /\ executions[f] <= retry[f].attempts + 1
      BY <1>0, <3>1 DEF Owned, Ownership, Spending, Claims
    <3>3. Exists(f)' /\ HasAttempt(f)'
      BY <2>1, <3>1, <3>2 DEF Exists, HasAttempt
    <3> QED
      BY <1>0, <2>1, <2>3, <3>1, <3>2, <3>3, ChangesOwned DEF Claims
  <2> QED
    BY <2>2, <2>3
<1>4. CASE Fetch(Worker)
  <2>1. Others(Worker) /\ SameRecords(f)
    BY <1>0, <1>4 DEF Fetch, Others, SameRecords
  <2>2. KeepsHold(Worker, f)
    BY <1>0, <1>4 DEF Fetch, KeepsHold, Owned, Ownership, Spending, Checked, Claims, Starting, Requeues
  <2>3. KeepsList(Worker, f)
    BY <1>0, <1>4 DEF Fetch, KeepsList
  <2> QED
    BY <1>0, <2>1, <2>2, <2>3, KeepsOwned
<1>5. CASE SettleReadsRow(Worker)
  <2>1. Others(Worker) /\ SameRecords(f)
    BY <1>0, <1>5 DEF SettleReadsRow, Others, SameRecords
  <2>2. KeepsHold(Worker, f)
    BY <1>0, <1>5 DEF SettleReadsRow, KeepsHold, Owned, Ownership, Spending, Checked, Claims, Starting, Requeues
  <2>3. KeepsList(Worker, f)
    BY <1>0, <1>5 DEF SettleReadsRow, KeepsList
  <2> QED
    BY <1>0, <2>1, <2>2, <2>3, KeepsOwned
<1>6. CASE SettleReadsItem(Worker)
  <2>1. Others(Worker) /\ SameRecords(f)
    BY <1>0, <1>6 DEF SettleReadsItem, Others, SameRecords
  <2>2. KeepsHold(Worker, f)
    BY <1>0, <1>6 DEF SettleReadsItem, KeepsHold, Owned, Ownership, Spending, Checked, Claims, Starting, Requeues
  <2>3. KeepsList(Worker, f)
    BY <1>0, <1>6 DEF SettleReadsItem, KeepsList
  <2> QED
    BY <1>0, <2>1, <2>2, <2>3, KeepsOwned
<1>7. CASE SettleMarks(Worker)
  <2>1. Others(Worker) /\ event' = event /\ executions' = executions /\ todo' = todo
    BY <1>0, <1>7 DEF SettleMarks, Others
  <2>2. KeepsList(Worker, f)
    BY <1>0, <1>7 DEF SettleMarks, KeepsList
  <2>3. CASE cur[Worker] # f
    <3>1. SameRecords(f)
      BY <1>0, <1>7, <2>1, <2>3 DEF SettleMarks, SameRecords
    <3>2. KeepsHold(Worker, f)
      BY <1>0, <1>7, <2>3 DEF SettleMarks, KeepsHold
    <3> QED
      BY <1>0, <2>1, <2>2, <3>1, <3>2, KeepsOwned
  <2>4. CASE cur[Worker] = f
    <3>1. retry'[f].status # "queued" /\ retry'[f].attempts = retry[f].attempts
      BY <1>0, <1>7, <2>4 DEF SettleMarks, Verdict
    <3>2. f \notin todo[Worker] /\ Exists(f)
          /\ executions[f] <= MaxAttempts /\ executions[f] <= retry[f].attempts + 1
      BY <1>0, <2>4 DEF Owned, Ownership, Spending, Claims
    <3>3. Exists(f)'
      BY <2>1, <3>2 DEF Exists
    <3>4. cur'[Worker] = f => pc'[Worker] = "count"
      BY <1>0, <1>7, <2>4 DEF SettleMarks
    <3>5. cur'[Worker] = f => ~Starting(Worker)'
      BY <3>4 DEF Starting
    <3> QED
      BY <1>0, <2>1, <2>4, <3>1, <3>2, <3>3, <3>4, <3>5, ChangesOwned DEF Claims
  <2> QED
    BY <2>3, <2>4
<1>8. CASE FailRetry(Worker)
  <2>1. Others(Worker) /\ event' = event /\ executions' = executions /\ todo' = todo
    BY <1>0, <1>8 DEF FailRetry, Others
  <2>2. KeepsList(Worker, f)
    BY <1>0, <1>8 DEF FailRetry, KeepsList
  <2>3. CASE cur[Worker] # f
    <3>1. SameRecords(f)
      BY <1>0, <1>8, <2>1, <2>3 DEF FailRetry, SameRecords
    <3>2. KeepsHold(Worker, f)
      BY <1>0, <1>8, <2>3 DEF FailRetry, KeepsHold
    <3> QED
      BY <1>0, <2>1, <2>2, <3>1, <3>2, KeepsOwned
  <2>4. CASE cur[Worker] = f
    <3>1. retry'[f].status # "queued" /\ retry'[f].attempts = retry[f].attempts
      BY <1>0, <1>8, <2>4 DEF FailRetry
    <3>2. f \notin todo[Worker] /\ Exists(f)
          /\ executions[f] <= MaxAttempts /\ executions[f] <= retry[f].attempts + 1
      BY <1>0, <2>4 DEF Owned, Ownership, Spending, Claims
    <3>3. Exists(f)'
      BY <2>1, <3>2 DEF Exists
    <3>4. cur'[Worker] = f => pc'[Worker] = "count"
      BY <1>0, <1>8, <2>4 DEF FailRetry
    <3>5. cur'[Worker] = f => ~Starting(Worker)'
      BY <3>4 DEF Starting
    <3> QED
      BY <1>0, <2>1, <2>4, <3>1, <3>2, <3>3, <3>4, <3>5, ChangesOwned DEF Claims
  <2> QED
    BY <2>3, <2>4
<1>9. CASE Restart
  <2>1. Others(Worker) /\ SameRecords(f)
    BY <1>0, <1>9 DEF Restart, Others, SameRecords
  <2>2. KeepsHold(Worker, f)
    BY <1>0, <1>9 DEF Restart, KeepsHold, Owned, Ownership, Spending, Checked, Claims, Starting, Requeues
  <2>3. KeepsList(Worker, f)
    BY <1>0, <1>9 DEF Restart, KeepsList
  <2> QED
    BY <1>0, <2>1, <2>2, <2>3, KeepsOwned
<1> QED
  BY <1>1, <1>2, <1>3, <1>4, <1>5, <1>6, <1>7, <1>8, <1>9 DEF RetryPass, Settle

LEMMA ScannedOwned ==
    ASSUME TypeOK, Control, NEW f \in Files, Owned(f), NEW p \in Procs, Scanned(p)
    PROVE  Owned(f)'
<1> USE FilesAssumption DEF TypeOK, Control, Goto, Enter, Leave, database, threads, history, Transitioning, Working
<1>1. PICK g \in Files : (\E status \in {"queued", "skipped"} : Discover(p, g, status))
                           \/ DiscoverError(p, g)
  BY DEF Scanned
<1>2. /\ Others(p) /\ ~Exists(g) /\ mode'[p] = "run" /\ cur' = cur /\ retry' = retry
      /\ todo'[p] = todo[p] \cup {g} /\ executions' = executions /\ mode' = mode
      /\ pc' = pc /\ goal' = goal /\ cur[p] # f
  BY <1>1 DEF Discover, DiscoverError, Others
<1>3. CASE g # f
  <2>1. SameRecords(f)
    BY <1>1, <1>2, <1>3 DEF Discover, DiscoverError, SameRecords
  <2>2. KeepsHold(p, f) /\ KeepsList(p, f)
    BY <1>2, <1>3 DEF KeepsHold, KeepsList
  <2> QED
    BY <1>2, <2>1, <2>2, KeepsOwned
<1>4. CASE g = f
  <2>1. \A q \in Procs : ~Claims(q, f)
    BY <1>2, <1>4 DEF Owned, Ownership
  <2>2. \A q \in Procs \ {p} : cur'[q] # f /\ f \notin todo'[q]
    BY <1>2, <2>1 DEF Others, Claims
  <2>3. retry[f].status = "none" /\ HasAttempt(f)
        /\ executions[f] <= MaxAttempts /\ executions[f] <= retry[f].attempts + 1
    BY <1>2, <1>4 DEF Owned, Ownership, Spending
  <2>4. Exists(f)' /\ HasAttempt(f)' /\ Listing(p, f)'
    BY <1>1, <1>2, <1>4, <2>3 DEF Discover, DiscoverError, Exists, NoStage, HasAttempt, Listing
  <2>5. Ownership(f)'
    BY <1>2, <2>2, <2>4 DEF Ownership, Claims
  <2>6. Spending(f)'
    BY <1>2, <2>2, <2>3, <2>4 DEF Spending
  <2>7. Checked(f)'
    BY <1>2, <2>2 DEF Checked
  <2> QED
    BY <2>5, <2>6, <2>7 DEF Owned
<1> QED
  BY <1>3, <1>4

LEMMA ManualRetryOwned ==
    ASSUME TypeOK, Control, NEW f \in Files, Owned(f), f \notin touched',
           NEW p \in Procs, NEW g \in Files, ManualRetry(p, g)
    PROVE  Owned(f)'
<1> USE FilesAssumption DEF TypeOK, Control, Goto, Enter, Leave, database, threads, history, Transitioning, Working
<1>1. g # f
  BY DEF ManualRetry
<1>2. Others(p) /\ SameRecords(f)
  BY DEF ManualRetry, Others, SameRecords
<1>3. KeepsHold(p, f) /\ KeepsList(p, f)
  BY <1>1 DEF ManualRetry, KeepsHold, KeepsList
<1> QED
  BY <1>2, <1>3, KeepsOwned

LEMMA BackoffOwned ==
    ASSUME TypeOK, Control, NEW f \in Files, Owned(f), NEW g \in Files, BackoffElapses(g)
    PROVE  Owned(f)'
<1> USE FilesAssumption DEF TypeOK, Control, Goto, Enter, Leave, database, threads, history, Transitioning, Working
<1>1. /\ event' = event /\ executions' = executions /\ cur' = cur /\ todo' = todo
      /\ pc' = pc /\ goal' = goal /\ mode' = mode /\ seen' = seen /\ tally' = tally
  BY DEF BackoffElapses
<1>2. /\ retry'[f].status = retry[f].status /\ retry'[f].attempts = retry[f].attempts
      /\ g # f => retry'[f] = retry[f]
  BY DEF BackoffElapses
<1>3. \A q \in Procs : cur'[q] = f /\ retry'[f].status = "queued" => Requeues(q, f)'
  <2>1. CASE g = f
    BY <1>1, <1>2, <2>1 DEF BackoffElapses, Owned, Ownership, Requeues
  <2>2. CASE g # f
    BY <1>1, <1>2, <2>2 DEF Owned, Ownership, Requeues
  <2> QED
    BY <2>1, <2>2
<1>4. Ownership(f)'
  BY <1>1, <1>2, <1>3 DEF Owned, Ownership, Claims, Exists, HasAttempt, Listing
<1>5. Spending(f)'
  BY <1>1, <1>2 DEF Owned, Spending, HasAttempt, Starting
<1>6. Checked(f)'
  BY <1>1 DEF Owned, Checked
<1> QED
  BY <1>4, <1>5, <1>6 DEF Owned

-----------------------------------------------------------------------------
(* The invariant and the theorems.                                         *)

LEMMA InitOwned == Init => IInv
<1> SUFFICES ASSUME Init
             PROVE  IInv
  OBVIOUS
<1>1. TypeOK /\ Control
  BY InitTypes
<1>2. ASSUME NEW f \in Files
      PROVE  Owned(f)
  <2>1. /\ event[f].to = NoStage /\ retry[f].status = "none" /\ retry[f].attempts = 0
        /\ executions[f] = 0
        /\ \A p \in Procs : cur[p] # f /\ todo[p] = {}
    BY FilesAssumption DEF Init
  <2>2. HasAttempt(f) /\ ~Exists(f)
    BY <2>1, AttemptsAssumption DEF HasAttempt, Exists
  <2>3. Ownership(f)
    BY <2>1, <2>2 DEF Ownership, Claims
  <2>4. Spending(f)
    BY <2>1, <2>2, AttemptsAssumption DEF Spending
  <2> QED
    BY <2>1, <2>3, <2>4 DEF Owned, Checked
<1> QED
  BY <1>1, <1>2 DEF IInv

LEMMA TouchedGrows ==
    ASSUME [Next]_vars
    PROVE  touched \subseteq touched'
<1>1. CASE UNCHANGED vars
  BY <1>1 DEF vars, history
<1>2. ASSUME NEW p \in Procs, RetryPass \/ Transition(p) \/ QueueRetry(p)
      PROVE  touched \subseteq touched'
  BY <1>2 DEF RetryPass, Transition, QueueRetry, BeginRetry, Fetch, Settle, SettleReadsRow,
              SettleReadsItem, SettleMarks, FailRetry, ReadStage, Refuse, AppendEvent, StoreRow,
              CountAttempts, Enqueue, BeginCycle, BeginScan, history
<1>3. ASSUME NEW p \in Procs, Execute(p) \/ Run(p) \/ RecordFails(p) \/ Scanned(p)
      PROVE  touched \subseteq touched'
  <2>1. CASE Execute(p) \/ RecordFails(p)
    BY <2>1 DEF Execute, Record, WorkflowSucceeds, WorkflowFails, RecordFails, history
  <2>2. CASE Run(p)
    BY <2>2 DEF Run, ListRun, NextFile, EndRun, history
  <2>3. CASE Scanned(p)
    BY <2>3 DEF Scanned, Discover, DiscoverError, history
  <2> QED
    BY <1>3, <2>1, <2>2, <2>3
<1>4. ASSUME NEW p \in Procs, Crash(p) \/ TriggerScan(p) \/ \E f \in Files : ManualRetry(p, f)
      PROVE  touched \subseteq touched'
  BY <1>4 DEF Crash, TriggerScan, ManualRetry, history
<1>5. CASE BeginCycle \/ Restart \/ \E f \in Files : BackoffElapses(f)
  BY <1>5 DEF BeginCycle, Restart, BackoffElapses, history
<1>6. CASE RetryPass
  BY <1>2, <1>6 DEF Procs
<1> QED
  BY <1>1, <1>2, <1>3, <1>4, <1>5, <1>6 DEF Next, Continue

LEMMA NextOwned ==
    ASSUME IInv, [Next]_vars
    PROVE  IInv'
<1>1. TypeOK' /\ Control'
  BY NextTypes DEF IInv
<1>2. touched \subseteq touched'
  BY TouchedGrows
<1>3. ASSUME NEW f \in Files \ touched'
      PROVE  Owned(f)'
  <2>1. TypeOK /\ Control /\ f \in Files /\ Owned(f)
    BY <1>2 DEF IInv
  <2>2. CASE BeginCycle \/ RetryPass \/ Restart
    BY <2>1, <2>2, RetryPassOwned
  <2>3. ASSUME NEW p \in Procs,
               \/ Continue(p) \/ Scanned(p) \/ RecordFails(p) \/ Crash(p) \/ TriggerScan(p)
               \/ \E g \in Files : ManualRetry(p, g)
        PROVE  Owned(f)'
    <3>1. CASE Transition(p)
      BY <2>1, <3>1, TransitionOwned
    <3>2. CASE QueueRetry(p)
      BY <2>1, <3>2, QueueRetryOwned
    <3>3. CASE Execute(p) \/ RecordFails(p) \/ Crash(p) \/ TriggerScan(p)
      BY <2>1, <3>3, ExecuteOwned
    <3>4. CASE Run(p)
      BY <2>1, <3>4, RunOwned
    <3>5. CASE Scanned(p)
      BY <2>1, <3>5, ScannedOwned
    <3>6. ASSUME NEW g \in Files, ManualRetry(p, g)
          PROVE  Owned(f)'
      BY <1>3, <2>1, <3>6, ManualRetryOwned
    <3> QED
      BY <2>3, <3>1, <3>2, <3>3, <3>4, <3>5, <3>6 DEF Continue
  <2>4. ASSUME NEW g \in Files, BackoffElapses(g)
        PROVE  Owned(f)'
    BY <2>1, <2>4, BackoffOwned
  <2>5. CASE UNCHANGED vars
    BY <2>1, <2>5 DEF vars, database, threads, history, Owned, Ownership, Spending, Checked,
                      Claims, Listing, Exists, HasAttempt, Requeues, Starting
  <2> QED
    BY <2>2, <2>3, <2>4, <2>5 DEF Next
<1> QED
  BY <1>1, <1>3 DEF IInv

\* Each file run nobody retried by hand belongs to one thread at a time, has an
\* attempt left whenever a workflow is about to start, and the stage a thread
\* checked is the latest when it appends the next.
THEOREM OwnedInvariant == Spec => []IInv
<1>1. IInv /\ [Next]_vars => IInv'
  BY NextOwned
<1> QED
  BY InitOwned, <1>1, PTL DEF Spec

\* The workflow of a file run nobody retried by hand starts at most max_attempts
\* times, for every number of threads, scans, crashes and restarts, and whatever
\* is done to other file runs: attempt_count is read and written back by one
\* thread at a time although no transaction protects it.
THEOREM BudgetHolds == Spec => []UntouchedBudget
<1>1. IInv => UntouchedBudget
  BY DEF IInv, Owned, Spending, UntouchedBudget
<1> QED
  BY <1>1, OwnedInvariant, PTL

\* Only three transactions write the timeline
LEMMA EventWriters ==
    ASSUME Next, event' # event
    PROVE  \E p \in Procs : AppendEvent(p) \/ Scanned(p)
BY DEF Next, BeginCycle, RetryPass, Restart, BeginScan, BeginRetry, Fetch, Settle,
       SettleReadsRow, SettleReadsItem, SettleMarks, FailRetry, Continue, Transition,
       ReadStage, Refuse, StoreRow, QueueRetry, CountAttempts, Enqueue, Execute, Record,
       WorkflowSucceeds, WorkflowFails, Run, ListRun, NextFile, EndRun, RecordFails, Crash,
       TriggerScan, ManualRetry, BackoffElapses, database

\* The timeline of a file run nobody retried by hand is one chain that the policy
\* allows, for every number of threads, scans, crashes and restarts: the stage that
\* transition() reads and checks in one transaction is still the latest when it
\* appends in another.
THEOREM TimelineLegal == Spec => UntouchedTimeline
<1> DEFINE Chain == \A f \in Files \ touched' :
                      event'[f] # event[f] /\ Exists(f) =>
                          event'[f].from = event[f].to /\ Legal(event[f].to, event'[f].to)
<1>1. IInv /\ [Next]_vars => [Chain]_vars
  <2> SUFFICES ASSUME IInv, Next, NEW f \in Files \ touched', event'[f] # event[f], Exists(f)
               PROVE  event'[f].from = event[f].to /\ Legal(event[f].to, event'[f].to)
    OBVIOUS
  <2>1. f \in Files /\ TypeOK /\ Control /\ Owned(f)
    BY TouchedGrows DEF IInv
  <2>2. PICK p \in Procs : AppendEvent(p) \/ Scanned(p)
    BY EventWriters
  <2>3. ~Scanned(p)
    BY <2>1 DEF Scanned, Discover, DiscoverError, TypeOK, Exists
  <2>4. /\ pc[p] = "append" /\ cur[p] \in Files
        /\ event' = [event EXCEPT ![cur[p]] = [from |-> seen[p], to |-> Target[goal[p]].stage]]
    BY <2>1, <2>2, <2>3 DEF AppendEvent, Control, Working, Transitioning
  <2>5. cur[p] = f
    BY <2>1, <2>4 DEF TypeOK
  <2>6. event'[f] = [from |-> seen[p], to |-> Target[goal[p]].stage]
    BY <2>1, <2>4, <2>5 DEF TypeOK
  <2>7. seen[p] = event[f].to /\ Legal(event[f].to, Target[goal[p]].stage)
    BY <2>1, <2>4, <2>5 DEF Owned, Checked
  <2> QED
    BY <2>6, <2>7
<1> QED
  BY <1>1, OwnedInvariant, PTL DEF Spec, UntouchedTimeline


-----------------------------------------------------------------------------
(***************************************************************************)
(* As long as nothing crashes, the three tables say the same of each file  *)
(* run nobody retried by hand, and every transition the code asks for is   *)
(* one the policy allows: only an operator, or a crash, stops the worker.  *)
(***************************************************************************)

(* The inductive invariant.                                                *)

\* The stage from which each transition of a run, or of a retry pass, starts
Source(m) ==
    [begin      |-> "retry_queued",
     start      |-> IF m = "retry" THEN "retrying" ELSE "discovered",
     finish     |-> "workflow_started",
     complete   |-> "workflow_completed",
     fail       |-> "workflow_started",
     fail_final |-> "workflow_started",
     poison     |-> "failed",
     requeue    |-> "failed"]

Settling(p) == pc[p] \in {"settle_row", "settle_item", "settle_mark"}

\* Where thread p is tells the latest stage of f, which p has in hand ...
Stage(p, f) ==
    /\ mode[p] \in {"retry", "run"} /\ pc[p] # "fail_retry"
    /\ pc[p] \in {"read", "append"} => event[f].to = Source(mode[p])[goal[p]]
    /\ pc[p] = "store" => event[f].to = Target[goal[p]].stage
    /\ pc[p] = "fetch" => event[f].to = "retrying" /\ row[f].status = "running"
    /\ pc[p] = "record" => event[f].to = Source(mode[p]).start
    /\ pc[p] = "workflow" => event[f].to = "workflow_started"
    /\ pc[p] \in {"count", "enqueue"} => event[f].to = "failed"
    /\ Settling(p) => /\ event[f].to \in {"completed", "poisoned", "retry_queued"}
                      /\ row[f].stage = event[f].to
    /\ pc[p] \in {"settle_item", "settle_mark"} => seen[p] = event[f].to
    /\ pc[p] = "settle_mark" => event[f].to # "retry_queued"

\* ... and the status of its retry
Item(p, f) ==
    /\ retry[f].status \in {IF mode[p] = "run" THEN "none" ELSE "in_progress", "queued", "poisoned"}
    /\ retry[f].status = "queued" <=>
         goal[p] = "requeue" \/ (Settling(p) /\ event[f].to = "retry_queued")
    /\ retry[f].status = "poisoned" =>
         \/ pc[p] \in Transitioning /\ goal[p] = "poison"
         \/ Settling(p) /\ event[f].to = "poisoned"

\* Row and retry of f agree with its timeline
Matches(f) ==
    /\ \/ row[f].stage = event[f].to
       \/ row[f].stage = "discovered" /\ event[f].from = NoStage
    /\ (retry[f].status = "queued") <=> (event[f].to = "retry_queued")
    /\ retry[f].status = "done" => event[f].to = "completed"
    /\ retry[f].status = "poisoned" => event[f].to = "poisoned"
    /\ retry[f].status \notin {"in_progress", "failed"}

\* What a run has listed was discovered, and nothing else happened to it
Found(p, f) == pc[p] # "scan" \/ row[f].status = "queued" => event[f].to = "discovered"

Settled(f) ==
    /\ (\A p \in Procs : cur[p] # f) => Matches(f)
    /\ \A p \in Procs : cur[p] = f => Stage(p, f) /\ Item(p, f)
    /\ \A p \in Procs : f \in todo[p] /\ mode[p] = "run" => Found(p, f)

Agreement == faults = 0 => \A f \in Files \ touched : Settled(f)

QInv == IInv /\ Agreement /\ KilledOnlyWhenProvoked

-----------------------------------------------------------------------------
(* Frames.                                                                 *)

LEMMA SourcesLegal ==
    ASSUME NEW m \in {"retry", "run"}, NEW g \in Goals
    PROVE  Legal(Source(m)[g], Target[g].stage)
BY GoalNames DEF Source, Target, Legal, Allowed, NoStage, Stages

\* Thread p has f in hand before the step, or takes it from its list: nobody else
\* has a part in f.
LEMMA HandSettled ==
    ASSUME NEW f \in Files, NEW p \in Procs, Owned(f), Others(p), Claims(p, f),
           f \notin todo'[p],
           cur'[p] = f => Stage(p, f)' /\ Item(p, f)',
           cur'[p] # f => Matches(f)'
    PROVE  Settled(f)'
<1>1. \A q \in Procs \ {p} : ~Claims(q, f)
  BY DEF Owned, Ownership
<1>2. \A q \in Procs \ {p} : cur'[q] # f /\ f \notin todo'[q]
  BY <1>1 DEF Others, Claims
<1> QED
  BY <1>2 DEF Settled

Unchanged(f) ==
    event'[f] = event[f] /\ row'[f] = row[f] /\ retry'[f].status = retry[f].status

\* Thread p has nothing to do with f, but for a list that f may stay in.
LEMMA AwaySettled ==
    ASSUME NEW f \in Files, NEW p \in Procs, Settled(f), Others(p), Unchanged(f),
           cur[p] # f, cur'[p] # f,
           f \in todo'[p] /\ mode'[p] = "run" => Found(p, f)'
    PROVE  Settled(f)'
<1>1. (\A q \in Procs : cur'[q] # f) => Matches(f)'
  BY DEF Settled, Others, Unchanged, Matches
<1>2. ASSUME NEW q \in Procs \ {p}
      PROVE  /\ cur'[q] = f => Stage(q, f)' /\ Item(q, f)'
             /\ f \in todo'[q] /\ mode'[q] = "run" => Found(q, f)'
  <2>1. /\ pc'[q] = pc[q] /\ mode'[q] = mode[q] /\ cur'[q] = cur[q] /\ goal'[q] = goal[q]
        /\ seen'[q] = seen[q] /\ todo'[q] = todo[q]
    BY DEF Others
  <2>2. Stage(q, f) => Stage(q, f)'
    BY <2>1 DEF Stage, Settling, Unchanged
  <2>3. Item(q, f) => Item(q, f)'
    BY <2>1 DEF Item, Settling, Unchanged
  <2>4. Found(q, f) => Found(q, f)'
    BY <2>1 DEF Found, Unchanged
  <2> QED
    BY <2>1, <2>2, <2>3, <2>4 DEF Settled
<1> QED
  BY <1>1, <1>2 DEF Settled

-----------------------------------------------------------------------------
(* Each step keeps each file run settled.                                  *)

LEMMA TransitionSettled ==
    ASSUME TypeOK, Control, NEW f \in Files, Owned(f), Settled(f), NEW p \in Procs, Transition(p)
    PROVE  Settled(f)' /\ (cur[p] = f => ~Refuse(p))
<1> USE FilesAssumption DEF TypeOK, Control, Goto, Enter, Leave, database, threads, history, Transitioning, Working
<1>1. pc[p] \in Transitioning /\ cur[p] \in Files /\ goal[p] \in Goals
  BY DEF Transition, ReadStage, Refuse, AppendEvent, StoreRow
<1>2. CASE cur[p] # f
  <2>1. Others(p) /\ Unchanged(f) /\ cur'[p] # f
    <3>1. CASE ReadStage(p)
      BY <1>2, <3>1 DEF ReadStage, Others, Unchanged
    <3>2. CASE Refuse(p)
      BY <1>2, <3>2 DEF Refuse, Unwind, Others, Unchanged
    <3>3. CASE AppendEvent(p)
      BY <1>2, <3>3 DEF AppendEvent, Others, Unchanged
    <3>4. CASE StoreRow(p)
      BY <1>2, <3>4 DEF StoreRow, Return, Others, Unchanged
    <3> QED
      BY <3>1, <3>2, <3>3, <3>4 DEF Transition
  <2>2. f \in todo'[p] /\ mode'[p] = "run" => f \in todo[p] /\ mode[p] = "run"
    BY DEF Transition, ReadStage, Refuse, Unwind, AppendEvent, StoreRow, Return
  <2>3. f \in todo'[p] /\ mode'[p] = "run" => Found(p, f)'
    BY <1>1, <2>1, <2>2 DEF Settled, Found, Unchanged
  <2> QED
    BY <1>2, <2>1, <2>3, AwaySettled
<1>3. CASE cur[p] = f
  <2>1. Stage(p, f) /\ Item(p, f) /\ f \notin todo[p] /\ Claims(p, f)
    BY <1>3 DEF Settled, Owned, Ownership, Claims
  <2>2. mode[p] \in {"retry", "run"}
    BY <2>1 DEF Stage
  <2>3. ~Refuse(p)
    BY <1>1, <1>3, <2>1, <2>2, SourcesLegal DEF Refuse, Stage
  <2>4. CASE ReadStage(p)
    <3>1. /\ Others(p) /\ todo' = todo /\ cur' = cur /\ event' = event /\ row' = row
          /\ retry' = retry /\ mode' = mode /\ goal' = goal /\ pc[p] = "read" /\ pc'[p] = "append"
      BY <2>4 DEF ReadStage, Others
    <3>2. Stage(p, f)' /\ Item(p, f)'
      BY <2>1, <3>1 DEF Stage, Item, Settling
    <3> QED
      BY <1>3, <2>1, <2>3, <3>1, <3>2, HandSettled
  <2>5. CASE AppendEvent(p)
    <3>1. /\ Others(p) /\ todo' = todo /\ cur' = cur /\ row' = row
          /\ retry' = retry /\ mode' = mode /\ goal' = goal /\ pc[p] = "append" /\ pc'[p] = "store"
          /\ event'[f].to = Target[goal[p]].stage
      BY <1>1, <1>3, <2>5 DEF AppendEvent, Others
    <3>2. Stage(p, f)' /\ Item(p, f)'
      BY <2>1, <3>1 DEF Stage, Item, Settling
    <3> QED
      BY <1>3, <2>1, <2>3, <3>1, <3>2, HandSettled
  <2>6. CASE StoreRow(p)
    <3>1. /\ Others(p) /\ todo' = todo /\ event' = event /\ retry' = retry /\ pc[p] = "store"
          /\ row'[f] = Target[goal[p]]
      BY <1>3, <2>6 DEF StoreRow, Return, Others
    <3>2. event[f].to = Target[goal[p]].stage
      BY <2>1, <3>1 DEF Stage
    <3>3. CASE goal[p] \in {"begin", "start", "fail"}
      <4>1. /\ cur' = cur /\ mode' = mode /\ goal' = goal
            /\ pc'[p] = CASE goal[p] = "begin" -> "fetch" [] goal[p] = "start" -> "workflow"
                          [] OTHER -> "count"
        BY <2>6, <3>3 DEF StoreRow
      <4>2. Stage(p, f)'
        BY <2>2, <3>1, <3>2, <3>3, <4>1 DEF Stage, Settling, Target
      <4>3. Item(p, f)'
        BY <2>1, <3>1, <3>3, <4>1 DEF Item, Settling
      <4> QED
        BY <1>3, <2>1, <2>3, <3>1, <4>1, <4>2, <4>3, HandSettled
    <3>4. CASE goal[p] \in {"finish", "fail_final"}
      <4>1. /\ cur' = cur /\ mode' = mode /\ pc'[p] = "read"
            /\ goal'[p] = IF goal[p] = "finish" THEN "complete" ELSE "poison"
        BY <2>6, <3>4 DEF StoreRow
      <4>2. Stage(p, f)'
        BY <2>2, <3>1, <3>2, <3>4, <4>1 DEF Stage, Settling, Target, Source
      <4>3. Item(p, f)'
        BY <2>1, <3>1, <3>4, <4>1 DEF Item, Settling
      <4> QED
        BY <1>3, <2>1, <2>3, <3>1, <4>1, <4>2, <4>3, HandSettled
    <3>5. CASE goal[p] \in {"complete", "poison", "requeue"}
      <4>1. /\ event[f].to = CASE goal[p] = "complete" -> "completed" [] goal[p] = "poison" -> "poisoned"
                               [] OTHER -> "retry_queued"
            /\ row'[f].stage = event[f].to
        BY <3>1, <3>2, <3>5 DEF Target
      <4>2. Return(p)
        BY <2>6, <3>5 DEF StoreRow
      <4>3. CASE mode[p] = "retry"
        <5>1. cur' = cur /\ mode' = mode /\ pc'[p] = "settle_row" /\ goal'[p] = "none"
          BY <4>2, <4>3 DEF Return
        <5>2. Stage(p, f)'
          BY <3>1, <3>5, <4>1, <4>3, <5>1 DEF Stage, Settling
        <5>3. Item(p, f)'
          BY <2>1, <3>1, <3>5, <4>1, <4>3, <5>1 DEF Item, Settling
        <5> QED
          BY <1>3, <2>1, <2>3, <3>1, <5>1, <5>2, <5>3, HandSettled
      <4>4. CASE mode[p] = "run"
        <5>1. cur'[p] = NoFile
          BY <4>2, <4>4 DEF Return
        <5>2. Matches(f)'
          BY <2>1, <3>1, <3>5, <4>1, <4>4 DEF Matches, Item, Settling
        <5> QED
          BY <1>3, <2>1, <2>3, <3>1, <5>1, <5>2, HandSettled
      <4> QED
        BY <2>2, <4>3, <4>4
    <3> QED
      BY <1>1, <3>3, <3>4, <3>5, GoalNames
  <2> QED
    BY <2>3, <2>4, <2>5, <2>6 DEF Transition
<1> QED
  BY <1>2, <1>3

LEMMA QueueRetrySettled ==
    ASSUME TypeOK, Control, NEW f \in Files, Owned(f), Settled(f), NEW p \in Procs, QueueRetry(p)
    PROVE  Settled(f)'
<1> USE FilesAssumption DEF TypeOK, Control, Goto, Enter, Leave, database, threads, history, Transitioning, Working
<1>1. pc[p] \in {"count", "enqueue"} /\ todo' = todo /\ mode' = mode /\ cur' = cur
      /\ event' = event /\ row' = row /\ Others(p)
  BY DEF QueueRetry, CountAttempts, Enqueue, Others
<1>2. CASE cur[p] # f
  <2>1. Unchanged(f)
    BY <1>1, <1>2 DEF QueueRetry, CountAttempts, Enqueue, Unchanged
  <2>2. f \in todo'[p] /\ mode'[p] = "run" => Found(p, f)'
    BY <1>1 DEF Settled, Found
  <2> QED
    BY <1>1, <1>2, <2>1, <2>2, AwaySettled
<1>3. CASE cur[p] = f
  <2>1. Stage(p, f) /\ Item(p, f) /\ f \notin todo[p] /\ Claims(p, f)
    BY <1>3 DEF Settled, Owned, Ownership, Claims
  <2>2. CASE CountAttempts(p)
    <3>1. retry' = retry /\ goal' = goal /\ pc[p] = "count" /\ pc'[p] = "enqueue"
      BY <2>2 DEF CountAttempts
    <3>2. Stage(p, f)' /\ Item(p, f)'
      BY <1>1, <2>1, <3>1 DEF Stage, Item, Settling
    <3> QED
      BY <1>1, <1>3, <2>1, <3>2, HandSettled
  <2>3. CASE Enqueue(p)
    <3>1. /\ pc[p] = "enqueue" /\ pc'[p] = "read"
          /\ \/ retry'[f].status = "queued" /\ goal'[p] = "requeue"
             \/ retry'[f].status = "poisoned" /\ goal'[p] = "poison"
      BY <1>3, <2>3 DEF Enqueue
    <3>2. Stage(p, f)' /\ Item(p, f)'
      BY <1>1, <2>1, <3>1 DEF Stage, Item, Settling, Source
    <3> QED
      BY <1>1, <1>3, <2>1, <3>2, HandSettled
  <2> QED
    BY <2>2, <2>3 DEF QueueRetry
<1> QED
  BY <1>2, <1>3

LEMMA ExecuteSettled ==
    ASSUME TypeOK, Control, NEW f \in Files, Owned(f), Settled(f), NEW p \in Procs,
           Execute(p) \/ TriggerScan(p)
    PROVE  Settled(f)'
<1> USE FilesAssumption DEF TypeOK, Control, Goto, Enter, Leave, database, threads, history, Transitioning, Working
<1>1. CASE TriggerScan(p)
  <2>1. Others(p) /\ Unchanged(f) /\ cur[p] # f /\ cur'[p] # f
    BY <1>1 DEF TriggerScan, Others, Unchanged
  <2>2. f \in todo'[p] /\ mode'[p] = "run" => Found(p, f)'
    BY <1>1 DEF TriggerScan, Settled, Found
  <2> QED
    BY <2>1, <2>2, AwaySettled
<1>2. CASE Execute(p)
  <2>1. /\ todo' = todo /\ mode' = mode /\ cur' = cur /\ event' = event /\ row' = row
        /\ retry' = retry /\ Others(p) /\ pc'[p] = "read"
        /\ \/ pc[p] = "record" /\ goal'[p] = "start"
           \/ pc[p] = "workflow" /\ goal'[p] \in {"finish", "fail", "fail_final"}
    BY <1>2 DEF Execute, Record, WorkflowSucceeds, WorkflowFails, Others
  <2>2. CASE cur[p] # f
    <3>1. Unchanged(f)
      BY <2>1 DEF Unchanged
    <3>2. f \in todo'[p] /\ mode'[p] = "run" => Found(p, f)'
      BY <2>1 DEF Settled, Found
    <3> QED
      BY <2>1, <2>2, <3>1, <3>2, AwaySettled
  <2>3. CASE cur[p] = f
    <3>1. Stage(p, f) /\ Item(p, f) /\ f \notin todo[p] /\ Claims(p, f)
      BY <2>3 DEF Settled, Owned, Ownership, Claims
    <3>2. Stage(p, f)' /\ Item(p, f)'
      BY <2>1, <3>1 DEF Stage, Item, Settling, Source
    <3> QED
      BY <2>1, <2>3, <3>1, <3>2, HandSettled
  <2> QED
    BY <2>2, <2>3
<1> QED
  BY <1>1, <1>2

LEMMA RunSettled ==
    ASSUME TypeOK, Control, NEW f \in Files, Owned(f), Settled(f), NEW p \in Procs, Run(p)
    PROVE  Settled(f)'
<1> USE FilesAssumption DEF TypeOK, Control, Goto, Enter, Leave, database, threads, history, Transitioning, Working
<1>1. CASE ListRun(p)
  <2>1. Others(p) /\ Unchanged(f) /\ cur[p] # f /\ cur'[p] # f
    BY <1>1 DEF ListRun, Others, Unchanged
  <2>2. f \in todo'[p] /\ mode'[p] = "run" => Found(p, f)'
    BY <1>1 DEF ListRun, Settled, Found
  <2> QED
    BY <2>1, <2>2, AwaySettled
<1>2. CASE EndRun(p)
  <2>1. Others(p) /\ Unchanged(f) /\ cur[p] # f /\ cur'[p] # f
    BY <1>2 DEF EndRun, Others, Unchanged
  <2>2. f \in todo'[p] /\ mode'[p] = "run" => Found(p, f)'
    BY <1>2 DEF EndRun, Settled, Found
  <2> QED
    BY <2>1, <2>2, AwaySettled
<1>3. ASSUME NEW g \in Files, NextFile(p, g)
      PROVE  Settled(f)'
  <2>1. /\ Others(p) /\ event' = event /\ row' = row /\ retry' = retry /\ mode' = mode
        /\ goal' = goal /\ pc[p] = "next" /\ pc'[p] = "record" /\ mode[p] = "run"
        /\ g \in todo[p] /\ todo'[p] = todo[p] \ {g} /\ cur'[p] = g /\ cur[p] # f
    BY <1>3 DEF NextFile, Others
  <2>2. f \in todo[p] => event[f].to = "discovered" /\ retry[f].status = "none"
    BY <2>1 DEF Settled, Found, Owned, Ownership, Listing
  <2>3. CASE g # f
    <3>1. f \in todo'[p] /\ mode'[p] = "run" => Found(p, f)'
      BY <2>1, <2>2 DEF Found
    <3> QED
      BY <2>1, <2>3, <3>1, AwaySettled DEF Unchanged
  <2>4. CASE g = f
    <3>1. Stage(p, f)'
      BY <2>1, <2>2, <2>4 DEF Stage, Settling, Source
    <3>2. Item(p, f)'
      BY <2>1, <2>2, <2>4 DEF Item, Settling
    <3> QED
      BY <2>1, <2>4, <3>1, <3>2, HandSettled DEF Claims
  <2> QED
    BY <2>3, <2>4
<1> QED
  BY <1>1, <1>2, <1>3 DEF Run

LEMMA RetryPassSettled ==
    ASSUME TypeOK, Control, NEW f \in Files, Owned(f), Settled(f), BeginCycle \/ RetryPass \/ Restart
    PROVE  Settled(f)'
<1> USE FilesAssumption DEF TypeOK, Control, Goto, Enter, Leave, database, threads, history, Transitioning, Working
<1>0. Worker \in Procs
  BY DEF Procs
<1>1. CASE BeginCycle
  <2>1. Others(Worker) /\ Unchanged(f) /\ cur[Worker] # f /\ cur'[Worker] # f
    BY <1>0, <1>1 DEF BeginCycle, Others, Unchanged
  <2>2. f \in todo'[Worker] /\ mode'[Worker] = "run" => Found(Worker, f)'
    BY <1>0, <1>1 DEF BeginCycle, Settled, Found
  <2> QED
    BY <1>0, <2>1, <2>2, AwaySettled
<1>2. CASE BeginScan
  <2>1. Others(Worker) /\ Unchanged(f) /\ cur[Worker] # f /\ cur'[Worker] # f
    BY <1>0, <1>2 DEF BeginScan, Others, Unchanged
  <2>2. f \in todo'[Worker] /\ mode'[Worker] = "run" => Found(Worker, f)'
    BY <1>0, <1>2 DEF BeginScan, Settled, Found
  <2> QED
    BY <1>0, <2>1, <2>2, AwaySettled
<1>3. CASE Restart
  <2>1. Others(Worker) /\ Unchanged(f) /\ cur[Worker] # f /\ cur'[Worker] # f
    BY <1>0, <1>3 DEF Restart, Others, Unchanged, Stopped
  <2>2. mode'[Worker] = "idle"
    BY <1>0, <1>3 DEF Restart, Stopped
  <2> QED
    BY <1>0, <2>1, <2>2, AwaySettled
<1>4. ASSUME NEW g \in Files, BeginRetry(g)
      PROVE  Settled(f)'
  <2>1. /\ Others(Worker) /\ event' = event /\ row' = row /\ mode' = mode /\ mode[Worker] = "retry"
        /\ g \in todo[Worker] /\ todo'[Worker] = todo[Worker] \ {g} /\ cur'[Worker] = g
        /\ pc'[Worker] = "read" /\ goal'[Worker] = "begin" /\ cur[Worker] # f
    BY <1>0, <1>4 DEF BeginRetry, Others
  <2>2. CASE g # f
    <3>1. Unchanged(f)
      BY <1>4, <2>1, <2>2 DEF BeginRetry, Unchanged
    <3> QED
      BY <1>0, <2>1, <2>2, <3>1, AwaySettled
  <2>3. CASE g = f
    <3>1. retry[f].status = "queued" /\ retry'[f].status = "in_progress"
      BY <1>0, <1>4, <2>1, <2>3 DEF BeginRetry, Owned, Ownership, Listing
    <3>2. \A q \in Procs : cur[q] # f
      BY <1>0, <2>1, <2>3 DEF Owned, Ownership, Claims
    <3>3. event[f].to = "retry_queued"
      BY <3>1, <3>2 DEF Settled, Matches
    <3>4. Stage(Worker, f)'
      BY <2>1, <3>3 DEF Stage, Settling, Source
    <3>5. Item(Worker, f)'
      BY <2>1, <3>1 DEF Item, Settling
    <3> QED
      BY <1>0, <2>1, <2>3, <3>4, <3>5, HandSettled DEF Claims
  <2> QED
    BY <2>2, <2>3
<1>5. CASE Fetch(Worker) \/ Settle(Worker) \/ FailRetry(Worker)
  <2>1. /\ Others(Worker) /\ event' = event /\ row' = row /\ todo' = todo
        /\ mode[Worker] = "retry" /\ mode'[Worker] # "run"
        /\ cur[Worker] # f => Unchanged(f) /\ cur'[Worker] # f
    BY <1>0, <1>5 DEF Fetch, Settle, SettleReadsRow, SettleReadsItem, SettleMarks, FailRetry,
                     Others, Unchanged
  <2>2. CASE cur[Worker] # f
    BY <1>0, <2>1, <2>2, AwaySettled
  <2>3. CASE cur[Worker] = f
    <3>1. /\ Stage(Worker, f) /\ Item(Worker, f) /\ f \notin todo[Worker] /\ Claims(Worker, f)
      BY <1>0, <2>3 DEF Settled, Owned, Ownership, Claims
    <3>2. CASE Fetch(Worker)
      <4>1. /\ cur' = cur /\ mode' = mode /\ goal' = goal /\ retry' = retry
            /\ pc[Worker] = "fetch" /\ pc'[Worker] = "record"
        BY <1>0, <2>3, <3>1, <3>2 DEF Fetch, Stage
      <4>2. Stage(Worker, f)' /\ Item(Worker, f)'
        BY <2>1, <3>1, <4>1 DEF Stage, Item, Settling, Source
      <4> QED
        BY <1>0, <2>1, <2>3, <3>1, <4>1, <4>2, HandSettled
    <3>3. CASE SettleReadsRow(Worker)
      <4>1. /\ cur' = cur /\ mode' = mode /\ goal' = goal /\ retry' = retry
            /\ pc[Worker] = "settle_row" /\ pc'[Worker] = "settle_item"
            /\ seen'[Worker] = row[f].stage
        BY <1>0, <2>3, <3>3 DEF SettleReadsRow
      <4>2. Stage(Worker, f)' /\ Item(Worker, f)'
        BY <2>1, <3>1, <4>1 DEF Stage, Item, Settling
      <4> QED
        BY <1>0, <2>1, <2>3, <3>1, <4>1, <4>2, HandSettled
    <3>4. CASE SettleReadsItem(Worker)
      <4>1. /\ retry' = retry /\ pc[Worker] = "settle_item" /\ goal[Worker] # "requeue"
            /\ seen[Worker] = event[f].to
        BY <1>0, <3>1, <3>4 DEF SettleReadsItem, Stage
      <4>2. CASE retry[f].status \in {"none", "queued"} \/ seen[Worker] = "retry_queued"
        <5>1. cur'[Worker] = NoFile
          BY <1>0, <2>3, <3>4, <4>2 DEF SettleReadsItem
        <5>2. Matches(f)'
          BY <2>1, <3>1, <4>1, <4>2 DEF Stage, Item, Settling, Matches
        <5> QED
          BY <1>0, <2>1, <3>1, <5>1, <5>2, HandSettled
      <4>3. CASE ~(retry[f].status \in {"none", "queued"} \/ seen[Worker] = "retry_queued")
        <5>1. /\ cur' = cur /\ mode' = mode /\ goal' = goal /\ seen' = seen
              /\ pc'[Worker] = "settle_mark"
          BY <1>0, <2>3, <3>4, <4>3 DEF SettleReadsItem
        <5>2. Stage(Worker, f)' /\ Item(Worker, f)'
          BY <2>1, <3>1, <4>1, <4>3, <5>1 DEF Stage, Item, Settling
        <5> QED
          BY <1>0, <2>1, <2>3, <3>1, <5>1, <5>2, HandSettled
      <4> QED
        BY <4>2, <4>3
    <3>5. CASE SettleMarks(Worker)
      <4>1. /\ cur'[Worker] = NoFile /\ retry'[f].status = Verdict(seen[Worker])
            /\ pc[Worker] = "settle_mark"
        BY <1>0, <2>3, <3>5 DEF SettleMarks
      <4>2. /\ event[f].to \in {"completed", "poisoned"} /\ row[f].stage = event[f].to
            /\ retry'[f].status = IF event[f].to = "completed" THEN "done" ELSE "poisoned"
        BY <3>1, <4>1 DEF Stage, Settling, Verdict
      <4>3. Matches(f)'
        BY <2>1, <4>2 DEF Matches
      <4> QED
        BY <1>0, <2>1, <3>1, <4>1, <4>3, HandSettled
    <3>6. ~FailRetry(Worker)
      BY <3>1 DEF FailRetry, Stage
    <3> QED
      BY <1>5, <3>2, <3>3, <3>4, <3>5, <3>6 DEF Settle
  <2> QED
    BY <2>2, <2>3
<1> QED
  BY <1>1, <1>2, <1>3, <1>4, <1>5 DEF RetryPass

LEMMA ScannedSettled ==
    ASSUME TypeOK, Control, NEW f \in Files, Owned(f), Settled(f), NEW p \in Procs, Scanned(p)
    PROVE  Settled(f)'
<1> USE FilesAssumption DEF TypeOK, Control, Goto, Enter, Leave, database, threads, history, Transitioning, Working
<1>1. PICK g \in Files : (\E status \in {"queued", "skipped"} : Discover(p, g, status))
                           \/ DiscoverError(p, g)
  BY DEF Scanned
<1>2. /\ Others(p) /\ ~Exists(g) /\ cur' = cur /\ retry' = retry /\ pc' = pc /\ pc[p] = "scan"
      /\ todo'[p] = todo[p] \cup {g} /\ mode' = mode
  BY <1>1 DEF Discover, DiscoverError, Others
<1>3. mode[p] = "run" /\ cur[p] # f
  BY <1>2
<1>4. \/ event'[g].to = "discovered" /\ row'[g].stage = "discovered"
      \/ /\ event'[g].from = NoStage /\ event'[g].to = "failed"
         /\ row'[g].stage = "discovered" /\ row'[g].status = "failed"
  <2>1. ASSUME NEW status \in {"queued", "skipped"}, Discover(p, g, status)
        PROVE  event'[g].to = "discovered" /\ row'[g].stage = "discovered"
    BY <2>1 DEF Discover
  <2>2. CASE DiscoverError(p, g)
    BY <2>2 DEF DiscoverError
  <2> QED
    BY <1>1, <2>1, <2>2
<1>5. CASE g # f
  <2>1. Unchanged(f)
    BY <1>1, <1>2, <1>5 DEF Discover, DiscoverError, Unchanged
  <2>2. f \in todo'[p] => Found(p, f)'
    BY <1>2, <1>5, <1>3, <2>1 DEF Settled, Found, Unchanged
  <2> QED
    BY <1>2, <1>3, <2>1, <2>2, AwaySettled
<1>6. CASE g = f
  <2>1. (\A q \in Procs : ~Claims(q, f)) /\ retry[f].status = "none"
    BY <1>2, <1>6 DEF Owned, Ownership
  <2>2. \A q \in Procs \ {p} : cur'[q] # f /\ f \notin todo'[q]
    BY <1>2, <2>1 DEF Others, Claims
  <2>3. Matches(f)' /\ Found(p, f)'
    BY <1>2, <1>6, <1>4, <2>1 DEF Matches, Found
  <2> QED
    BY <1>2, <1>3, <2>2, <2>3 DEF Settled
<1> QED
  BY <1>5, <1>6

LEMMA EnvironmentSettled ==
    ASSUME TypeOK, Control, NEW f \in Files, Owned(f), Settled(f), f \notin touched', NEW g \in Files,
           (\E p \in Procs : ManualRetry(p, g)) \/ BackoffElapses(g)
    PROVE  Settled(f)'
<1> USE FilesAssumption DEF TypeOK, Control, Goto, Enter, Leave, database, threads, history, Transitioning, Working
<1>1. ASSUME NEW p \in Procs, ManualRetry(p, g)
      PROVE  Settled(f)'
  <2>1. Others(p) /\ Unchanged(f) /\ cur[p] # f /\ cur'[p] # f /\ mode'[p] = "manual"
    BY <1>1 DEF ManualRetry, Others, Unchanged
  <2> QED
    BY <2>1, AwaySettled
<1>2. CASE BackoffElapses(g)
  <2>1. /\ event' = event /\ row' = row /\ cur' = cur /\ todo' = todo /\ pc' = pc
        /\ goal' = goal /\ mode' = mode /\ seen' = seen
        /\ retry'[f].status = retry[f].status
    BY <1>2 DEF BackoffElapses
  <2> QED
    BY <2>1 DEF Settled, Stage, Item, Matches, Found, Settling
<1> QED
  BY <1>1, <1>2

-----------------------------------------------------------------------------
(* The invariant and the theorems.                                         *)

\* While nothing has crashed, nothing did before.
LEMMA FaultsGrow ==
    ASSUME TypeOK, [Next]_vars, faults' = 0
    PROVE  faults = 0 /\ ~\E p \in Procs : RecordFails(p) \/ Crash(p)
<1>1. ~\E p \in Procs : RecordFails(p) \/ Crash(p)
  BY DEF RecordFails, Crash, TypeOK
<1>2. CASE UNCHANGED vars
  BY <1>1, <1>2 DEF vars, history
<1>3. ASSUME NEW p \in Procs, Transition(p) \/ QueueRetry(p) \/ Execute(p)
      PROVE  faults = 0
  BY <1>3 DEF Transition, QueueRetry, ReadStage, Refuse, AppendEvent, StoreRow, CountAttempts,
              Enqueue, Execute, Record, WorkflowSucceeds, WorkflowFails, history
<1>4. ASSUME NEW p \in Procs,
             Run(p) \/ Scanned(p) \/ TriggerScan(p) \/ \E f \in Files : ManualRetry(p, f)
      PROVE  faults = 0
  BY <1>4 DEF Run, ListRun, NextFile, EndRun, Scanned, Discover, DiscoverError, TriggerScan,
              ManualRetry, history
<1>5. CASE BeginCycle \/ RetryPass \/ Restart \/ \E f \in Files : BackoffElapses(f)
  BY <1>1, <1>5 DEF RetryPass, BeginRetry, Fetch, Settle, SettleReadsRow, SettleReadsItem, SettleMarks,
              FailRetry, BeginCycle, BeginScan, Restart, BackoffElapses, history
<1> QED
  BY <1>1, <1>2, <1>3, <1>4, <1>5 DEF Next, Continue

\* Only a refused transition ends the worker this way, as long as nothing crashes.
LEMMA KilledByRefusal ==
    ASSUME TypeOK, Control, Next, faults' = 0, pc'[Worker] = "killed", pc[Worker] # "killed"
    PROVE  Refuse(Worker)
<1> USE DEF TypeOK, Goto, Enter, Leave, Unwind, threads
<1>0. Worker \in Procs /\ ~\E p \in Procs : RecordFails(p) \/ Crash(p)
  BY FaultsGrow DEF Procs
<1>1. ASSUME NEW p \in Procs, Transition(p)
      PROVE  Refuse(Worker)
  BY <1>0, <1>1 DEF Transition, ReadStage, Refuse, AppendEvent, StoreRow, Return
<1>2. ASSUME NEW p \in Procs, QueueRetry(p) \/ Execute(p)
      PROVE  FALSE
  BY <1>0, <1>2 DEF QueueRetry, CountAttempts, Enqueue, Execute, Record, WorkflowSucceeds, WorkflowFails
<1>3. ASSUME NEW p \in Procs,
             Run(p) \/ Scanned(p) \/ TriggerScan(p) \/ \E f \in Files : ManualRetry(p, f)
      PROVE  FALSE
  BY <1>0, <1>3 DEF Run, ListRun, NextFile, EndRun, Scanned, Discover, DiscoverError, TriggerScan,
                    ManualRetry
<1>4. ~(BeginCycle \/ RetryPass \/ Restart \/ \E f \in Files : BackoffElapses(f))
  BY <1>0 DEF RetryPass, BeginRetry, Fetch, Settle, SettleReadsRow, SettleReadsItem, SettleMarks,
              FailRetry, BeginCycle, BeginScan, Restart, BackoffElapses
<1> QED
  BY <1>0, <1>1, <1>2, <1>3, <1>4 DEF Next, Continue

LEMMA InitQueue == Init => QInv
<1> SUFFICES ASSUME Init
             PROVE  QInv
  OBVIOUS
<1>1. IInv
  BY InitOwned
<1>2. ASSUME NEW f \in Files
      PROVE  Settled(f)
  BY FilesAssumption DEF Init, Settled, Matches, NoStage
<1>3. KilledOnlyWhenProvoked
  BY DEF Init, KilledOnlyWhenProvoked, Procs
<1> QED
  BY <1>1, <1>2, <1>3 DEF QInv, Agreement

LEMMA NextQueue ==
    ASSUME QInv, [Next]_vars
    PROVE  QInv'
<1>1. IInv' /\ TypeOK /\ Control
  BY NextOwned DEF QInv, IInv
<1>2. touched \subseteq touched'
  BY TouchedGrows
<1>3. ASSUME NEW f \in Files \ touched', faults' = 0
      PROVE  Settled(f)'
  <2>1. f \in Files /\ Owned(f) /\ Settled(f) /\ ~\E p \in Procs : RecordFails(p) \/ Crash(p)
    BY <1>1, <1>2, <1>3, FaultsGrow DEF QInv, IInv, Agreement
  <2>2. CASE BeginCycle \/ RetryPass \/ Restart
    BY <1>1, <2>1, <2>2, RetryPassSettled
  <2>3. ASSUME NEW p \in Procs, Continue(p) \/ Scanned(p) \/ TriggerScan(p)
        PROVE  Settled(f)'
    <3>1. CASE Transition(p)
      BY <1>1, <2>1, <3>1, TransitionSettled
    <3>2. CASE QueueRetry(p)
      BY <1>1, <2>1, <3>2, QueueRetrySettled
    <3>3. CASE Execute(p) \/ TriggerScan(p)
      BY <1>1, <2>1, <3>3, ExecuteSettled
    <3>4. CASE Run(p)
      BY <1>1, <2>1, <3>4, RunSettled
    <3>5. CASE Scanned(p)
      BY <1>1, <2>1, <3>5, ScannedSettled
    <3> QED
      BY <2>3, <3>1, <3>2, <3>3, <3>4, <3>5 DEF Continue
  <2>4. CASE \E g \in Files : BackoffElapses(g) \/ \E p \in Procs : ManualRetry(p, g)
    BY <1>1, <1>3, <2>1, <2>4, EnvironmentSettled
  <2>5. CASE UNCHANGED vars
    BY <2>1, <2>5 DEF vars, database, threads, history, Settled, Stage, Item, Matches, Found, Settling
  <2> QED
    BY <2>1, <2>2, <2>3, <2>4, <2>5 DEF Next
<1>4. ASSUME pc'[Worker] = "killed", touched' = {}, faults' = 0
      PROVE  FALSE
  <2>1. touched = {} /\ faults = 0 /\ Worker \in Procs
    BY <1>1, <1>2, <1>4, FaultsGrow DEF Procs
  <2>2. pc[Worker] # "killed"
    BY <2>1 DEF QInv, KilledOnlyWhenProvoked
  <2>3. Next
    BY <1>4, <2>2 DEF vars, threads
  <2>4. Refuse(Worker)
    BY <1>1, <1>4, <2>2, <2>3, KilledByRefusal
  <2>5. cur[Worker] \in Files
    BY <1>1, <2>1, <2>4 DEF Refuse, Control, Working, Transitioning
  <2>6. Owned(cur[Worker]) /\ Settled(cur[Worker])
    BY <2>1, <2>5 DEF QInv, IInv, Agreement
  <2> QED
    BY <1>1, <2>1, <2>4, <2>5, <2>6, TransitionSettled DEF Transition
<1>5. KilledOnlyWhenProvoked'
  <2>1. touched' = {} \/ touched' # {}
    OBVIOUS
  <2>2. faults' \in Nat
    BY <1>1 DEF IInv, TypeOK
  <2> QED
    BY <1>4, <2>2 DEF KilledOnlyWhenProvoked
<1> QED
  BY <1>1, <1>3, <1>5 DEF QInv, Agreement

LEMMA QueueInvariant == Spec => []QInv
<1>1. QInv /\ [Next]_vars => QInv'
  BY NextQueue
<1> QED
  BY InitQueue, <1>1, PTL DEF Spec

\* Without crashes the retry queue, the row and the timeline of a file run that no
\* operator retried agree whenever no thread has it in hand, for every number of
\* threads: three tables, written in as many transactions, never drift apart.
THEOREM QueueMatches == Spec => []QueueMatchesTimeline
<1>1. QInv => QueueMatchesTimeline
  BY DEF QInv, Agreement, Settled, Matches, QueueMatchesTimeline, Holds
<1> QED
  BY <1>1, QueueInvariant, PTL

\* The policy refuses the worker a transition, which ends its process, only after an
\* operator retried some file run or something crashed.
THEOREM WorkerKeepsTheTable == Spec => []KilledOnlyWhenProvoked
<1>1. QInv => KilledOnlyWhenProvoked
  BY DEF QInv
<1> QED
  BY <1>1, QueueInvariant, PTL

=============================================================================
