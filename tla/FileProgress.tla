---------------------------- MODULE FileProgress ----------------------------
(***************************************************************************)
(* The life of a file run: the stage timeline, the processing row and the  *)
(* retry queue, as the worker process and the API's request threads change *)
(* them (worker.py, phase2/service.py, phase6/service.py,                  *)
(* phase6/persistence.py).                                                 *)
(*                                                                         *)
(* The worker and the API share one SQLite file.  Each repository method   *)
(* is one transaction, and nothing is held between two of them: every      *)
(* action below is one transaction of one thread, together with the code   *)
(* that runs up to the next one.  Files are file-run identifiers (rows of  *)
(* file_processing_runs), not paths: a changed file gets a new file run.   *)
(***************************************************************************)
EXTENDS StagePolicy, Naturals

CONSTANTS
    Files,        \* file runs, each discovered at most once
    Worker,       \* the thread of the worker process
    Clients,      \* request threads of the API
    NoFile,       \* a thread that handles no file
    MaxAttempts,  \* RetryBackoffConfig.max_attempts
    Overlap,      \* may two threads be inside an operation at the same time?
    MaxRequests,  \* bound: requests the API gets
    MaxFaults     \* bound: crashes and uncaught infrastructure errors

ASSUME FilesAssumption == NoFile \notin Files
ASSUME ThreadsAssumption == Worker \notin Clients
ASSUME AttemptsAssumption == MaxAttempts \in Nat \ {0}
ASSUME BoundsAssumption ==
    MaxRequests \in Nat /\ MaxFaults \in Nat /\ Overlap \in BOOLEAN

VARIABLES
    \* the database
    event,       \* newest row of file_stage_events of each file run
    row,         \* stage and status in file_processing_runs
    retry,       \* row of file_retry_queue; due: next_attempt_at <= now
    memory,      \* files whose memory is in the canonical store
    \* the threads
    pc, mode,    \* next transaction; operation it belongs to
    cur, goal,   \* file in hand; transition in progress
    seen, tally, \* stage and attempt_count read earlier, used later
    todo,        \* rest of the list the loop of this thread iterates over
    \* history and bounds
    executions,  \* workflow executions started for each file run
    touched,     \* files an operator has retried by hand
    requests, faults

database == <<event, row, retry, memory>>
threads == <<pc, mode, cur, goal, seen, tally, todo>>
history == <<executions, touched, requests, faults>>
vars == <<database, threads, history>>

Procs == {Worker} \cup Clients
Statuses == {"none", "queued", "skipped", "failed", "running", "success"}
RetryStatuses == {"none", "queued", "in_progress", "done", "failed", "poisoned"}
Modes == {"idle", "retry", "abandon", "run", "manual"}

\* The calls of transition(): the stage and the status each one records.
Target ==
    [begin       |-> [stage |-> "retrying",           status |-> "running"],
     start       |-> [stage |-> "workflow_started",   status |-> "running"],
     finish      |-> [stage |-> "workflow_completed", status |-> "success"],
     complete    |-> [stage |-> "completed",          status |-> "success"],
     fail        |-> [stage |-> "failed",             status |-> "failed"],
     fail_final  |-> [stage |-> "failed",             status |-> "failed"],
     poison      |-> [stage |-> "poisoned",           status |-> "failed"],
     requeue     |-> [stage |-> "retry_queued",       status |-> "queued"]]
Goals == DOMAIN Target

Transitioning == {"read", "append", "store"}
Stopped == {"killed", "crashed"}
PCs == {"idle", "next", "scan", "record", "fetch", "workflow", "count", "enqueue",
        "settle_row", "settle_item", "settle_mark", "fail_retry"}
         \cup Transitioning \cup Stopped

TypeOK ==
    /\ event \in [Files -> [from : Stages \cup {NoStage}, to : Stages \cup {NoStage}]]
    /\ row \in [Files -> [stage : Stages \cup {NoStage}, status : Statuses]]
    /\ retry \in [Files -> [status : RetryStatuses, attempts : Nat, due : BOOLEAN]]
    /\ memory \in SUBSET Files
    /\ pc \in [Procs -> PCs]
    /\ mode \in [Procs -> Modes]
    /\ cur \in [Procs -> Files \cup {NoFile}]
    /\ goal \in [Procs -> Goals \cup {"none"}]
    /\ seen \in [Procs -> Stages \cup {NoStage}]
    /\ tally \in [Procs -> Nat]
    /\ todo \in [Procs -> SUBSET Files]
    /\ executions \in [Files -> Nat]
    /\ touched \in SUBSET Files
    /\ requests \in Nat
    /\ faults \in Nat

Init ==
    /\ event = [f \in Files |-> [from |-> NoStage, to |-> NoStage]]
    /\ row = [f \in Files |-> [stage |-> NoStage, status |-> "none"]]
    /\ retry = [f \in Files |-> [status |-> "none", attempts |-> 0, due |-> FALSE]]
    /\ memory = {}
    /\ pc = [p \in Procs |-> "idle"]
    /\ mode = [p \in Procs |-> "idle"]
    /\ cur = [p \in Procs |-> NoFile]
    /\ goal = [p \in Procs |-> "none"]
    /\ seen = [p \in Procs |-> NoStage]
    /\ tally = [p \in Procs |-> 0]
    /\ todo = [p \in Procs |-> {}]
    /\ executions = [f \in Files |-> 0]
    /\ touched = {}
    /\ requests = 0
    /\ faults = 0

Exists(f) == event[f].to # NoStage
Busy(p) == pc[p] \notin Stopped \cup {"idle"}
\* What Overlap = FALSE assumes of the environment: an operation starts only
\* when no other thread is inside one.
MayStart == Overlap \/ \A p \in Procs : ~Busy(p)

-----------------------------------------------------------------------------
(* Control of one thread.                                                  *)

Goto(p, where) == pc' = [pc EXCEPT ![p] = where]

\* Thread p calls transition() for the target of g.
Enter(p, g) ==
    /\ goal' = [goal EXCEPT ![p] = g]
    /\ Goto(p, "read")

\* Thread p drops its locals and continues at pc w in mode m.
Leave(p, m, w) ==
    /\ mode' = [mode EXCEPT ![p] = m]
    /\ Goto(p, w)
    /\ cur' = [cur EXCEPT ![p] = NoFile]
    /\ goal' = [goal EXCEPT ![p] = "none"]
    /\ seen' = [seen EXCEPT ![p] = NoStage]
    /\ tally' = [tally EXCEPT ![p] = 0]

\* The work on the file in hand is over: a retry is settled, an abandoned
\* retry and a file of a run return to their loop, a request is answered.
Return(p) ==
    \/ /\ mode[p] = "retry"
       /\ Goto(p, "settle_row")
       /\ goal' = [goal EXCEPT ![p] = "none"]
       /\ UNCHANGED <<mode, cur, seen, tally>>
    \/ mode[p] = "abandon" /\ Leave(p, "retry", "next")
    \/ mode[p] = "run" /\ Leave(p, "run", "next")
    \/ mode[p] = "manual" /\ Leave(p, "idle", "idle")

\* An exception leaves the operation.  The worker's loop has no handler: the
\* process ends.  FastAPI turns it into an error response.
Unwind(p, end) ==
    /\ Leave(p, "idle", IF p = Worker THEN end ELSE "idle")
    /\ todo' = [todo EXCEPT ![p] = {}]

-----------------------------------------------------------------------------
(* FileProgressService.transition: three transactions.                     *)

\* Mutant: latest_stage() without assert_transition()
MutantReadStage(p) ==
    /\ pc[p] = "read"
    /\ seen' = [seen EXCEPT ![p] = event[cur[p]].to]
    /\ Goto(p, "append")
    /\ UNCHANGED <<database, mode, cur, goal, tally, todo, history>>

\* latest_stage(), then assert_transition() lets the transition pass
ReadStage(p) ==
    /\ pc[p] = "read"
    /\ Legal(event[cur[p]].to, Target[goal[p]].stage)
    /\ seen' = [seen EXCEPT ![p] = event[cur[p]].to]
    /\ Goto(p, "append")
    /\ UNCHANGED <<database, mode, cur, goal, tally, todo, history>>

\* latest_stage(), then assert_transition() raises InvalidStageTransitionError,
\* which no except clause on the way out names
Refuse(p) ==
    /\ pc[p] = "read"
    /\ ~Legal(event[cur[p]].to, Target[goal[p]].stage)
    /\ Unwind(p, "killed")
    /\ UNCHANGED <<database, history>>

\* insert_stage_event(from_stage = the stage read before)
AppendEvent(p) ==
    /\ pc[p] = "append"
    /\ event' = [event EXCEPT ![cur[p]] = [from |-> seen[p], to |-> Target[goal[p]].stage]]
    /\ executions' = IF goal[p] = "start"
                     THEN [executions EXCEPT ![cur[p]] = @ + 1] ELSE executions
    /\ seen' = [seen EXCEPT ![p] = NoStage]
    /\ Goto(p, "store")
    /\ UNCHANGED <<row, retry, memory, mode, cur, goal, tally, todo,
                   touched, requests, faults>>

\* update_file_processing_row(), then the code after the call of transition():
\* the workflow or queue_retry, another transition, or the end of the work
StoreRow(p) ==
    /\ pc[p] = "store"
    /\ row' = [row EXCEPT ![cur[p]] = Target[goal[p]]]
    /\ \/ /\ \/ goal[p] = "begin" /\ Goto(p, "fetch")
             \/ goal[p] = "start" /\ Goto(p, "workflow")
             \/ goal[p] = "fail" /\ Goto(p, "count")
          /\ UNCHANGED <<mode, cur, goal, seen, tally>>
       \/ /\ \/ goal[p] = "finish" /\ Enter(p, "complete")
             \/ goal[p] = "fail_final" /\ Enter(p, "poison")
          /\ UNCHANGED <<mode, cur, seen, tally>>
       \/ goal[p] \in {"complete", "poison", "requeue"} /\ Return(p)
    /\ UNCHANGED <<event, retry, memory, todo, history>>

-----------------------------------------------------------------------------
(* queue_retry.                                                            *)

\* Mutant: a manual retry starts the count anew
MutantCountAttempts(p) ==
    /\ pc[p] = "count"
    /\ tally' = [tally EXCEPT ![p] = IF mode[p] = "manual" THEN 0 ELSE retry[cur[p]].attempts]
    /\ Goto(p, "enqueue")
    /\ UNCHANGED <<database, mode, cur, goal, seen, todo, history>>

\* get_retry_item()
CountAttempts(p) ==
    /\ pc[p] = "count"
    /\ tally' = [tally EXCEPT ![p] = retry[cur[p]].attempts]
    /\ Goto(p, "enqueue")
    /\ UNCHANGED <<database, mode, cur, goal, seen, todo, history>>

\* Mutant: an upsert whose INSERT branch is missing
MutantEnqueueUpdates(p) ==
    LET exhausted == tally[p] + 1 >= MaxAttempts
        item == [status   |-> IF exhausted THEN "poisoned" ELSE "queued",
                 attempts |-> tally[p] + 1,
                 due      |-> FALSE] IN
    /\ pc[p] = "enqueue"
    /\ retry' = [retry EXCEPT ![cur[p]] = IF @.status = "none" THEN @ ELSE item]
    /\ tally' = [tally EXCEPT ![p] = 0]
    /\ Enter(p, IF exhausted THEN "poison" ELSE "requeue")
    /\ UNCHANGED <<event, row, memory, mode, cur, seen, todo, history>>

\* Mutant: one attempt too many
MutantEnqueueLate(p) ==
    LET exhausted == tally[p] + 1 > MaxAttempts IN
    /\ pc[p] = "enqueue"
    /\ retry' = [retry EXCEPT ![cur[p]] =
                   [status   |-> IF exhausted THEN "poisoned" ELSE "queued",
                    attempts |-> tally[p] + 1,
                    due      |-> FALSE]]
    /\ tally' = [tally EXCEPT ![p] = 0]
    /\ Enter(p, IF exhausted THEN "poison" ELSE "requeue")
    /\ UNCHANGED <<event, row, memory, mode, cur, seen, todo, history>>

\* upsert_retry_queue() with the next attempt a backoff away
Enqueue(p) ==
    LET exhausted == tally[p] + 1 >= MaxAttempts IN
    /\ pc[p] = "enqueue"
    /\ retry' = [retry EXCEPT ![cur[p]] =
                   [status   |-> IF exhausted THEN "poisoned" ELSE "queued",
                    attempts |-> tally[p] + 1,
                    due      |-> FALSE]]
    /\ tally' = [tally EXCEPT ![p] = 0]
    /\ Enter(p, IF exhausted THEN "poison" ELSE "requeue")
    /\ UNCHANGED <<event, row, memory, mode, cur, seen, todo, history>>

-----------------------------------------------------------------------------
(* The worker's retry pass: _process_due_retries.                          *)

DueRetries == {f \in Files : retry[f].status = "queued" /\ retry[f].due}

\* list_due_retries()
BeginCycle ==
    /\ pc[Worker] = "idle"
    /\ MayStart
    /\ todo' = [todo EXCEPT ![Worker] = DueRetries]
    /\ mode' = [mode EXCEPT ![Worker] = "retry"]
    /\ Goto(Worker, "next")
    /\ UNCHANGED <<database, cur, goal, seen, tally, history>>

\* begin_retry(): mark_retry_in_progress(), then the transition to retrying
BeginRetry(f) ==
    /\ pc[Worker] = "next" /\ mode[Worker] = "retry"
    /\ f \in todo[Worker]
    /\ retry' = [retry EXCEPT ![f].status = "in_progress"]
    /\ cur' = [cur EXCEPT ![Worker] = f]
    /\ todo' = [todo EXCEPT ![Worker] = @ \ {f}]
    /\ Enter(Worker, "begin")
    /\ UNCHANGED <<event, row, memory, mode, seen, tally, history>>

\* execute_file_run(): a row in any other status is left to settle_retry
Fetch(p) ==
    /\ pc[p] = "fetch"
    /\ Goto(p, IF row[cur[p]].status \in {"queued", "running", "failed"}
               THEN "record" ELSE "settle_row")
    /\ UNCHANGED <<database, mode, cur, goal, seen, tally, todo, history>>

\* run_tracking.get_file_run().stage
SettleReadsRow(p) ==
    /\ pc[p] = "settle_row"
    /\ seen' = [seen EXCEPT ![p] = row[cur[p]].stage]
    /\ Goto(p, "settle_item")
    /\ UNCHANGED <<database, mode, cur, goal, tally, todo, history>>

\* Mutant: the early return for a retry that was queued again is missing
MutantSettleReadsItem(p) ==
    /\ pc[p] = "settle_item"
    /\ IF retry[cur[p]].status = "none"
       THEN Leave(p, "retry", "next")
       ELSE Goto(p, "settle_mark") /\ UNCHANGED <<mode, cur, goal, seen, tally>>
    /\ UNCHANGED <<database, todo, history>>

\* settle_retry(): get_retry_item() and the early returns
SettleReadsItem(p) ==
    /\ pc[p] = "settle_item"
    /\ IF retry[cur[p]].status \in {"none", "queued"} \/ seen[p] = "retry_queued"
       THEN Leave(p, "retry", "next")
       ELSE Goto(p, "settle_mark") /\ UNCHANGED <<mode, cur, goal, seen, tally>>
    /\ UNCHANGED <<database, todo, history>>

\* Mutants: the stage itself as the status; everything but done is a failure
StageAsVerdict(s) == s
CoarseVerdict(s) == IF s = "completed" THEN "done" ELSE "failed"

\* The status of a settled retry
Verdict(s) ==
    CASE s = "completed" -> "done"
      [] s = "poisoned"  -> "poisoned"
      [] OTHER           -> "failed"

\* settle_retry(): mark_retry_done()
SettleMarks(p) ==
    /\ pc[p] = "settle_mark"
    /\ retry' = [retry EXCEPT ![cur[p]].status = Verdict(seen[p])]
    /\ Leave(p, "retry", "next")
    /\ UNCHANGED <<event, row, memory, todo, history>>

\* fail_retry(): mark_retry_done("failed"), then queue_retry()
FailRetry(p) ==
    /\ pc[p] = "fail_retry"
    /\ retry' = [retry EXCEPT ![cur[p]].status = "failed"]
    /\ mode' = [mode EXCEPT ![p] = "abandon"]
    /\ Goto(p, "count")
    /\ UNCHANGED <<event, row, memory, cur, goal, seen, tally, todo, history>>

\* The list of due retries is done: run_cycle() starts
BeginScan ==
    /\ pc[Worker] = "next" /\ mode[Worker] = "retry"
    /\ todo[Worker] = {}
    /\ mode' = [mode EXCEPT ![Worker] = "run"]
    /\ Goto(Worker, "scan")
    /\ UNCHANGED <<database, cur, goal, seen, tally, todo, history>>

-----------------------------------------------------------------------------
(* A run: the scan records file runs, execute_for_run executes them.       *)

\* POST /jobs/scan
TriggerScan(p) ==
    /\ p \in Clients /\ pc[p] = "idle"
    /\ MayStart
    /\ requests < MaxRequests
    /\ requests' = requests + 1
    /\ mode' = [mode EXCEPT ![p] = "run"]
    /\ Goto(p, "scan")
    /\ UNCHANGED <<database, cur, goal, seen, tally, todo, executions, touched, faults>>

\* upsert_file_discovery(): queued when new or changed, else skipped
Discover(p, f, status) ==
    /\ pc[p] = "scan"
    /\ ~Exists(f)
    /\ event' = [event EXCEPT ![f] = [from |-> NoStage, to |-> "discovered"]]
    /\ row' = [row EXCEPT ![f] = [stage |-> "discovered", status |-> status]]
    /\ todo' = [todo EXCEPT ![p] = @ \cup {f}]
    /\ UNCHANGED <<retry, memory, pc, mode, cur, goal, seen, tally, history>>

\* mark_scan_error(): the row says discovered, its event says failed
DiscoverError(p, f) ==
    /\ pc[p] = "scan"
    /\ ~Exists(f)
    /\ event' = [event EXCEPT ![f] = [from |-> NoStage, to |-> "failed"]]
    /\ row' = [row EXCEPT ![f] = [stage |-> "discovered", status |-> "failed"]]
    /\ todo' = [todo EXCEPT ![p] = @ \cup {f}]
    /\ UNCHANGED <<retry, memory, pc, mode, cur, goal, seen, tally, history>>

\* list_file_runs_for_run() and the status test of execute_for_run, which
\* looks at the rows of this one list
ListRun(p) ==
    /\ pc[p] = "scan"
    /\ todo' = [todo EXCEPT ![p] = {f \in @ : row[f].status = "queued"}]
    /\ Goto(p, "next")
    /\ UNCHANGED <<database, mode, cur, goal, seen, tally, history>>

NextFile(p, f) ==
    /\ pc[p] = "next" /\ mode[p] = "run"
    /\ f \in todo[p]
    /\ cur' = [cur EXCEPT ![p] = f]
    /\ todo' = [todo EXCEPT ![p] = @ \ {f}]
    /\ Goto(p, "record")
    /\ UNCHANGED <<database, mode, goal, seen, tally, history>>

EndRun(p) ==
    /\ pc[p] = "next" /\ mode[p] = "run"
    /\ todo[p] = {}
    /\ Leave(p, "idle", "idle")
    /\ UNCHANGED <<database, todo, history>>

-----------------------------------------------------------------------------
(* _execute_single_file.                                                   *)

\* The telemetry event and the workflow_started row are written
Record(p) ==
    /\ pc[p] = "record"
    /\ Enter(p, "start")
    /\ UNCHANGED <<database, mode, cur, seen, tally, todo, history>>

\* A telemetry or stage event outside the try block raises RuntimeError or
\* ValueError, before the workflow or in the except clause after it: only the
\* retry pass has a handler
RecordFails(p) ==
    /\ pc[p] \in {"record", "workflow"}
    /\ faults < MaxFaults
    /\ faults' = faults + 1
    /\ memory' \in {memory, IF pc[p] = "workflow" THEN memory \cup {cur[p]} ELSE memory}
    /\ IF mode[p] = "retry"
       THEN Goto(p, "fail_retry") /\ UNCHANGED <<mode, cur, goal, seen, tally, todo>>
       ELSE Unwind(p, "crashed")
    /\ UNCHANGED <<event, row, retry, executions, touched, requests>>

\* Mutant: the stages are recorded and the memory is left for later
MutantWorkflowSucceeds(p) ==
    /\ pc[p] = "workflow"
    /\ Enter(p, "finish")
    /\ UNCHANGED <<database, mode, cur, seen, tally, todo, history>>

\* The workflow ran, its memory is persisted
WorkflowSucceeds(p) ==
    /\ pc[p] = "workflow"
    /\ memory' = memory \cup {cur[p]}
    /\ Enter(p, "finish")
    /\ UNCHANGED <<event, row, retry, mode, cur, seen, tally, todo, history>>

\* A caught exception, retryable or not, before or after the memory was
\* persisted (the success telemetry is inside the try block)
WorkflowFails(p, g) ==
    /\ pc[p] = "workflow"
    /\ memory' \in {memory, memory \cup {cur[p]}}
    /\ Enter(p, g)
    /\ UNCHANGED <<event, row, retry, mode, cur, seen, tally, todo, history>>

-----------------------------------------------------------------------------
(* The API, the environment and the specification.                         *)

\* POST /files/{file_id}/retry: get_file_run() and the test of its stage
ManualRetry(p, f) ==
    /\ p \in Clients /\ pc[p] = "idle"
    /\ MayStart
    /\ requests < MaxRequests
    /\ Exists(f)
    /\ row[f].stage # "completed"
    /\ requests' = requests + 1
    /\ touched' = touched \cup {f}
    /\ mode' = [mode EXCEPT ![p] = "manual"]
    /\ cur' = [cur EXCEPT ![p] = f]
    /\ Goto(p, "count")
    /\ UNCHANGED <<database, goal, seen, tally, todo, executions, faults>>

\* A thread ends between two of its transactions: the process is stopped, or
\* an error no handler names (sqlite3.Error, psycopg.Error) leaves it
Crash(p) ==
    /\ Busy(p)
    /\ faults < MaxFaults
    /\ faults' = faults + 1
    /\ Unwind(p, "crashed")
    /\ UNCHANGED <<database, executions, touched, requests>>

\* The operator starts the worker again
Restart ==
    /\ pc[Worker] \in Stopped
    /\ Goto(Worker, "idle")
    /\ UNCHANGED <<database, mode, cur, goal, seen, tally, todo, history>>

\* Time passes next_attempt_at.  The backoff is base_seconds (30) at least:
\* the three transactions that follow the upsert are assumed over by then.
BackoffElapses(f) ==
    /\ retry[f].status = "queued" /\ ~retry[f].due
    /\ \A p \in Procs : ~(cur[p] = f /\ goal[p] = "requeue")
    /\ retry' = [retry EXCEPT ![f].due = TRUE]
    /\ UNCHANGED <<event, row, memory, threads, history>>

Transition(p) == ReadStage(p) \/ Refuse(p) \/ AppendEvent(p) \/ StoreRow(p)
QueueRetry(p) == CountAttempts(p) \/ Enqueue(p)
Settle(p) == SettleReadsRow(p) \/ SettleReadsItem(p) \/ SettleMarks(p)
Execute(p) ==
    \/ Record(p) \/ WorkflowSucceeds(p)
    \/ \E g \in {"fail", "fail_final"} : WorkflowFails(p, g)
Run(p) == ListRun(p) \/ (\E f \in Files : NextFile(p, f)) \/ EndRun(p)
RetryPass ==
    \/ BeginScan \/ (\E f \in Files : BeginRetry(f))
    \/ Fetch(Worker) \/ Settle(Worker) \/ FailRetry(Worker)

\* The steps a thread takes by itself once its operation has started
Continue(p) == Transition(p) \/ QueueRetry(p) \/ Execute(p) \/ Run(p)

Scanned(p) ==
    \E f \in Files :
        \/ \E status \in {"queued", "skipped"} : Discover(p, f, status)
        \/ DiscoverError(p, f)

Next ==
    \/ BeginCycle \/ RetryPass \/ Restart
    \/ \E p \in Procs :
        \/ Continue(p) \/ Scanned(p) \/ RecordFails(p) \/ Crash(p)
        \/ TriggerScan(p)
        \/ \E f \in Files : ManualRetry(p, f)
    \/ \E f \in Files : BackoffElapses(f)

Spec == Init /\ [][Next]_vars

\* run_forever() loops; a request thread runs; clocks advance
Fairness ==
    /\ WF_vars(BeginCycle) /\ WF_vars(RetryPass)
    /\ \A p \in Procs : WF_vars(Continue(p))
    /\ \A f \in Files : WF_vars(BackoffElapses(f))

FairSpec == Spec /\ Fairness

\* ... and an operator who always starts a stopped worker again
RestartedSpec == FairSpec /\ WF_vars(Restart)
-----------------------------------------------------------------------------
(* Properties.                                                             *)

\* Thread p works on file f
Holds(p, f) == cur[p] = f

\* A file run is reported completed, in its timeline or its row, only when
\* its memory is in the canonical store: no crash, failure or race between
\* persist_memory and the two closing transitions reports more.
CompletedIsPersisted ==
    \A f \in Files : "completed" \in {event[f].to, row[f].stage} => f \in memory

\* A timeline that says retry_queued or retrying has a row in the retry queue
\* behind it, whatever crashed: queue_retry writes the row first.
RetryStageHasItem ==
    \A f \in Files : event[f].to \in {"retry_queued", "retrying"} => retry[f].status # "none"

\* The timeline of a file run nobody retried by hand is one unbroken legal
\* chain, whatever runs and crashes beside it: each event starts at the stage
\* the previous one ended with, and the policy allows it.
UntouchedTimeline ==
    [][\A f \in Files \ touched' :
         event'[f] # event[f] /\ Exists(f) =>
             event'[f].from = event[f].to /\ Legal(event[f].to, event'[f].to)]_vars

\* A file run nobody retried by hand starts its workflow at most max_attempts
\* times, whatever runs and crashes beside it.
UntouchedBudget ==
    \A f \in Files \ touched : executions[f] <= MaxAttempts

\* As long as nothing crashed, the retry queue and the row of a file run that
\* no thread has in hand agree with its timeline: queued exactly when the
\* timeline waits for a retry, done or poisoned when it ended that way after
\* one, never in_progress.  (A file of which the scan itself failed has a row
\* that says discovered.)
QueueMatchesTimeline ==
    faults = 0 =>
        \A f \in Files \ touched :
            (\A p \in Procs : ~Holds(p, f)) =>
                /\ \/ row[f].stage = event[f].to
                   \/ row[f].stage = "discovered" /\ event[f].from = NoStage
                /\ (retry[f].status = "queued") <=> (event[f].to = "retry_queued")
                /\ retry[f].status = "done" => event[f].to = "completed"
                /\ retry[f].status = "poisoned" => event[f].to = "poisoned"
                /\ retry[f].status \notin {"in_progress", "failed"}

\* The worker's loop is stopped by a refused transition only after an
\* operator retried some file, or after a crash.
KilledOnlyWhenProvoked ==
    pc[Worker] = "killed" => touched # {} \/ faults > 0

\* The file runs behave as FileLifecycle promises.  (It takes operations that
\* do not overlap.)
PhaseOf(stage) ==
    CASE stage = NoStage -> "absent"
      [] stage = "completed" -> "done"
      [] stage = "poisoned" -> "dead"
      [] stage \in {"workflow_started", "workflow_completed"} -> "active"
      [] OTHER -> "pending"

Lifecycle == INSTANCE FileLifecycle WITH
    phase <- [f \in Files |-> PhaseOf(event[f].to)], tries <- executions,
    stored <- memory, MaxTries <- MaxAttempts

ImplementsLifecycle == Lifecycle!Spec

\* No file run at all starts its workflow more than max_attempts times.  (It
\* takes operations that do not overlap.)
ExecutionBudget == \A f \in Files : executions[f] <= MaxAttempts

\* Without operators and crashes, every file run a scan queues ends completed
\* or poisoned.
QueuedFilesSettle ==
    [](touched = {} /\ faults = 0) =>
        \A f \in Files :
            row[f].status = "queued" ~> event[f].to \in Terminal

\* Findings: what the documents say and the code does not do.

\* "block illegal stage jumps": a terminal stage stays the last one.
TerminalIsFinal ==
    [][\A f \in Files : event[f].to \in Terminal => event'[f].to = event[f].to]_vars

\* "Manual retry works": it does not stop the worker.
WorkerSurvives == pc[Worker] # "killed"

\* "Failed files retry automatically": a failed file run does not stay failed.
FailedFilesMoveOn ==
    \A f \in Files :
        event[f] = [from |-> "workflow_started", to |-> "failed"] ~> event[f].to # "failed"

=============================================================================
