------------------------------ MODULE BulkScan ------------------------------
(***************************************************************************)
(* One bulk scan of backend/main.py: the entry of bulk_jobs, the coroutine *)
(* run_bulk_scan_job, its scan_one task per target behind a semaphore, and *)
(* POST /bulk-scan/cancel, which runs in a pool thread.  Bulk scans share  *)
(* no state with each other.                                               *)
(*                                                                         *)
(* Coroutines switch only at an await; a thread may run between any two    *)
(* steps.  A_x is A with the mistake x in it; no specification uses it.    *)
(***************************************************************************)
EXTENDS Naturals, Sequences, FiniteSets

CONSTANTS
    N,            \* number of targets left by normalize_bulk_targets
    Concurrency,  \* value of the semaphore
    Cancels       \* the calls of POST /bulk-scan/cancel

ASSUME NAssumption == N \in Nat \ {0}
ASSUME ConcurrencyAssumption == Concurrency \in 1..5

VARIABLES
    status,             \* job["status"]
    cancel_requested,   \* job["cancel_requested"]
    items,              \* job["items"]: "none", "running", "completed", "failed"
    vulnerable,         \* the indexes whose summary says vulnerable
    results,            \* job["results"], the index of each entry
    completed, failed, vulnerable_targets,   \* the job's counters
    stored,             \* rows of table scans per target
    job,                \* where run_bulk_scan_job stands
    task,               \* where each scan_one stands
    permits, waiters,   \* the semaphore: free permits, tasks in its queue
    thread,             \* where each cancel call stands
    mute                \* history: an exception without a message was raised

countVars == <<completed, failed, vulnerable_targets>>
itemVars  == <<items, vulnerable, results, stored>>
semVars   == <<permits, waiters>>
vars == <<status, cancel_requested, itemVars, countVars, job, task, semVars,
          thread, mute>>

\* normalize_bulk_targets strips, drops comments and repetitions, keeps the order.
Targets == 1..N
Finished == {"completed", "failed"}
Settled  == status \in {"completed", "failed", "cancelled"}

Over(i) == task[i] \in {"over", "raised"}
\* scan_one is inside `async with semaphore`
Inside(i) == task[i] \in {"granted", "inside", "analyze", "recount", "rethrow"}
\* no coroutine stands between two awaits
LoopFree == /\ job \in {"created", "gather", "over"}
            /\ \A i \in Targets : task[i] \notin {"inside", "recount", "rethrow"}

TypeOk ==
    /\ status \in {"queued", "running", "completed", "failed", "cancelled"}
    /\ cancel_requested \in BOOLEAN
    /\ items \in [Targets -> {"none", "running"} \cup Finished]
    /\ vulnerable \subseteq Targets
    /\ results \in Seq(Targets)
    /\ completed \in 0..N /\ failed \in 0..N /\ vulnerable_targets \in 0..N
    /\ stored \in [Targets -> Nat]
    /\ job \in {"created", "gather", "cancel", "complete", "over"}
    /\ task \in [Targets -> {"absent", "new", "waiting", "granted", "inside",
                             "analyze", "recount", "rethrow", "over", "raised"}]
    /\ permits \in 0..Concurrency
    /\ waiters \in Seq(Targets)
    /\ thread \in [Cancels -> {"idle", "test", "mark", "answered"}]
    /\ mute \in BOOLEAN

\* bulk_scan_start has answered: the job is queued, its coroutine scheduled.
Init ==
    /\ status = "queued"
    /\ cancel_requested = FALSE
    /\ items = [i \in Targets |-> "none"]
    /\ vulnerable = {}
    /\ results = <<>>
    /\ completed = 0 /\ failed = 0 /\ vulnerable_targets = 0
    /\ stored = [i \in Targets |-> 0]
    /\ job = "created"
    /\ task = [i \in Targets |-> "absent"]
    /\ permits = Concurrency
    /\ waiters = <<>>
    /\ thread = [t \in Cancels |-> "idle"]
    /\ mute = FALSE

-----------------------------------------------------------------------------
(* run_bulk_scan_job *)

\* "running", whatever the status was; one task per target; gather.
Begin ==
    /\ job = "created" /\ LoopFree
    /\ status' = "running"
    /\ task' = [i \in Targets |-> "new"]
    /\ job' = "gather"
    /\ UNCHANGED <<cancel_requested, itemVars, countVars, semVars, thread, mute>>

\* the test of cancel_requested left out
Gathered_unasked ==
    /\ job = "gather" /\ LoopFree
    /\ \A i \in Targets : task[i] = "over"
    /\ job' = "complete"
    /\ UNCHANGED <<status, cancel_requested, itemVars, countVars, task, semVars,
                   thread, mute>>

\* gather returns when every task has: cancel_requested decides the outcome.
Gathered ==
    /\ job = "gather" /\ LoopFree
    /\ \A i \in Targets : task[i] = "over"
    /\ job' = IF cancel_requested THEN "cancel" ELSE "complete"
    /\ UNCHANGED <<status, cancel_requested, itemVars, countVars, task, semVars,
                   thread, mute>>

\* gather fails with the first task that raises; the others go on running.
GatherFailed ==
    /\ job = "gather" /\ LoopFree
    /\ \E i \in Targets : task[i] = "raised"
    /\ status' = "failed"
    /\ job' = "over"
    /\ UNCHANGED <<cancel_requested, itemVars, countVars, task, semVars, thread,
                   mute>>

\* the status left as it was
Conclude_silent ==
    /\ job \in {"cancel", "complete"}
    /\ job' = "over"
    /\ UNCHANGED <<status, cancel_requested, itemVars, countVars, task, semVars,
                   thread, mute>>

\* The status is assigned after the test: a cancel request may come between.
Conclude ==
    /\ job \in {"cancel", "complete"}
    /\ status' = IF job = "cancel" THEN "cancelled" ELSE "completed"
    /\ job' = "over"
    /\ UNCHANGED <<cancel_requested, itemVars, countVars, task, semVars, thread,
                   mute>>

-----------------------------------------------------------------------------
(* scan_one *)

\* the permit taken from the semaphore and handed to nobody
Leave_unwoken(i, state) ==
    /\ permits' = IF waiters = <<>> THEN permits + 1 ELSE permits
    /\ task' = [task EXCEPT ![i] = state]
    /\ UNCHANGED waiters

\* Leaving the semaphore hands the permit to the task that waits longest.
Leave(i, state) ==
    IF waiters = <<>>
      THEN /\ permits' = permits + 1
           /\ task' = [task EXCEPT ![i] = state]
           /\ UNCHANGED waiters
      ELSE /\ task' = [task EXCEPT ![i] = state, ![Head(waiters)] = "granted"]
           /\ waiters' = Tail(waiters)
           /\ UNCHANGED permits

\* Tasks start in the order of their creation; one that finds no permit waits.
StartTask(i) ==
    /\ task[i] = "new" /\ LoopFree
    /\ \A k \in 1..(i - 1) : task[k] # "new"
    /\ IF permits > 0 /\ waiters = <<>>
         THEN /\ permits' = permits - 1
              /\ task' = [task EXCEPT ![i] = "inside"]
              /\ UNCHANGED waiters
         ELSE /\ waiters' = Append(waiters, i)
              /\ task' = [task EXCEPT ![i] = "waiting"]
              /\ UNCHANGED permits
    /\ UNCHANGED <<status, cancel_requested, itemVars, countVars, job, thread, mute>>

\* The semaphore is held: give up if the job was cancelled, else analyze.
EnterItem(i) ==
    /\ task[i] = "inside" \/ (task[i] = "granted" /\ LoopFree)
    /\ \/ /\ cancel_requested
          /\ Leave(i, "over")
          /\ UNCHANGED items
       \/ /\ ~cancel_requested
          /\ items' = [items EXCEPT ![i] = "running"]
          /\ task' = [task EXCEPT ![i] = "analyze"]
          /\ UNCHANGED semVars
    /\ UNCHANGED <<status, cancel_requested, vulnerable, results, stored, countVars,
                   job, thread, mute>>

\* summarize_bulk_result: vulnerable if anything is confirmed or possible, or the
\* risk is MEDIUM or worse, all of which depends on the report alone.
Verdicts(i) == {{}, {i}}

\* analyze (and the archive lookup, which swallows its errors) returned and
\* save_scan committed; the alert swallows its errors too.
ItemCompleted(i) ==
    /\ task[i] = "analyze" /\ LoopFree
    /\ stored' = [stored EXCEPT ![i] = @ + 1]
    /\ items' = [items EXCEPT ![i] = "completed"]
    /\ \E v \in Verdicts(i) : vulnerable' = vulnerable \cup v
    /\ results' = Append(results, i)
    /\ task' = [task EXCEPT ![i] = "recount"]
    /\ UNCHANGED <<status, cancel_requested, countVars, job, semVars, thread, mute>>

\* analyze or save_scan raised.  summarize_bulk_result builds the failed entry
\* if the exception has a message; without one it raises itself, on the result
\* that is not there, and the item stays "running".
ItemFailed(i) ==
    /\ task[i] = "analyze" /\ LoopFree
    /\ \/ /\ items' = [items EXCEPT ![i] = "failed"]
          /\ results' = Append(results, i)
          /\ failed' = failed + 1
          /\ task' = [task EXCEPT ![i] = "recount"]
          /\ UNCHANGED mute
       \/ /\ task' = [task EXCEPT ![i] = "rethrow"]
          /\ mute' = TRUE
          /\ UNCHANGED <<items, results, failed>>
    /\ UNCHANGED <<status, cancel_requested, vulnerable, stored, completed,
                   vulnerable_targets, job, semVars, thread>>

\* counting the failed items on top of the increment of the handler
Recount_twice(i) ==
    /\ task[i] \in {"recount", "rethrow"}
    /\ completed' = Cardinality({k \in Targets : items[k] \in Finished})
    /\ failed' = failed + (IF items[i] = "failed" THEN 1 ELSE 0)
    /\ vulnerable_targets' = Cardinality(vulnerable)
    /\ Leave(i, IF task[i] = "recount" THEN "over" ELSE "raised")
    /\ UNCHANGED <<status, cancel_requested, itemVars, job, thread, mute>>

\* The `finally`: the counters are taken anew from the items.
Recount(i) ==
    /\ task[i] \in {"recount", "rethrow"}
    /\ completed' = Cardinality({k \in Targets : items[k] \in Finished})
    /\ failed' = Cardinality({k \in Targets : items[k] = "failed"})
    /\ vulnerable_targets' = Cardinality(vulnerable)
    /\ Leave(i, IF task[i] = "recount" THEN "over" ELSE "raised")
    /\ UNCHANGED <<status, cancel_requested, itemVars, job, thread, mute>>

Loop ==
    \/ Begin \/ Gathered \/ GatherFailed \/ Conclude
    \/ \E i \in Targets :
          StartTask(i) \/ EnterItem(i) \/ ItemCompleted(i) \/ ItemFailed(i) \/ Recount(i)

-----------------------------------------------------------------------------
(* POST /bulk-scan/cancel, by the owner of the job *)

\* The request that leaves no flag.
RequestCancel_unmarked(t) ==
    /\ thread[t] = "idle"
    /\ thread' = [thread EXCEPT ![t] = "test"]
    /\ UNCHANGED <<status, cancel_requested, itemVars, countVars, job, task, semVars,
                   mute>>

\* The flag is set whatever the status is.
RequestCancel(t) ==
    /\ thread[t] = "idle"
    /\ cancel_requested' = TRUE
    /\ thread' = [thread EXCEPT ![t] = "test"]
    /\ UNCHANGED <<status, itemVars, countVars, job, task, semVars, mute>>

\* "cancelled" is written only over queued or running.
TestStatus(t) ==
    /\ thread[t] = "test"
    /\ thread' = [thread EXCEPT ![t] =
                     IF status \in {"queued", "running"} THEN "mark" ELSE "answered"]
    /\ UNCHANGED <<status, cancel_requested, itemVars, countVars, job, task, semVars,
                   mute>>

MarkCancelled(t) ==
    /\ thread[t] = "mark"
    /\ status' = "cancelled"
    /\ thread' = [thread EXCEPT ![t] = "answered"]
    /\ UNCHANGED <<cancel_requested, itemVars, countVars, job, task, semVars, mute>>

CancelStep(t) == TestStatus(t) \/ MarkCancelled(t)

-----------------------------------------------------------------------------

Next == Loop \/ \E t \in Cancels : RequestCancel(t) \/ CancelStep(t)

\* The loop runs its ready tasks, an analysis ends (its probes carry timeouts),
\* the pool runs its threads; nobody is obliged to cancel.
Fairness == WF_vars(Loop) /\ \A t \in Cancels : WF_vars(CancelStep(t))

Spec == Init /\ [][Next]_vars
FairSpec == Spec /\ Fairness

-----------------------------------------------------------------------------
(* Properties *)

\* A target is analyzed only with a permit, no permit gets lost on any path out
\* of scan_one, and none is kept back while a task waits for one.
PermitsConserved ==
    /\ permits + Cardinality({i \in Targets : Inside(i)}) = Concurrency
    /\ waiters # <<>> => permits = 0

\* Whenever no scan_one is between its entry and its recount, the counters the
\* dashboard polls agree with the items, and results has each finished target
\* exactly once.
CountersAgree ==
    (\A i \in Targets : task[i] \notin {"recount", "rethrow"}) =>
        /\ completed = Cardinality({i \in Targets : items[i] \in Finished})
        /\ failed = Cardinality({i \in Targets : items[i] = "failed"})
        /\ vulnerable_targets = Cardinality(vulnerable)
        /\ Len(results) = completed
        /\ {results[k] : k \in 1..Len(results)} = {i \in Targets : items[i] \in Finished}

\* A bulk scan shown as completed has an outcome for every target, whatever
\* cancel request raced with its end, and a completed target has one stored row.
CompletedCoversAll ==
    /\ status = "completed" => \A i \in Targets : items[i] \in Finished
    /\ \A i \in Targets : stored[i] = IF items[i] = "completed" THEN 1 ELSE 0

\* Once run_bulk_scan_job has returned, nothing of the job runs any more, unless
\* an exception without a message made gather fail while other targets ran.
EndIsQuiet ==
    job = "over" /\ ~mute =>
        \A i \in Targets : task[i] = "over" /\ items[i] # "running"

\* The job and all its tasks come to an end, and the permits come back, also
\* when a target raises and when the job is cancelled at any point.
BulkScanEnds ==
    <>[](job = "over" /\ (\A i \in Targets : Over(i)) /\ permits = Concurrency)

\* Whatever it races with, a cancel request leads to a settled status for good,
\* although run_bulk_scan_job may set "running" over "cancelled" before.
CancelSettles == cancel_requested ~> []Settled

\* A settled status changes only to "cancelled" or, before the job began or
\* while it concludes, after a cancel request.
SettledChangesOnlyByCancel ==
    [][Settled /\ status' # status => cancel_requested]_vars

\* The job as its status and its results are read.
View == [began |-> job # "created", ended |-> Settled,
         excused |-> cancel_requested \/ mute, listed |-> Len(results)]

Job == INSTANCE BulkJob WITH job <- View

\* Whatever the tasks, the coroutine and the cancel requests do to each other, who
\* polls the job sees what BulkJob promises: results only grow, an end is for good
\* once the job has begun, and without a cancel request or an exception without a
\* message every target is listed by then (1179-1268, 1385-1408).
ImplementsBulkJob == Job!Spec

-----------------------------------------------------------------------------
(* The inductive invariant behind the safety properties *)

Holders   == {i \in Targets : Inside(i)}
EndedItems  == {i \in Targets : items[i] \in Finished}
FailedItems == {i \in Targets : items[i] = "failed"}

\* Those who wait are waiting, each once.
Waiting ==
    /\ \A k \in 1..Len(waiters) : task[waiters[k]] = "waiting"
    /\ \A k, l \in 1..Len(waiters) : waiters[k] = waiters[l] => k = l

\* What an item says follows from where its task stands.
ItemsFollow ==
    \A i \in Targets :
        /\ task[i] = "absent" <=> job = "created"
        /\ task[i] \in {"absent", "new", "waiting", "granted", "inside"} =>
              items[i] = "none"
        /\ task[i] = "analyze" => items[i] = "running"
        /\ task[i] = "recount" => items[i] \in Finished
        /\ task[i] \in {"rethrow", "raised"} => items[i] = "running" /\ mute
        /\ task[i] = "over" =>
              items[i] \in Finished \/ (items[i] = "none" /\ cancel_requested)

\* What the coroutine and the status may still assume of the tasks.
OutcomeFollows ==
    /\ job \in {"cancel", "complete"} => \A i \in Targets : task[i] = "over"
    /\ job = "over" /\ ~mute => \A i \in Targets : task[i] = "over"
    /\ job = "complete" \/ status = "completed" =>
          \A i \in Targets : items[i] \in Finished
    /\ status \in {"completed", "failed"} => job = "over"
    /\ status = "cancelled" \/ job = "cancel" => cancel_requested
    /\ \A t \in Cancels : thread[t] # "idle" => cancel_requested

\* The lists and counters follow the items, failed from below.
ResultsFollow ==
    /\ \A i \in Targets : stored[i] = IF items[i] = "completed" THEN 1 ELSE 0
    /\ Len(results) = Cardinality(EndedItems)
    /\ {results[k] : k \in 1..Len(results)} = EndedItems
    /\ failed <= Cardinality(FailedItems)

\* Permits, items, counters and outcome hang together through the tasks.
IInv == /\ TypeOk /\ PermitsConserved /\ Waiting /\ ItemsFollow
        /\ OutcomeFollows /\ ResultsFollow /\ CountersAgree
=============================================================================
