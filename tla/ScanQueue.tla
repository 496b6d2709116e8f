------------------------------ MODULE ScanQueue ------------------------------
(***************************************************************************)
(* The asynchronous scan queue of backend/main.py: POST /scan-async puts a *)
(* job on an asyncio.Queue, one worker task takes jobs and runs them, and  *)
(* POST /cancel-scan withdraws them.                                       *)
(*                                                                         *)
(* Two schedulers run this code.  scan_async and scan_worker are coroutines*)
(* of one event loop: between two awaits no other coroutine runs.          *)
(* cancel_scan is a plain `def`, so FastAPI runs every call of it in a     *)
(* thread of a pool, and a thread may run between any two steps of a       *)
(* coroutine or of another thread.  An action here is what happens between *)
(* two points at which such a switch can be noticed.                       *)
(*                                                                         *)
(* An operator A_x is A with the mistake x in it.  No specification uses   *)
(* one: put in the place of A it shows that the properties would notice.   *)
(***************************************************************************)
EXTENDS Naturals, Sequences

CONSTANTS
    Jobs,      \* the job ids POST /scan-async can hand out
    Cancels    \* the calls of POST /cancel-scan, each a thread of its own

VARIABLES
    status,            \* scan_jobs[j]["status"]; "absent" before the job exists
    cancel_requested,  \* scan_jobs[j]["cancel_requested"]
    result,            \* scan_jobs[j]["result"] is set
    queue,             \* scan_queue._queue, the deque inside the asyncio.Queue
    unfinished,        \* scan_queue._unfinished_tasks
    worker,            \* where scan_worker stands
    cur,               \* the job scan_worker holds
    at,                \* the last progress run_scan_job reported for it
    saved,             \* rows of table scans that came from job j
    thread,            \* where each cancel_scan call stands
    target,            \* the job each cancel_scan call is about
    rest,              \* remove_job_from_queue: old_items still to be put back
    overlap            \* history: two check-then-act sections on the queue met

jobVars    == <<status, cancel_requested, result>>
queueVars  == <<queue, unfinished>>
workerVars == <<worker, cur, at>>
threadVars == <<thread, target, rest>>
vars == <<jobVars, queueVars, workerVars, saved, threadVars, overlap>>

Statuses == {"absent", "queued", "running", "completed", "failed", "cancelled"}

\* main.py tests `status in ["completed", "failed", "cancelled"]`
Terminal(j) == status[j] \in {"completed", "failed", "cancelled"}

\* progress run_scan_job reports before it awaits; after the last comes analyze
Milestones == {10, 20, 35, 50, 65, 80}
Following(p) == CASE p = 10 -> 20 [] p = 20 -> 35 [] p = 35 -> 50
                  [] p = 50 -> 65 [] OTHER -> 80
\* milestones whose sleep is followed by a test of cancel_requested
Tested == {10, 20}

WorkerStates == {"get", "waiting", "woken", "pop", "skip", "begin", "start",
                 "phase", "analyze", "save", "publish", "deliver", "done", "dead"}
\* scan_worker is suspended at an await, so other coroutines may run
LoopFree == worker \in {"waiting", "woken", "phase", "analyze", "dead"}
\* scan_worker holds a job it has not called task_done for
Holding  == worker \in {"skip", "begin", "start", "phase", "analyze", "save",
                        "publish", "deliver", "done"}
\* ... and has not yet reached the outcome of that job
Pending  == worker \in {"skip", "begin", "start", "phase", "analyze", "save"}

ThreadStates == {"idle", "request", "branch", "snapshot", "clear", "append",
                 "mark", "overwrite", "answered"}
\* thread t works on a copy of the queue it took earlier
InRebuild(t) == thread[t] \in {"clear", "append"}
SomeRebuild  == \E t \in Cancels : InRebuild(t)

TypeOk ==
    /\ status \in [Jobs -> Statuses]
    /\ cancel_requested \in [Jobs -> BOOLEAN]
    /\ result \in [Jobs -> BOOLEAN]
    /\ queue \in Seq(Jobs)
    /\ unfinished \in Nat
    /\ worker \in WorkerStates
    /\ cur \in Jobs
    /\ at \in Milestones
    /\ saved \in [Jobs -> Nat]
    /\ thread \in [Cancels -> ThreadStates]
    /\ target \in [Cancels -> Jobs]
    /\ rest \in [Cancels -> Seq(Jobs)]
    /\ overlap \in BOOLEAN

\* startup_event has made the queue and started the worker
Init ==
    /\ status = [j \in Jobs |-> "absent"]
    /\ cancel_requested = [j \in Jobs |-> FALSE]
    /\ result = [j \in Jobs |-> FALSE]
    /\ queue = <<>>
    /\ unfinished = 0
    /\ worker = "get"
    /\ cur \in Jobs
    /\ at = 10
    /\ saved = [j \in Jobs |-> 0]
    /\ thread = [t \in Cancels |-> "idle"]
    /\ target \in [Cancels -> Jobs]
    /\ rest = [t \in Cancels |-> <<>>]
    /\ overlap = FALSE

-----------------------------------------------------------------------------
(* POST /scan-async *)

\* The append without Queue.put's wake-up of a waiting getter.
ScanAsync_unwoken(j) ==
    /\ LoopFree
    /\ status[j] = "absent"
    /\ status' = [status EXCEPT ![j] = "queued"]
    /\ queue' = Append(queue, j)
    /\ unfinished' = unfinished + 1
    /\ overlap' = (overlap \/ SomeRebuild)
    /\ UNCHANGED <<cancel_requested, result, workerVars, saved, threadVars>>

\* The job is entered as queued and put on the queue.  Queue.put appends,
\* counts the item and wakes a waiting getter; the queue is unbounded, so
\* nothing in scan_async suspends.
ScanAsync(j) ==
    /\ LoopFree
    /\ status[j] = "absent"
    /\ status' = [status EXCEPT ![j] = "queued"]
    /\ queue' = Append(queue, j)
    /\ unfinished' = unfinished + 1
    /\ worker' = IF worker = "waiting" THEN "woken" ELSE worker
    /\ overlap' = (overlap \/ SomeRebuild)
    /\ UNCHANGED <<cancel_requested, result, cur, at, saved, threadVars>>

-----------------------------------------------------------------------------
(* scan_worker *)

\* Queue.get: `while self.empty()` await a getter, else get_nowait.
Get ==
    /\ worker \in {"get", "woken"}
    /\ worker' = IF queue = <<>> THEN "waiting" ELSE "pop"
    /\ overlap' = (overlap \/ SomeRebuild)
    /\ UNCHANGED <<jobVars, queueVars, cur, at, saved, threadVars>>

\* the newest job first
Pop_last ==
    /\ worker = "pop"
    /\ IF queue = <<>>
         THEN worker' = "dead" /\ UNCHANGED <<queue, cur>>
         ELSE /\ worker' = "skip"
              /\ cur' = queue[Len(queue)]
              /\ queue' = SubSeq(queue, 1, Len(queue) - 1)
    /\ UNCHANGED <<jobVars, unfinished, at, saved, threadVars, overlap>>

\* get_nowait.  A queue emptied since Get raises QueueEmpty or IndexError; the
\* call stands outside the `try` of scan_worker, so the task ends.
Pop ==
    /\ worker = "pop"
    /\ IF queue = <<>>
         THEN worker' = "dead" /\ UNCHANGED <<queue, cur>>
         ELSE /\ worker' = "skip"
              /\ cur' = Head(queue)
              /\ queue' = Tail(queue)
    /\ UNCHANGED <<jobVars, unfinished, at, saved, threadVars, overlap>>

\* `if status == "cancelled": continue`
Skip ==
    /\ worker = "skip"
    /\ worker' = IF status[cur] = "cancelled" THEN "done" ELSE "begin"
    /\ UNCHANGED <<jobVars, queueVars, cur, at, saved, threadVars, overlap>>

\* What run_scan_job does wherever it finds cancel_requested set.
StopCancelled ==
    /\ cancel_requested[cur]
    /\ status' = [status EXCEPT ![cur] = "cancelled"]
    /\ worker' = "done"
    /\ UNCHANGED <<cancel_requested, result, queueVars, cur, at, saved,
                   threadVars, overlap>>

\* run_scan_job's first test of cancel_requested
Begin ==
    /\ worker = "begin"
    /\ \/ StopCancelled
       \/ /\ ~cancel_requested[cur]
          /\ worker' = "start"
          /\ UNCHANGED <<jobVars, queueVars, cur, at, saved, threadVars, overlap>>

\* status = "running", progress 10, first sleep
Start ==
    /\ worker = "start"
    /\ status' = [status EXCEPT ![cur] = "running"]
    /\ at' = 10
    /\ worker' = "phase"
    /\ UNCHANGED <<cancel_requested, result, queueVars, cur, saved, threadVars,
                   overlap>>

\* The sleep at milestone `at` ends: the next milestone, or the cancellation.
Phase ==
    /\ worker = "phase"
    /\ at # 65
    /\ \/ at \in Tested /\ StopCancelled
       \/ /\ at \in Tested => ~cancel_requested[cur]
          /\ at' = Following(at)
          /\ UNCHANGED <<jobVars, queueVars, worker, cur, saved, threadVars,
                         overlap>>

\* After the last sleep: progress 80, the test before analysis, the analysis.
EnterAnalysis ==
    /\ worker = "phase"
    /\ at = 65
    /\ \/ StopCancelled
       \/ /\ ~cancel_requested[cur]
          /\ at' = 80
          /\ worker' = "analyze"
          /\ UNCHANGED <<jobVars, queueVars, cur, saved, threadVars, overlap>>

\* analyze returns, and the test that follows it decides whether to save.
FinishAnalysis ==
    /\ worker = "analyze"
    /\ LET withdrawn == cancel_requested[cur] \/ status[cur] = "cancelled"
       IN  /\ worker' = IF withdrawn THEN "done" ELSE "save"
           /\ status' = IF withdrawn
                          THEN [status EXCEPT ![cur] = "cancelled"] ELSE status
    /\ UNCHANGED <<cancel_requested, result, queueVars, cur, at, saved,
                   threadVars, overlap>>

\* The handler that only logs.
Fail_silent ==
    /\ worker' = "done"
    /\ UNCHANGED <<jobVars, queueVars, cur, at, saved, threadVars, overlap>>

\* The `except Exception` of run_scan_job.
Fail ==
    /\ status' = [status EXCEPT ![cur] = "failed"]
    /\ worker' = "done"
    /\ UNCHANGED <<cancel_requested, result, queueVars, cur, at, saved,
                   threadVars, overlap>>

AnalysisRaises == worker = "analyze" /\ Fail

\* save_scan is one transaction: the row is there, or it raised.
SaveScan ==
    /\ worker = "save"
    /\ saved' = [saved EXCEPT ![cur] = @ + 1]
    /\ worker' = "publish"
    /\ UNCHANGED <<jobVars, queueVars, cur, at, threadVars, overlap>>

\* A failed save that goes on as if it had worked.
SaveRaises_swallowed ==
    /\ worker = "save"
    /\ worker' = "publish"
    /\ UNCHANGED <<jobVars, queueVars, cur, at, saved, threadVars, overlap>>

SaveRaises == worker = "save" /\ Fail

\* status = "completed" is assigned before the result is
Publish ==
    /\ worker = "publish"
    /\ status' = [status EXCEPT ![cur] = "completed"]
    /\ worker' = "deliver"
    /\ UNCHANGED <<cancel_requested, result, queueVars, cur, at, saved,
                   threadVars, overlap>>

Deliver ==
    /\ worker = "deliver"
    /\ result' = [result EXCEPT ![cur] = TRUE]
    /\ worker' = "done"
    /\ UNCHANGED <<status, cancel_requested, queueVars, cur, at, saved,
                   threadVars, overlap>>

\* `finally: scan_queue.task_done()` raises ValueError once every put is
\* accounted for; nothing catches it, and the task ends.
TaskDone ==
    /\ worker = "done"
    /\ IF unfinished = 0
         THEN worker' = "dead" /\ UNCHANGED unfinished
         ELSE worker' = "get" /\ unfinished' = unfinished - 1
    /\ UNCHANGED <<jobVars, queue, cur, at, saved, threadVars, overlap>>

Worker ==
    \/ Get \/ Pop \/ Skip \/ Begin \/ Start \/ Phase \/ EnterAnalysis
    \/ FinishAnalysis \/ AnalysisRaises \/ SaveScan \/ SaveRaises
    \/ Publish \/ Deliver \/ TaskDone

-----------------------------------------------------------------------------
(* POST /cancel-scan, by the owner of the job *)

MoveTo(t, s) == thread' = [thread EXCEPT ![t] = s]

\* A job that is already over is answered at once.
CancelScan(t, j) ==
    /\ thread[t] = "idle"
    /\ status[j] # "absent"
    /\ target' = [target EXCEPT ![t] = j]
    /\ MoveTo(t, IF Terminal(j) THEN "answered" ELSE "request")
    /\ UNCHANGED <<jobVars, queueVars, workerVars, saved, rest, overlap>>

\* The request that leaves no mark.
RequestCancel_unmarked(t) ==
    /\ thread[t] = "request"
    /\ MoveTo(t, "branch")
    /\ UNCHANGED <<jobVars, queueVars, workerVars, saved, target, rest, overlap>>

RequestCancel(t) ==
    /\ thread[t] = "request"
    /\ cancel_requested' = [cancel_requested EXCEPT ![target[t]] = TRUE]
    /\ MoveTo(t, "branch")
    /\ UNCHANGED <<status, result, queueVars, workerVars, saved, target, rest,
                   overlap>>

Branch(t) ==
    /\ thread[t] = "branch"
    /\ MoveTo(t, CASE status[target[t]] = "queued"  -> "snapshot"
                   [] status[target[t]] = "running" -> "overwrite"
                   [] OTHER                         -> "answered")
    /\ UNCHANGED <<jobVars, queueVars, workerVars, saved, target, rest, overlap>>

\* remove_job_from_queue: old_items = list(scan_queue._queue)
Snapshot(t) ==
    /\ thread[t] = "snapshot"
    /\ rest' = [rest EXCEPT ![t] = queue]
    /\ MoveTo(t, "clear")
    /\ overlap' = (overlap \/ SomeRebuild \/ worker = "pop")
    /\ UNCHANGED <<jobVars, queueVars, workerVars, saved, target>>

\* The loop over old_items left after its first item.
AfterItem_first(s) == "mark"

\* The rebuild is over once no item is left to put back.
AfterItem(s) == IF s = <<>> THEN "mark" ELSE "append"

\* The rebuild without the call of clear().
Clear_forgotten(t) ==
    /\ thread[t] = "clear"
    /\ MoveTo(t, AfterItem(rest[t]))
    /\ UNCHANGED <<jobVars, queueVars, workerVars, saved, target, rest, overlap>>

\* scan_queue._queue.clear()
Clear(t) ==
    /\ thread[t] = "clear"
    /\ queue' = <<>>
    /\ MoveTo(t, AfterItem(rest[t]))
    /\ UNCHANGED <<jobVars, unfinished, workerVars, saved, target, rest, overlap>>

\* One item of old_items: dropped if it is the cancelled job, else appended
\* to the deque.  Neither the counter of the asyncio.Queue nor a waiting getter
\* learns of it.
PutBack(t) ==
    /\ thread[t] = "append"
    /\ rest[t] # <<>>
    /\ queue' = IF Head(rest[t]) = target[t]
                  THEN queue ELSE Append(queue, Head(rest[t]))
    /\ rest' = [rest EXCEPT ![t] = Tail(@)]
    /\ MoveTo(t, AfterItem(Tail(rest[t])))
    /\ UNCHANGED <<jobVars, unfinished, workerVars, saved, target, overlap>>

\* The removal that leaves the status as it was.
MarkCancelled_omitted(t) ==
    /\ thread[t] \in {"mark", "overwrite"}
    /\ MoveTo(t, "answered")
    /\ UNCHANGED <<jobVars, queueVars, workerVars, saved, target, rest, overlap>>

\* The assignments of "cancelled" after the rebuild, and for a running job.
MarkCancelled(t) ==
    /\ thread[t] \in {"mark", "overwrite"}
    /\ status' = [status EXCEPT ![target[t]] = "cancelled"]
    /\ MoveTo(t, "answered")
    /\ UNCHANGED <<cancel_requested, result, queueVars, workerVars, saved,
                   target, rest, overlap>>

CancelStep(t) ==
    \/ RequestCancel(t) \/ Branch(t) \/ Snapshot(t)
    \/ Clear(t) \/ PutBack(t) \/ MarkCancelled(t)

-----------------------------------------------------------------------------

Next ==
    \/ \E j \in Jobs : ScanAsync(j)
    \/ Worker
    \/ \E t \in Cancels : CancelStep(t) \/ \E j \in Jobs : CancelScan(t, j)

\* The event loop runs a ready task, every await of run_scan_job ends (sleeps,
\* and probes that all carry a timeout), and the pool runs its threads.
\* Nothing obliges a client to submit or to cancel.
Fairness == WF_vars(Worker) /\ \A t \in Cancels : WF_vars(CancelStep(t))

Spec == Init /\ [][Next]_vars
FairSpec == Spec /\ Fairness

-----------------------------------------------------------------------------
(* Properties *)

Items(s)    == {s[i] : i \in 1..Len(s)}
Distinct(s) == \A i, k \in 1..Len(s) : s[i] = s[k] => i = k

\* Thread t has cleared the queue and holds what it has still to put back.
PuttingBack(t) == thread[t] = "append"

\* Job j will still reach the worker.
InLine(j) == j \in Items(queue) \/ \E t \in Cancels : PuttingBack(t) /\ j \in Items(rest[t])

\* A queued job nobody asked to cancel is on the queue, on its way back to it,
\* or in the worker's hands: as long as no two users of the deque overlap, the
\* list/clear/append of remove_job_from_queue (main.py 418-431) loses no job.
NothingLost ==
    ~overlap =>
        \A j \in Jobs :
            status[j] = "queued" /\ ~cancel_requested[j] =>
                InLine(j) \/ (cur = j /\ worker \in {"skip", "begin", "start"})

\* As long as no two users of the deque overlap, no job stands in line twice,
\* none is in line while the worker has it or after it was stored, and so each
\* submission leaves at most one row in table scans.
ServedOnce ==
    ~overlap =>
        /\ Distinct(queue)
        /\ \A t \in Cancels : PuttingBack(t) =>
               Distinct(rest[t]) /\ Items(rest[t]) \cap Items(queue) = {}
        /\ Holding => ~InLine(cur)
        /\ \A j \in Jobs :
               saved[j] <= (IF InLine(j) \/ (Pending /\ cur = j) THEN 0 ELSE 1)

\* As long as no two users of the deque overlap, the worker task is alive, its
\* task_done is covered by a put, and it never sleeps beside a waiting job (the
\* appends of remove_job_from_queue wake no getter).
WorkerServes ==
    ~overlap =>
        /\ worker # "dead"
        /\ worker = "done" => unfinished > 0
        /\ worker = "waiting" => \A j \in Jobs : ~InLine(j)

\* Whatever overlaps: a job shown as completed has a row in table scans, and a
\* result unless the worker is between the two assignments of main.py 875-877.
CompletedIsStored ==
    \A j \in Jobs :
        status[j] = "completed" =>
            saved[j] > 0 /\ (result[j] \/ (worker = "deliver" /\ cur = j))

\* A finished job changes its status again only after a cancel request for it, and
\* then a completed or failed one only to cancelled (the check-then-act of
\* cancel_scan, main.py 756-797); or after two users of the deque overlapped, which
\* can run a job twice.
FinalUnlessDisturbed ==
    [][\A j \in Jobs : Terminal(j) /\ status'[j] # status[j] =>
           \/ overlap
           \/ /\ cancel_requested[j]
              /\ status[j] # "cancelled" => status'[j] = "cancelled"]_vars

\* The deque with what a rebuild has still to put back.
Line == LET t == CHOOSE u \in Cancels : PuttingBack(u)
        IN  IF \E u \in Cancels : PuttingBack(u) THEN queue \o rest[t] ELSE queue

\* A cancel request settles its job for good, whatever it races with: from some
\* point on the job is completed, failed or cancelled and stays so.
CancelSettles ==
    \A j \in Jobs : cancel_requested[j] ~> [](Terminal(j))

\* Every submitted job is eventually over, if no two users of the deque overlap.
EverySubmissionEnds ==
    []~overlap => \A j \in Jobs : status[j] = "queued" ~> Terminal(j)

\* "Cancel requested. Current scan will stop after current operation."
\* (main.py 790): a job shown as cancelled is not shown as completed later.
CancelledNeverCompletes ==
    [][\A j \in Jobs : status[j] = "cancelled" => status'[j] # "completed"]_vars
-----------------------------------------------------------------------------
(* The service these steps are to their users *)

Service == INSTANCE ScanService WITH
    submitted <- {j \in Jobs : status[j] # "absent"},
    unwanted  <- {j \in Jobs : cancel_requested[j]},
    line      <- Line,
    hand      <- IF Holding THEN {cur} ELSE {},
    stored    <- saved,
    broken    <- overlap

\* Every step of the code, until two users of the deque overlap, is a step of
\* the service or invisible to it: jobs are served one at a time, in order and
\* at most once, and none is dropped unasked by remove_job_from_queue.
ImplementsService == Service!Spec

-----------------------------------------------------------------------------
(* The inductive invariant behind the safety properties *)

\* The sections that read the deque and act on what they read exclude each other.
Exclusive ==
    /\ \A t, u \in Cancels : InRebuild(t) /\ InRebuild(u) => t = u
    /\ \A t \in Cancels : InRebuild(t) => worker # "pop"
    /\ \A t \in Cancels : thread[t] = "clear" => rest[t] = queue
    /\ worker = "pop" => queue # <<>>

\* Every item in line or in the worker's hands is one put not yet accounted for.
Held == IF Holding THEN 1 ELSE 0
Counted ==
    /\ unfinished >= Len(queue) + Held
    /\ \A t \in Cancels :
          PuttingBack(t) => unfinished >= Len(queue) + Len(rest[t]) + Held

\* How far a job has come agrees with its status.
InStep ==
    /\ \A j \in Jobs : InLine(j) => status[j] \in {"queued", "cancelled"}
    /\ worker \in {"skip", "begin", "start"} => status[cur] \in {"queued", "cancelled"}
    /\ worker \in {"phase", "analyze", "save", "publish"} =>
          status[cur] \in {"running", "cancelled"}
    /\ Holding => status[cur] # "absent"
    /\ \A j \in Jobs : status[j] = "absent" => saved[j] = 0

\* What holds whatever overlaps.
Always ==
    /\ \A t \in Cancels : PuttingBack(t) => rest[t] # <<>>
    /\ \A t \in Cancels : thread[t] \notin {"idle", "answered", "request"} =>
          cancel_requested[target[t]]
    /\ \A t \in Cancels : thread[t] # "idle" => status[target[t]] # "absent"
    /\ \A j \in Jobs : status[j] = "cancelled" => cancel_requested[j]
    /\ worker \in {"publish", "deliver"} => saved[cur] > 0
    /\ CompletedIsStored

\* What holds until two users of the deque overlap.
Undisturbed ==
    Exclusive /\ Counted /\ InStep /\ NothingLost /\ ServedOnce /\ WorkerServes

\* The inductive invariant: while nothing overlaps, the check-then-act sections
\* on the deque exclude each other, and the line agrees with the statuses.
IInv == TypeOk /\ Always /\ (~overlap => Undisturbed)
=============================================================================
