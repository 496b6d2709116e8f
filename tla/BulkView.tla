------------------------------ MODULE BulkView ------------------------------
(***************************************************************************)
(* The dashboard's view of bulk scans, frontend/app.js: startBulkScan()    *)
(* posts the targets, polls the job once and then by an interval;          *)
(* pollBulkStatus() stops the interval at the end of any job and loads its *)
(* results; cancelBulkScan() asks for the end and polls.  The jobs on the  *)
(* server are those of BulkJob, which BulkScan implements.                 *)
(*                                                                         *)
(* The browser runs one callback at a time; requests are answered late and *)
(* in any order, and two callbacks meet only in the global variables.  The *)
(* bound on the user: no click while a start waits for its first poll.     *)
(* ScanPoller has the overlapping calls of the same code for single scans. *)
(*                                                                         *)
(* A_x is A with the mistake x in it; no specification uses it.            *)
(***************************************************************************)
EXTENDS Naturals, FiniteSets

CONSTANTS
    N,           \* number of targets of a job
    MaxStarts,   \* bound on the clicks of "Start Bulk Scan"
    MaxPolls,    \* bound on the requests for a status or for results under way
    MaxErrors    \* bound on the answers that are errors or get lost

ASSUME BoundsAssumption ==
    N \in Nat \ {0} /\ MaxStarts \in Nat /\ MaxPolls \in Nat \ {0} /\ MaxErrors \in Nat

VARIABLES
    server,      \* bulk_jobs, the job of each start
    starts,      \* where each call of startBulkScan() is
    current,     \* currentBulkJobId, 0 for null; never null again
    timer,       \* currentBulkPollTimer, 0 for null
    live,        \* the intervals not cleared, named by the start that set them
    polls,       \* calls of pollBulkStatus(), with the request under way
    cancel,      \* the cancel request under way
    panel,       \* what is shown: the report, the running view, a message
    lastReport,  \* and __bulkLastData: the results shown last
    errors,      \* number of errors, for the bound
    disturbed    \* history: the current job was lost to an error or another job

shown == <<panel, lastReport>>
timers == <<current, timer, live>>
vars == <<server, starts, timers, polls, cancel, shown, errors, disturbed>>

Jobs == 1..MaxStarts     \* the job of a start has its number
Slots == 1..MaxPolls
Free == [job |-> 0, by |-> 0, asks |-> "nothing", answer |-> "", listed |-> 0]
NoCancel == [job |-> 0, at |-> "none"]
NoReport == [job |-> 0, listed |-> 0]

Job(j) == INSTANCE BulkJob WITH job <- server[j]
Exists(j) == starts[j] \in {"polling", "done"}

Init ==
    /\ server = [j \in Jobs |-> Job(j)!Queued]
    /\ starts = [i \in Jobs |-> "idle"]
    /\ current = 0 /\ timer = 0 /\ live = {}
    /\ polls = [p \in Slots |-> Free]
    /\ cancel = NoCancel
    /\ panel = "message" /\ lastReport = NoReport
    /\ errors = 0
    /\ disturbed = FALSE

-----------------------------------------------------------------------------
(* startBulkScan() *)

\* pollBulkStatus(job), for the first poll of start by or, by = 0, another
Send(job, by) ==
    \E p \in Slots :
        /\ polls[p] = Free /\ \A q \in 1..(p - 1) : polls[q] # Free
        /\ polls' = [polls EXCEPT ![p] = [Free EXCEPT !.job = job, !.by = by,
                                                      !.asks = "status"]]

InStart(i) == starts[i] \in {"posting", "polling"}

\* The start before it has had its first poll.
Click(i) ==
    /\ starts[i] = "idle" /\ \A k \in 1..(i - 1) : starts[k] \in {"done", "refused"}
    /\ starts' = [starts EXCEPT ![i] = "posting"]
    /\ panel' = "message"
    /\ UNCHANGED <<server, timers, polls, cancel, lastReport, errors, disturbed>>

Refused(i) ==
    /\ starts[i] = "posting" /\ errors < MaxErrors
    /\ starts' = [starts EXCEPT ![i] = "refused"]
    /\ panel' = "message"
    /\ errors' = errors + 1
    /\ UNCHANGED <<server, timers, polls, cancel, lastReport, disturbed>>

\* The post is answered with the id of the new job, whose coroutine has begun: its
\* task was created before the answer.
Started(i) ==
    /\ starts[i] = "posting"
    /\ starts' = [starts EXCEPT ![i] = "polling"]
    /\ \E k \in Job(i)!Begin(server[i]) : server' = [server EXCEPT ![i] = k]
    /\ current' = i
    /\ live' = live \ {timer}
    /\ Send(i, i)
    /\ disturbed' = FALSE
    /\ UNCHANGED <<timer, cancel, shown, errors>>

\* An interval fires.
Tick(t) ==
    /\ t \in live /\ current # 0
    /\ Send(current, 0)
    /\ UNCHANGED <<server, starts, timers, cancel, shown, errors, disturbed>>

-----------------------------------------------------------------------------
(* the server *)

\* The coroutine of a job and its tasks.
ServerWorks(j) ==
    /\ Exists(j)
    /\ \E k \in Job(j)!List(server[j]) \cup Job(j)!End(server[j]) :
          server' = [server EXCEPT ![j] = k]
    /\ UNCHANGED <<starts, timers, polls, cancel, shown, errors, disturbed>>

\* An exception gets out of a task.
ServerFails(j) ==
    /\ Exists(j) /\ errors < MaxErrors
    /\ \E k \in Job(j)!Excuse(server[j]) : server' = [server EXCEPT ![j] = k]
    /\ errors' = errors + 1
    /\ UNCHANGED <<starts, timers, polls, cancel, shown, disturbed>>

\* Any request may fail, be limited, or get lost.
ServerAnswers(p) ==
    LET job == server[polls[p].job] IN
    /\ polls[p] # Free /\ polls[p].answer = ""
    /\ \/ /\ polls[p].asks = "status"
          /\ polls' = [polls EXCEPT ![p].answer = IF job.ended THEN "ended" ELSE "running"]
          /\ UNCHANGED errors
       \/ /\ polls[p].asks = "results"
          /\ polls' = [polls EXCEPT ![p].answer = "results", ![p].listed = job.listed]
          /\ UNCHANGED errors
       \/ /\ errors < MaxErrors
          /\ polls' = [polls EXCEPT ![p].answer = "error"]
          /\ errors' = errors + 1
    /\ UNCHANGED <<server, starts, timers, cancel, shown, disturbed>>

-----------------------------------------------------------------------------
(* pollBulkStatus() and loadBulkResults(): an answer arrives *)

FirstPoll == \E i \in Jobs : starts[i] = "polling"

\* The first poll finds the interval already set.
Return_unset(p, left, tm) ==
    /\ polls' = [polls EXCEPT ![p] = Free]
    /\ timer' = tm /\ live' = left
    /\ starts' = [i \in Jobs |-> IF i = polls[p].by THEN "done" ELSE starts[i]]
\* pollBulkStatus() returns; after its first poll, however that went,
\* startBulkScan() sets the interval before any other callback runs.
Return(p, left, tm) ==
    LET by == polls[p].by IN
    /\ polls' = [polls EXCEPT ![p] = Free]
    /\ IF by # 0 THEN /\ timer' = by /\ live' = left \cup {by}
                      /\ starts' = [starts EXCEPT ![by] = "done"]
       ELSE timer' = tm /\ live' = left /\ UNCHANGED starts

\* Every answer ends the watching.
StatusRunning_stopping(p) ==
    /\ polls[p].answer = "running"
    /\ panel' = "running"
    /\ Return(p, live \ {timer}, 0)
    /\ UNCHANGED <<server, current, cancel, lastReport, errors, disturbed>>
\* renderBulkStatus puts the running view over whatever is shown.
StatusRunning(p) ==
    /\ polls[p].answer = "running"
    /\ panel' = "running"
    /\ Return(p, live, timer)
    /\ UNCHANGED <<server, current, cancel, lastReport, errors, disturbed>>

\* An error ends the watching; the panel stays.
StatusFails(p) ==
    /\ polls[p].asks = "status" /\ polls[p].answer = "error"
    /\ disturbed' = (disturbed \/ ~FirstPoll)
    /\ Return(p, live \ {timer}, 0)
    /\ UNCHANGED <<server, current, cancel, shown, errors>>

\* The interval goes on.
StatusEnded_ticking(p) ==
    /\ polls[p].answer = "ended"
    /\ polls' = [polls EXCEPT ![p].asks = "results", ![p].answer = ""]
    /\ UNCHANGED <<server, starts, timers, cancel, shown, errors, disturbed>>
\* The end of any job stops the interval of the current one; the results are
\* asked for.
StatusEnded(p) ==
    /\ polls[p].answer = "ended"
    /\ timer' = 0 /\ live' = live \ {timer}
    /\ polls' = [polls EXCEPT ![p].asks = "results", ![p].answer = ""]
    /\ disturbed' = (disturbed \/ (polls[p].job # current /\ ~FirstPoll))
    /\ UNCHANGED <<server, starts, current, cancel, shown, errors>>

ResultsLoaded(p) ==
    /\ polls[p].answer = "results"
    /\ lastReport' = [job |-> polls[p].job, listed |-> polls[p].listed]
    /\ panel' = "report"
    /\ disturbed' = (disturbed \/ polls[p].job # current)
    /\ Return(p, live, timer)
    /\ UNCHANGED <<server, current, cancel, errors>>

ResultsFail(p) ==
    /\ polls[p].asks = "results" /\ polls[p].answer = "error"
    /\ panel' = "message"
    /\ disturbed' = (disturbed \/ polls[p].by = 0)
    /\ Return(p, live, timer)
    /\ UNCHANGED <<server, current, cancel, lastReport, errors>>

Arrive(p) ==
    StatusRunning(p) \/ StatusFails(p) \/ StatusEnded(p) \/ ResultsLoaded(p) \/ ResultsFail(p)

\* setBulkFilter() shows the last results again, whatever is shown.
SetFilter ==
    /\ lastReport # NoReport
    /\ panel' = "report"
    /\ UNCHANGED <<server, starts, timers, polls, cancel, lastReport, errors, disturbed>>

-----------------------------------------------------------------------------
(* cancelBulkScan() *)

ClickCancel ==
    /\ current # 0 /\ cancel = NoCancel
    /\ cancel' = [job |-> current, at |-> "sent"]
    /\ UNCHANGED <<server, starts, timers, polls, shown, errors, disturbed>>

\* A pool thread sets the flag, and writes the status unless it finds it ended.
ServerCancels ==
    LET j == cancel.job IN
    /\ cancel.at = "sent"
    /\ cancel' = [job |-> 0, at |-> "answered"]
    /\ \E k \in Job(j)!Excuse(server[j]) :
          server' = [server EXCEPT ![j] = [k EXCEPT !.ended = TRUE]]
    /\ UNCHANGED <<starts, timers, polls, shown, errors, disturbed>>

\* The answer: poll the job that is current now.
CancelAnswered ==
    /\ cancel.at = "answered"
    /\ cancel' = NoCancel
    /\ Send(current, 0)
    /\ UNCHANGED <<server, starts, timers, shown, errors, disturbed>>

\* Refused or lost on its way, or its answer is: an alert.
CancelFails ==
    /\ cancel.at \in {"sent", "answered"} /\ errors < MaxErrors
    /\ cancel' = NoCancel /\ errors' = errors + 1
    /\ UNCHANGED <<server, starts, timers, polls, shown, disturbed>>

-----------------------------------------------------------------------------

Next ==
    \/ \E i \in Jobs : Click(i) \/ Refused(i) \/ Started(i) \/ Tick(i)
                       \/ ServerWorks(i) \/ ServerFails(i)
    \/ \E p \in Slots : ServerAnswers(p) \/ Arrive(p)
    \/ SetFilter \/ ClickCancel \/ ServerCancels \/ CancelAnswered \/ CancelFails

Safe == Init /\ [][Next]_vars
\* Requests are answered, answers are handled, intervals fire, and the coroutine
\* of every job goes on (BulkScanEnds of BulkScan).  The user owes nothing.
Spec ==
    /\ Safe
    /\ \A i \in Jobs : WF_vars(Tick(i)) /\ WF_vars(ServerWorks(i))
    /\ \A p \in Slots : WF_vars(ServerAnswers(p)) /\ WF_vars(Arrive(p))
    /\ WF_vars(ServerCancels)

-----------------------------------------------------------------------------
(* properties *)

\* Nothing is under way that could still change what is shown.
Idle ==
    /\ live = {} /\ cancel = NoCancel
    /\ \A p \in Slots : polls[p] = Free
    /\ \A i \in Jobs : ~InStart(i)

\* When the dashboard has come to rest, its report is that of the last job, with
\* every target, and it is what is shown: unless another job or an error of a
\* later request got in between, the job was cancelled (then the report is what
\* was done at that time, 1578), an exception let targets loose, or a status
\* from before the end came last and hid the report (1566-1593, 1618-1659).
RestShowsTheEnd ==
    Idle /\ current # 0 /\ ~disturbed =>
        /\ lastReport.job = current
        /\ server[current].excused \/ lastReport.listed = N
        /\ panel \in {"report", "running"} \/ \E k \in Jobs : k > current /\ starts[k] # "idle"

\* The dashboard stops asking at last, also when the interval is set after the
\* first poll found the job's end, although the id of the job is kept and every
\* interval asks for it (1536-1548, 1578-1582).
PollingStops == <>[](live = {})

Superseded(i) == \E k \in (i + 1)..MaxStarts : starts[k] \in {"polling", "done"}

\* The results of every job that was started are shown, with the exceptions of
\* RestShowsTheEnd, in whatever order answers come; a first poll may fail.
ResultsAreShown ==
    \A i \in Jobs :
        starts[i] = "polling" ~>
            lastReport.job = i \/ disturbed \/ Superseded(i)

-----------------------------------------------------------------------------
(* The inductive invariant behind RestShowsTheEnd. *)

Statuses == {"idle", "posting", "refused", "polling", "done"}
Requests ==
    [job : 0..MaxStarts, by : 0..MaxStarts, asks : {"nothing", "status", "results"},
     answer : {"", "running", "ended", "results", "error"}, listed : 0..N]

TypeOk ==
    /\ server \in [Jobs -> [began : BOOLEAN, ended : BOOLEAN, excused : BOOLEAN, listed : 0..N]]
    /\ starts \in [Jobs -> Statuses]
    /\ current \in 0..MaxStarts /\ timer \in 0..MaxStarts /\ live \subseteq Jobs
    /\ polls \in [Slots -> Requests]
    /\ cancel \in [job : 0..MaxStarts, at : {"none", "sent", "answered"}]
    /\ panel \in {"message", "running", "report"}
    /\ lastReport \in [job : 0..MaxStarts, listed : 0..N]
    /\ errors \in 0..MaxErrors
    /\ disturbed \in BOOLEAN

\* Starts come one after the other, and the current job is the last one's.
InOrder ==
    /\ \A k \in Jobs : starts[k] # "idle" =>
          \A i \in 1..(k - 1) : starts[i] \in {"done", "refused"}
    /\ current # 0 => Exists(current)
    /\ \A i \in Jobs : Exists(i) => i \leq current
    /\ \A i \in Jobs : starts[i] = "polling" => current = i

\* A job is asked about, or cancelled, when it exists; its first poll is one call.
CancelRight ==
    cancel # NoCancel =>
        current # 0 /\ (cancel.at = "sent" => cancel.job # 0 /\ Exists(cancel.job))

AskedRight(p) ==
    /\ polls[p].job # 0 /\ Exists(polls[p].job)
    /\ polls[p].asks \in {"status", "results"}
    /\ polls[p].answer \in {"running", "ended"} => polls[p].asks = "status"
    /\ polls[p].answer = "results" => polls[p].asks = "results"
    /\ polls[p].by # 0 =>
          /\ starts[polls[p].by] = "polling"
          /\ \A q \in Slots : polls[q].by = polls[p].by => q = p

Asked == \A p \in Slots : polls[p] # Free => AskedRight(p)

Complete(j, listed) == server[j].excused \/ listed = N

\* A job that has ended lists every target, or is excused.
JobsRight ==
    \A j \in Jobs :
        IF Exists(j) THEN server[j].began /\ (server[j].ended => Complete(j, server[j].listed))
        ELSE server[j] = Job(j)!Queued

\* The end of a job is known, and its results are read, after it came.
AnswerRight(p) ==
    /\ polls[p].answer = "ended" \/ polls[p].asks = "results" => server[polls[p].job].ended
    /\ polls[p].answer = "results" => Complete(polls[p].job, polls[p].listed)

AnswersRight == \A p \in Slots : polls[p] # Free => AnswerRight(p)

ReportRight ==
    lastReport.job # 0 => Exists(lastReport.job) /\ Complete(lastReport.job, lastReport.listed)

\* The current job is polled, its results are asked for, or they are shown.
Watched ==
    current # 0 /\ ~disturbed /\ starts[current] = "done" =>
        \/ timer = current /\ current \in live
        \/ \E p \in Slots : polls[p].job = current /\ polls[p].asks = "results"
        \/ /\ lastReport.job = current
           /\ panel \in {"report", "running"} \/ \E k \in Jobs : k > current /\ starts[k] # "idle"

IInv ==
    /\ TypeOk
    /\ InOrder
    /\ CancelRight
    /\ Asked
    /\ JobsRight
    /\ AnswersRight
    /\ ReportRight
    /\ Watched
=============================================================================
