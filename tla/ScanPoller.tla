----------------------------- MODULE ScanPoller -----------------------------
(***************************************************************************)
(* The dashboard's live view of a scan, frontend/app.js: scan() posts the  *)
(* target, polls the job once and then by an interval; cancelCurrentScan() *)
(* asks for the end and polls; pollScanStatus() shows each answer and      *)
(* stops the watching.  The browser runs one callback at a time; requests  *)
(* are answered late and in any order, and two callbacks meet only in the  *)
(* two global variables.  The button stays enabled, so scan() may overlap. *)
(*                                                                         *)
(* A_x is A with the mistake x in it; no specification uses it.            *)
(***************************************************************************)
EXTENDS Naturals, FiniteSets

CONSTANTS
    MaxScans,    \* bound on the clicks of "Start Live Scan"
    MaxPolls,    \* bound on the status requests under way
    MaxErrors    \* bound on the answers that are errors or get lost

ASSUME BoundsAssumption ==
    MaxScans \in Nat /\ MaxPolls \in Nat \ {0} /\ MaxErrors \in Nat

VARIABLES
    status,      \* the server's status of the job of each scan
    scans,       \* where each call of scan() is
    current,     \* currentScanJobId, 0 for null
    timer,       \* currentScanPollTimer, 0 for null
    live,        \* the intervals not cleared, named by the scan that set them
    polls,       \* the status requests under way
    cancel,      \* the cancel request under way
    panel,       \* what is shown
    errors,      \* number of errors, for the bound
    ended,       \* jobs whose end was shown
    disturbed,   \* the current job was lost to an error or another job's end
    overlapped   \* two calls of scan() have overlapped

history == <<ended, disturbed, overlapped>>
vars == <<status, scans, current, timer, live, polls, cancel, panel, errors, history>>

Jobs == 1..MaxScans      \* the job of a scan has the scan's number
Slots == 1..MaxPolls
\* completed and failed, which differ in what is shown only, are "over"
Terminal == {"over", "cancelled"}
Free == [job |-> 0, by |-> 0, answer |-> "free"]
NoCancel == [job |-> 0, answered |-> FALSE]

Init ==
    /\ status = [j \in Jobs |-> "none"]
    /\ scans = [i \in Jobs |-> "idle"]
    /\ current = 0 /\ timer = 0 /\ live = {}
    /\ polls = [p \in Slots |-> Free]
    /\ cancel = NoCancel
    /\ panel = [job |-> 0, shows |-> "nothing"]
    /\ errors = 0
    /\ ended = {} /\ disturbed = FALSE /\ overlapped = FALSE

-----------------------------------------------------------------------------
(* scan() *)

\* fetch of the status of job, for the first poll of scan by or, by = 0, another
Send(job, by) ==
    \E p \in Slots :
        /\ polls[p] = Free /\ \A q \in 1..(p - 1) : polls[q] # Free
        /\ polls' = [polls EXCEPT ![p] = [job |-> job, by |-> by, answer |-> ""]]

InScan(i) == scans[i] \in {"posting", "polling"}

Click(i) ==
    /\ scans[i] = "idle" /\ \A k \in 1..(i - 1) : scans[k] # "idle"
    /\ scans' = [scans EXCEPT ![i] = "posting"]
    /\ panel' = [job |-> i, shows |-> "starting"]
    /\ overlapped' = (overlapped \/ \E k \in Jobs : InScan(k))
    /\ UNCHANGED <<status, current, timer, live, polls, cancel, errors, ended, disturbed>>

\* The post fails: scan() shows the message of its catch.
Refused(i) ==
    /\ scans[i] = "posting" /\ errors < MaxErrors
    /\ scans' = [scans EXCEPT ![i] = "refused"]
    /\ panel' = [job |-> i, shows |-> "error"]
    /\ errors' = errors + 1
    /\ UNCHANGED <<status, current, timer, live, polls, cancel, history>>

\* The old interval is not cleared.
Started_uncleared(i) ==
    /\ scans[i] = "posting"
    /\ scans' = [scans EXCEPT ![i] = "polling"]
    /\ status' = [status EXCEPT ![i] = "running"]
    /\ current' = i
    /\ panel' = [job |-> i, shows |-> "running"]
    /\ Send(i, i)
    /\ disturbed' = FALSE
    /\ UNCHANGED <<timer, live, cancel, errors, ended, overlapped>>
\* The post is answered with the id of the new job.
Started(i) ==
    /\ scans[i] = "posting"
    /\ scans' = [scans EXCEPT ![i] = "polling"]
    /\ status' = [status EXCEPT ![i] = "running"]
    /\ current' = i
    /\ panel' = [job |-> i, shows |-> "running"]
    /\ live' = live \ {timer}
    /\ Send(i, i)
    /\ disturbed' = FALSE
    /\ UNCHANGED <<timer, cancel, errors, ended, overlapped>>

\* A timeout instead of an interval.
Tick_once(t) ==
    /\ t \in live /\ current # 0
    /\ Send(current, 0)
    /\ live' = live \ {t}
    /\ UNCHANGED <<status, scans, current, timer, cancel, panel, errors, history>>
\* An interval fires; without a current job it does nothing.
Tick(t) ==
    /\ t \in live /\ current # 0
    /\ Send(current, 0)
    /\ UNCHANGED <<status, scans, current, timer, live, cancel, panel, errors, history>>

-----------------------------------------------------------------------------
(* the server *)

\* A job ends by itself, goes on although it was cancelled, or runs once more after
\* its end (ScanQueue).
ServerMoves(j) ==
    /\ \/ status[j] \in {"running", "cancelled"} /\ status' = [status EXCEPT ![j] = "over"]
       \/ status[j] \in Terminal /\ status' = [status EXCEPT ![j] = "running"]
    /\ UNCHANGED <<scans, current, timer, live, polls, cancel, panel, errors, history>>

\* There is no job "null"; and any request may fail, be limited, or get lost.
ServerAnswers(p) ==
    /\ polls[p].answer = ""
    /\ \/ /\ polls[p].job # 0
          /\ polls' = [polls EXCEPT ![p].answer = status[polls[p].job]]
          /\ UNCHANGED errors
       \/ /\ polls[p].job = 0
          /\ polls' = [polls EXCEPT ![p].answer = "error"]
          /\ UNCHANGED errors
       \/ /\ polls[p].job # 0 /\ errors < MaxErrors
          /\ polls' = [polls EXCEPT ![p].answer = "error"]
          /\ errors' = errors + 1
    /\ UNCHANGED <<status, scans, current, timer, live, cancel, panel, history>>

-----------------------------------------------------------------------------
(* pollScanStatus(): an answer arrives *)

\* Show it, and forget the current job at the end of any.
Show(job, answer) ==
    /\ panel' = [job |-> job, shows |-> answer]
    /\ current' = IF answer \in Terminal THEN 0 ELSE current
    /\ ended' = IF answer \in Terminal THEN ended \cup {job} ELSE ended
    /\ disturbed' = \/ disturbed
                    \/ answer = "error" /\ \A i \in Jobs : scans[i] # "polling"
                    \/ answer \in Terminal /\ current \notin {0, job}

\* Every answer stops the watching.
Arrive_stopping(p) ==
    /\ polls[p].answer \notin {"", "free"}
    /\ polls' = [polls EXCEPT ![p] = Free]
    /\ Show(polls[p].job, polls[p].answer)
    /\ IF polls[p].by # 0
       THEN /\ timer' = polls[p].by
            /\ live' = (live \ {timer}) \cup {polls[p].by}
            /\ scans' = [scans EXCEPT ![polls[p].by] = "done"]
       ELSE timer' = 0 /\ live' = live \ {timer} /\ UNCHANGED scans
    /\ UNCHANGED <<status, cancel, errors, overlapped>>
\* After its first poll, however that went, scan() sets the interval, before
\* any other callback runs.
Arrive(p) ==
    LET answer == polls[p].answer
        by == polls[p].by
        left == IF answer = "running" THEN live ELSE live \ {timer}
    IN
    /\ answer \notin {"", "free"}
    /\ polls' = [polls EXCEPT ![p] = Free]
    /\ Show(polls[p].job, answer)
    /\ IF by # 0
       THEN /\ timer' = by /\ live' = left \cup {by}
            /\ scans' = [scans EXCEPT ![by] = "done"]
       ELSE /\ timer' = IF answer = "running" THEN timer ELSE 0
            /\ live' = left
            /\ UNCHANGED scans
    /\ UNCHANGED <<status, cancel, errors, overlapped>>

-----------------------------------------------------------------------------
(* cancelCurrentScan() *)

ClickCancel ==
    /\ current # 0 /\ cancel = NoCancel
    /\ cancel' = [job |-> current, answered |-> FALSE]
    /\ UNCHANGED <<status, scans, current, timer, live, polls, panel, errors, history>>

\* A job that is over is left alone, unless it ended after the test.
ServerCancels ==
    /\ cancel.job # 0 /\ ~cancel.answered
    /\ cancel' = [cancel EXCEPT !.answered = TRUE]
    /\ \/ status' = [status EXCEPT ![cancel.job] = "cancelled"]
       \/ status[cancel.job] \in Terminal /\ UNCHANGED status
    /\ UNCHANGED <<scans, current, timer, live, polls, panel, errors, history>>

\* The answer: poll the job that is current now, if any; "null" otherwise.
CancelAnswered ==
    /\ cancel.answered
    /\ cancel' = NoCancel
    /\ Send(current, 0)
    /\ UNCHANGED <<status, scans, current, timer, live, panel, errors, history>>

\* Refused or lost: an alert.
CancelFails ==
    /\ cancel.job # 0 /\ errors < MaxErrors
    /\ cancel' = NoCancel /\ errors' = errors + 1
    /\ UNCHANGED <<status, scans, current, timer, live, polls, panel, history>>

-----------------------------------------------------------------------------

Next ==
    \/ \E i \in Jobs : Click(i) \/ Refused(i) \/ Started(i) \/ Tick(i) \/ ServerMoves(i)
    \/ \E p \in Slots : ServerAnswers(p) \/ Arrive(p)
    \/ ClickCancel \/ ServerCancels \/ CancelAnswered \/ CancelFails

Safe == Init /\ [][Next]_vars
\* Requests are answered, answers are handled, and intervals fire.  The user owes
\* nothing, and what the worker owes is the premise of EndIsShown.
Spec ==
    /\ Safe
    /\ \A i \in Jobs : WF_vars(Tick(i))
    /\ \A p \in Slots : WF_vars(ServerAnswers(p)) /\ WF_vars(Arrive(p))

-----------------------------------------------------------------------------
(* properties *)

Request == [job : 0..MaxScans, by : 0..MaxScans,
            answer : Terminal \cup {"free", "", "running", "error"}]

\* Shape of the state (4, 550-551, 610-792).
TypeOk ==
    /\ status \in [Jobs -> Terminal \cup {"none", "running"}]
    /\ scans \in [Jobs -> {"idle", "posting", "refused", "polling", "done"}]
    /\ current \in 0..MaxScans /\ timer \in 0..MaxScans /\ live \subseteq Jobs
    /\ polls \in [Slots -> Request]
    /\ cancel \in [job : 0..MaxScans, answered : BOOLEAN]
    /\ panel \in [job : 0..MaxScans, shows : Terminal \cup
                     {"nothing", "starting", "running", "error"}]
    /\ errors \in 0..MaxErrors
    /\ ended \subseteq Jobs /\ disturbed \in BOOLEAN /\ overlapped \in BOOLEAN

\* While calls of scan() do not overlap, every interval that still fires is the
\* one the program remembers and can clear (780-786), whatever answers come when.
OneTimer == ~overlapped => live \subseteq {timer}

Superseded(i) == \E k \in (i + 1)..MaxScans : scans[k] \in {"polling", "done"}

\* The job of the last scan is current until its end is shown, and after the
\* first poll an interval asks for it, unless a later poll failed, an older job's
\* end was shown, which takes the newer job with it (631-666), or calls
\* overlapped.  The first poll may fail: the interval is set all the same.
Watched ==
    ~disturbed /\ ~overlapped =>
        \A i \in Jobs :
            scans[i] \in {"polling", "done"} /\ ~Superseded(i) /\ i \notin ended =>
                current = i /\ (scans[i] = "done" => timer = i /\ timer \in live)

\* Every job whose scan() has posted and that is over for good at some time (what
\* ScanQueue's CancelSettles and EverySubmissionEnds promise) comes to an end on
\* the screen, with the same exceptions, in whatever order answers come (610-668,
\* 782-786).
EndIsShown ==
    \A i \in Jobs :
        <>[](status[i] \in Terminal) =>
            (scans[i] = "polling" ~>
                i \in ended \/ disturbed \/ overlapped \/ Superseded(i))

-----------------------------------------------------------------------------
(* The inductive invariant behind the safety properties *)

\* A request with a status is about a job; the first poll of a scan is under way
\* at most once, and only while scan() waits for it.
Requests ==
    /\ \A p \in Slots : polls[p].answer \in Terminal \cup {"running"} => polls[p].job # 0
    /\ \A p \in Slots : polls[p].by # 0 => scans[polls[p].by] = "polling"
    /\ \A p, q \in Slots : polls[p].by # 0 /\ polls[p].by = polls[q].by => p = q

\* Jobs that were started, are current or were asked about exist on the server.
Existing ==
    /\ \A i \in Jobs : scans[i] \in {"polling", "done"} => status[i] # "none"
    /\ current # 0 => status[current] # "none"
    /\ \A p \in Slots : polls[p].job # 0 => status[polls[p].job] # "none"

\* Scans begin in the order of their numbers; one that overlaps no other is the
\* last that has begun, and no interval fires while it waits for its first poll.
InOrder ==
    /\ \A i, k \in Jobs : i < k /\ scans[i] = "idle" => scans[k] = "idle"
    /\ ~overlapped => \A i, k \in Jobs : InScan(i) /\ i < k => scans[k] = "idle"
    /\ ~overlapped => \A i \in Jobs : scans[i] = "polling" => live = {}

IInv == TypeOk /\ Requests /\ Existing /\ InOrder /\ OneTimer /\ Watched
=============================================================================
