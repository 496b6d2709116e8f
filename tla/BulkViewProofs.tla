--------------------------- MODULE BulkViewProofs ---------------------------
(***************************************************************************)
(* Proofs about BulkView, for any number of targets, starts, requests      *)
(* under way and errors: what the dashboard shows when it has come to      *)
(* rest.  The invariant is IInv of BulkView.                               *)
(***************************************************************************)
EXTENDS BulkView, TLAPS

JobStates == [began : BOOLEAN, ended : BOOLEAN, excused : BOOLEAN, listed : 0..N]

\* A request is put into a free slot.
NewRequest(p, j, by) ==
    /\ polls[p] = Free /\ polls' \in [Slots -> Requests]
    /\ polls'[p].job = j /\ polls'[p].by = by
    /\ polls'[p].asks = "status" /\ polls'[p].answer = ""
    /\ \A q \in Slots \ {p} : polls'[q] = polls[q]

\* What Send puts into the slot it takes.
LEMMA Sent ==
  ASSUME TypeOk, NEW j \in Jobs, NEW by \in 0..MaxStarts, Send(j, by)
  PROVE  \E p \in Slots : NewRequest(p, j, by)
<1>1. PICK p \in Slots :
         /\ polls[p] = Free
         /\ polls' = [polls EXCEPT ![p] = [Free EXCEPT !.job = j, !.by = by, !.asks = "status"]]
  BY DEF Send
<1>. DEFINE free == Free
            new == [free EXCEPT !.job = j, !.by = by, !.asks = "status"]
<1>2. free \in Requests /\ free.answer = ""
  BY BoundsAssumption DEF Free, Requests
<1>. HIDE DEF free
<1>3. new \in Requests /\ new.job = j /\ new.by = by /\ new.asks = "status" /\ new.answer = ""
  <2>1. j \in 0..MaxStarts
    BY BoundsAssumption DEF Jobs
  <2>2. new \in Requests
    BY <1>2, <2>1 DEF Requests
  <2>. QED
    BY <1>2, <2>1 DEF Requests
<1>4. polls' = [polls EXCEPT ![p] = new]
  BY <1>1 DEF free
<1>. HIDE DEF new
<1>5. /\ polls' \in [Slots -> Requests] /\ polls'[p] = new
      /\ \A q \in Slots \ {p} : polls'[q] = polls[q]
  BY <1>3, <1>4 DEF TypeOk
<1>. QED
  BY <1>1, <1>3, <1>5 DEF NewRequest

\* The end of a call of pollBulkStatus().
LEMMA Returned ==
  ASSUME TypeOk, NEW p \in Slots, NEW left, NEW tm, Return(p, left, tm)
  PROVE  /\ polls' \in [Slots -> Requests]
         /\ polls'[p] = Free /\ \A q \in Slots \ {p} : polls'[q] = polls[q]
         /\ polls[p].by = 0 => timer' = tm /\ live' = left /\ starts' = starts
         /\ polls[p].by # 0 =>
               /\ polls[p].by \in Jobs /\ timer' = polls[p].by /\ live' = left \cup {polls[p].by}
               /\ starts' \in [Jobs -> Statuses] /\ starts'[polls[p].by] = "done"
               /\ \A k \in Jobs \ {polls[p].by} : starts'[k] = starts[k]
<1>1. polls' = [polls EXCEPT ![p] = Free]
  BY DEF Return
<1>2. Free \in Requests
  BY BoundsAssumption DEF Free, Requests
<1>3. /\ polls' \in [Slots -> Requests]
      /\ polls'[p] = Free /\ \A q \in Slots \ {p} : polls'[q] = polls[q]
  BY <1>1, <1>2 DEF TypeOk
<1>4. polls[p].by \in 0..MaxStarts
  BY DEF TypeOk, Requests
<1>. QED
  BY <1>3, <1>4, BoundsAssumption DEF Return, TypeOk, Statuses, Jobs

\* A job that has begun and ended stays so, and stays excused.
LEMMA JobSteps ==
  ASSUME NEW j \in Jobs, NEW s \in JobStates
  PROVE  /\ \A k \in Job(j)!Begin(s) :
                k \in JobStates /\ k.began /\ ~k.ended /\ k.excused = s.excused
         /\ \A k \in Job(j)!Excuse(s) : k \in JobStates /\ k.excused /\ k.began = s.began
                                      /\ k.ended = s.ended /\ k.listed = s.listed
         /\ \A k \in Job(j)!List(s) : k \in JobStates /\ k.began = s.began /\ k.ended = s.ended
                                    /\ k.excused = s.excused /\ (s.ended => s.excused)
         /\ \A k \in Job(j)!End(s) : k \in JobStates /\ k.ended /\ k.began = s.began
                                   /\ k.excused = s.excused /\ (s.excused \/ k.listed = N)
<1>1. \A k \in Job(j)!Begin(s) : k \in JobStates /\ k.began /\ ~k.ended /\ k.excused = s.excused
  BY DEF Job!Begin, JobStates
<1>2. \A k \in Job(j)!Excuse(s) : k \in JobStates /\ k.excused /\ k.began = s.began
                               /\ k.ended = s.ended /\ k.listed = s.listed
  BY DEF Job!Excuse, JobStates
<1>3. \A k \in Job(j)!List(s) : k \in JobStates /\ k.began = s.began /\ k.ended = s.ended
                             /\ k.excused = s.excused /\ (s.ended => s.excused)
  BY BoundsAssumption DEF Job!List, JobStates
<1>4. \A k \in Job(j)!End(s) : k \in JobStates /\ k.ended /\ k.began = s.began
                            /\ k.excused = s.excused /\ (s.excused \/ k.listed = N)
  BY DEF Job!End, JobStates
<1>. QED
  BY <1>1, <1>2, <1>3, <1>4

\* The page as it is loaded.
LEMMA InvInit == Init => IInv
<1>. SUFFICES ASSUME Init PROVE IInv
  OBVIOUS
<1>1. TypeOk
  <2>1. /\ [began |-> FALSE, ended |-> FALSE, excused |-> FALSE, listed |-> 0]
              \in [began : BOOLEAN, ended : BOOLEAN, excused : BOOLEAN, listed : 0..N]
        /\ Free \in Requests
        /\ NoCancel \in [job : 0..MaxStarts, at : {"none", "sent", "answered"}]
        /\ NoReport \in [job : 0..MaxStarts, listed : 0..N]
        /\ 0 \in 0..MaxStarts /\ 0 \in 0..MaxErrors
    BY BoundsAssumption DEF Requests, Free, NoCancel, NoReport
  <2>2. server \in [Jobs -> [began : BOOLEAN, ended : BOOLEAN, excused : BOOLEAN, listed : 0..N]]
    BY <2>1 DEF Init, Job!Queued
  <2>. QED
    BY <2>1, <2>2 DEF Init, TypeOk, Statuses
<1>2. InOrder
  BY DEF Init, InOrder, Exists
<1>3. CancelRight /\ Asked
  BY DEF Init, CancelRight, Asked, Free, NoCancel
<1>4. JobsRight /\ AnswersRight /\ ReportRight
  BY DEF Init, JobsRight, AnswersRight, ReportRight, Exists, NoReport
<1>5. Watched
  BY DEF Init, Watched
<1>. QED
  BY <1>1, <1>2, <1>3, <1>4, <1>5 DEF IInv

\* The types of what the actions read, one record at a time.
LEMMA Typed ==
  ASSUME IInv
  PROVE  /\ \A p \in Slots : polls[p] \in Requests
         /\ \A p \in Slots : polls[p] # Free => polls[p].job \in Jobs
         /\ \A i \in Jobs : server[i] \in JobStates
         /\ cancel.at = "sent" => cancel.job \in Jobs
         /\ cancel # NoCancel => current \in Jobs
<1>1. TypeOk /\ CancelRight /\ Asked
  BY DEF IInv
<1>2. \A p \in Slots : polls[p] \in Requests
  BY <1>1 DEF TypeOk
<1>3. ASSUME NEW p \in Slots, polls[p] # Free PROVE polls[p].job \in Jobs
  <2>1. polls[p].job \in 0..MaxStarts
    BY <1>2 DEF Requests
  <2>2. polls[p].job # 0
    BY <1>1, <1>3 DEF Asked, AskedRight
  <2>. QED
    BY <2>1, <2>2, BoundsAssumption DEF Jobs
<1>4. \A i \in Jobs : server[i] \in JobStates
  BY <1>1 DEF TypeOk, JobStates
<1>5. ASSUME cancel.at = "sent" PROVE cancel.job \in Jobs
  <2>1. cancel # NoCancel
    BY <1>5 DEF NoCancel
  <2>2. cancel.job # 0 /\ cancel.job \in 0..MaxStarts
    BY <1>1, <1>5, <2>1 DEF CancelRight, TypeOk
  <2>. QED
    BY <2>2, BoundsAssumption DEF Jobs
<1>6. cancel # NoCancel => current \in Jobs
  BY <1>1, BoundsAssumption DEF CancelRight, TypeOk, Jobs
<1>. QED
  BY <1>2, <1>3, <1>4, <1>5, <1>6

\* A call of pollBulkStatus() returns, the first one of a start to startBulkScan().
CallReturns(p) ==
    /\ UNCHANGED <<server, current, cancel>>
    /\ polls' \in [Slots -> Requests]
    /\ polls[p] # Free /\ polls'[p] = Free /\ \A q \in Slots \ {p} : polls'[q] = polls[q]
    /\ polls[p].by = 0 => starts' = starts
    /\ polls[p].by # 0 =>
          /\ current = polls[p].by /\ current \in Jobs /\ starts[current] = "polling"
          /\ timer' = current /\ current \in live'
          /\ starts' \in [Jobs -> Statuses] /\ starts'[current] = "done"
          /\ \A k \in Jobs \ {current} : starts'[k] = starts[k]

\* The four answers after which a call is over.
LEMMA Returning ==
  ASSUME IInv, NEW p \in Slots,
         StatusRunning(p) \/ StatusFails(p) \/ ResultsLoaded(p) \/ ResultsFail(p)
  PROVE  CallReturns(p)
<1>1. polls[p] # Free /\ UNCHANGED <<server, current, cancel>>
  <2>1. Free.answer = ""
    BY DEF Free
  <2>. QED
    BY <2>1 DEF StatusRunning, StatusFails, ResultsLoaded, ResultsFail
<1>2. TypeOk /\ Asked /\ InOrder
  BY DEF IInv
<1>3. PICK left, tm : Return(p, left, tm)
  BY DEF StatusRunning, StatusFails, ResultsLoaded, ResultsFail
<1>4. CASE polls[p].by = 0
  BY <1>1, <1>2, <1>3, <1>4, Returned DEF CallReturns
<1>5. CASE polls[p].by # 0
  <2>1. polls[p].by \in Jobs /\ starts[polls[p].by] = "polling"
    BY <1>1, <1>2, <1>3, <1>5, Returned DEF Asked, AskedRight
  <2>2. current = polls[p].by
    BY <1>2, <2>1 DEF InOrder
  <2>. QED
    BY <1>1, <1>2, <1>3, <1>5, <2>1, <2>2, Returned DEF CallReturns
<1>. QED
  BY <1>4, <1>5

\* The three places that send a status request.
LEMMA Sending ==
  ASSUME IInv
  PROVE  /\ \A i \in Jobs : Started(i) => \E p \in Slots : NewRequest(p, i, i)
         /\ \A i \in Jobs : Tick(i) => \E p \in Slots : NewRequest(p, current, 0)
         /\ CancelAnswered => \E p \in Slots : NewRequest(p, current, 0)
<1>1. TypeOk
  BY DEF IInv
<1>2. 0 \in 0..MaxStarts /\ \A i \in Jobs : i \in 0..MaxStarts
  BY BoundsAssumption DEF Jobs
<1>3. ASSUME NEW i \in Jobs, Started(i) PROVE \E p \in Slots : NewRequest(p, i, i)
  BY <1>1, <1>2, <1>3, Sent DEF Started
<1>4. ASSUME NEW i \in Jobs, Tick(i) PROVE \E p \in Slots : NewRequest(p, current, 0)
  <2>1. current \in Jobs /\ Send(current, 0)
    BY <1>1, <1>4, BoundsAssumption DEF Tick, TypeOk, Jobs
  <2>. QED
    BY <1>1, <1>2, <2>1, Sent
<1>5. ASSUME CancelAnswered PROVE \E p \in Slots : NewRequest(p, current, 0)
  <2>1. cancel # NoCancel /\ Send(current, 0)
    BY <1>5 DEF CancelAnswered, NoCancel
  <2>. QED
    BY <1>1, <1>2, <2>1, Typed, Sent
<1>. QED
  BY <1>3, <1>4, <1>5

\* The jobs keep their type.
LEMMA ServerTypes == IInv /\ [Next]_vars => (server' \in [Jobs -> JobStates])
<1>. SUFFICES ASSUME IInv, [Next]_vars PROVE (server' \in [Jobs -> JobStates])
  OBVIOUS
<1>0. /\ TypeOk /\ InOrder /\ CancelRight /\ Asked
      /\ JobsRight /\ AnswersRight /\ ReportRight /\ Watched
  BY DEF IInv
<1>1. ASSUME NEW i \in Jobs, Started(i) PROVE (server' \in [Jobs -> JobStates])
  <2>1. PICK k \in Job(i)!Begin(server[i]) : server' = [server EXCEPT ![i] = k]
    BY <1>1 DEF Started
  <2>2. k \in JobStates
    BY Typed, JobSteps
  <2>. QED
    BY <1>0, <2>1, <2>2 DEF TypeOk, JobStates
<1>2. ASSUME NEW i \in Jobs, ServerWorks(i) PROVE (server' \in [Jobs -> JobStates])
  <2>1. PICK k \in Job(i)!List(server[i]) \cup Job(i)!End(server[i]) :
           server' = [server EXCEPT ![i] = k]
    BY <1>2 DEF ServerWorks
  <2>2. k \in JobStates
    BY <2>1, Typed, JobSteps
  <2>. QED
    BY <1>0, <2>1, <2>2 DEF TypeOk, JobStates
<1>3. ASSUME NEW i \in Jobs, ServerFails(i) PROVE (server' \in [Jobs -> JobStates])
  <2>1. PICK k \in Job(i)!Excuse(server[i]) : server' = [server EXCEPT ![i] = k]
    BY <1>3 DEF ServerFails
  <2>2. k \in JobStates
    BY Typed, JobSteps
  <2>. QED
    BY <1>0, <2>1, <2>2 DEF TypeOk, JobStates
<1>4. CASE ServerCancels
  <2>. DEFINE j == cancel.job
  <2>0. j \in Jobs
    BY <1>4, Typed DEF ServerCancels
  <2>1. PICK k \in Job(j)!Excuse(server[j]) :
           server' = [server EXCEPT ![j] = [k EXCEPT !.ended = TRUE]]
    BY <1>4 DEF ServerCancels
  <2>2. k \in JobStates
    <3>. HIDE DEF j
    <3>. QED
      BY <2>0, Typed, JobSteps
  <2>3. [k EXCEPT !.ended = TRUE] \in JobStates
    BY <2>2 DEF JobStates
  <2>. QED
    BY <1>0, <2>1, <2>3 DEF TypeOk, JobStates
<1>5. CASE UNCHANGED server
  BY <1>0, <1>5 DEF TypeOk, JobStates
<1>. QED
  BY <1>1, <1>2, <1>3, <1>4, <1>5 DEF Next, Arrive, Click, Refused, Tick, ServerAnswers,
     StatusRunning, StatusFails, StatusEnded, ResultsLoaded, ResultsFail, SetFilter,
     ClickCancel, CancelAnswered, CancelFails, vars, timers, shown

\* The starts keep their type.
LEMMA StartsTypes == IInv /\ [Next]_vars => (starts' \in [Jobs -> Statuses])
<1>. SUFFICES ASSUME IInv, [Next]_vars PROVE (starts' \in [Jobs -> Statuses])
  OBVIOUS
<1>0. /\ TypeOk /\ InOrder /\ CancelRight /\ Asked
      /\ JobsRight /\ AnswersRight /\ ReportRight /\ Watched
  BY DEF IInv
<1>1. ASSUME NEW i \in Jobs, Click(i) PROVE (starts' \in [Jobs -> Statuses])
  BY <1>0, <1>1 DEF TypeOk, Statuses, CallReturns, Click
<1>2. ASSUME NEW i \in Jobs, Refused(i) PROVE (starts' \in [Jobs -> Statuses])
  BY <1>0, <1>2 DEF TypeOk, Statuses, CallReturns, Refused
<1>3. ASSUME NEW i \in Jobs, Started(i) PROVE (starts' \in [Jobs -> Statuses])
  BY <1>0, <1>3 DEF TypeOk, Statuses, CallReturns, Started
<1>4. ASSUME NEW p \in Slots, StatusRunning(p) PROVE (starts' \in [Jobs -> Statuses])
  BY <1>0, <1>4, Returning DEF TypeOk, Statuses, CallReturns, StatusRunning
<1>5. ASSUME NEW p \in Slots, StatusFails(p) PROVE (starts' \in [Jobs -> Statuses])
  BY <1>0, <1>5, Returning DEF TypeOk, Statuses, CallReturns, StatusFails
<1>6. ASSUME NEW p \in Slots, ResultsLoaded(p) PROVE (starts' \in [Jobs -> Statuses])
  BY <1>0, <1>6, Returning DEF TypeOk, Statuses, CallReturns, ResultsLoaded
<1>7. ASSUME NEW p \in Slots, ResultsFail(p) PROVE (starts' \in [Jobs -> Statuses])
  BY <1>0, <1>7, Returning DEF TypeOk, Statuses, CallReturns, ResultsFail
<1>8. CASE UNCHANGED starts
  BY <1>0, <1>8 DEF TypeOk
<1>. QED
  BY <1>1, <1>2, <1>3, <1>4, <1>5, <1>6, <1>7, <1>8 DEF Next, Arrive, Tick, ServerWorks,
     ServerFails, ServerAnswers, StatusEnded, SetFilter, ClickCancel, ServerCancels,
     CancelAnswered, CancelFails, vars, timers, shown

\* The requests keep their type.
LEMMA PollsTypes == IInv /\ [Next]_vars => (polls' \in [Slots -> Requests])
<1>. SUFFICES ASSUME IInv, [Next]_vars PROVE (polls' \in [Slots -> Requests])
  OBVIOUS
<1>0. /\ TypeOk /\ InOrder /\ CancelRight /\ Asked
      /\ JobsRight /\ AnswersRight /\ ReportRight /\ Watched
  BY DEF IInv
<1>1. ASSUME NEW i \in Jobs, Started(i) PROVE (polls' \in [Slots -> Requests])
  <2>1. PICK p \in Slots : NewRequest(p, i, i)
    BY <1>1, Sending
  <2>. QED
    BY <2>1 DEF NewRequest
<1>2. ASSUME NEW i \in Jobs, Tick(i) PROVE (polls' \in [Slots -> Requests])
  <2>1. PICK p \in Slots : NewRequest(p, current, 0)
    BY <1>2, Sending
  <2>. QED
    BY <2>1 DEF NewRequest
<1>3. ASSUME NEW p \in Slots, ServerAnswers(p) PROVE (polls' \in [Slots -> Requests])
  <2>. DEFINE k == polls[p]
              job == server[k.job]
  <2>1. k \in Requests /\ k.job \in Jobs /\ job.listed \in 0..N
    BY <1>3, Typed DEF ServerAnswers, JobStates
  <2>2. \A a \in {"ended", "running", "error"} : [k EXCEPT !.answer = a] \in Requests
    BY <2>1 DEF Requests
  <2>3. [k EXCEPT !.answer = "results", !.listed = job.listed] \in Requests
    BY <2>1 DEF Requests
  <2>4. \/ \E a \in {"ended", "running", "error"} :
              polls' = [polls EXCEPT ![p] = [k EXCEPT !.answer = a]]
        \/ polls' = [polls EXCEPT ![p] = [k EXCEPT !.answer = "results", !.listed = job.listed]]
    BY <1>0, <1>3 DEF ServerAnswers, TypeOk, Requests
  <2>. QED
    BY <1>0, <2>2, <2>3, <2>4 DEF TypeOk
<1>4. ASSUME NEW p \in Slots, StatusRunning(p) PROVE (polls' \in [Slots -> Requests])
  BY <1>0, <1>4, Typed, Returning DEF TypeOk, Requests, JobStates, CallReturns,
     StatusRunning
<1>5. ASSUME NEW p \in Slots, StatusFails(p) PROVE (polls' \in [Slots -> Requests])
  BY <1>0, <1>5, Typed, Returning DEF TypeOk, Requests, JobStates, CallReturns,
     StatusFails
<1>6. ASSUME NEW p \in Slots, StatusEnded(p) PROVE (polls' \in [Slots -> Requests])
  <2>. DEFINE k == [polls[p] EXCEPT !.asks = "results", !.answer = ""]
  <2>1. k \in Requests
    BY Typed DEF Requests
  <2>2. polls' = [polls EXCEPT ![p] = k]
    BY <1>0, <1>6 DEF StatusEnded, TypeOk, Requests
  <2>. QED
    BY <1>0, <2>1, <2>2 DEF TypeOk
<1>7. ASSUME NEW p \in Slots, ResultsLoaded(p) PROVE (polls' \in [Slots -> Requests])
  BY <1>0, <1>7, Typed, Returning DEF TypeOk, Requests, JobStates, CallReturns,
     ResultsLoaded
<1>8. ASSUME NEW p \in Slots, ResultsFail(p) PROVE (polls' \in [Slots -> Requests])
  BY <1>0, <1>8, Typed, Returning DEF TypeOk, Requests, JobStates, CallReturns,
     ResultsFail
<1>9. CASE CancelAnswered
  <2>1. PICK p \in Slots : NewRequest(p, current, 0)
    BY <1>9, Sending
  <2>. QED
    BY <2>1 DEF NewRequest
<1>10. CASE UNCHANGED polls
  BY <1>0, <1>10 DEF TypeOk
<1>. QED
  BY <1>1, <1>2, <1>3, <1>4, <1>5, <1>6, <1>7, <1>8, <1>9, <1>10 DEF Next, Arrive,
     Click, Refused, ServerWorks, ServerFails, SetFilter, ClickCancel, ServerCancels,
     CancelFails, vars, timers, shown

\* The values of all variables keep their types.
LEMMA TypeStep == IInv /\ [Next]_vars => TypeOk'
<1>. SUFFICES ASSUME IInv, [Next]_vars PROVE TypeOk'
  OBVIOUS
<1>0. TypeOk
  BY DEF IInv
<1>1. 0 \in 0..MaxStarts /\ Jobs \subseteq 0..MaxStarts
  BY BoundsAssumption DEF Jobs
<1>2. current' \in 0..MaxStarts
  BY <1>0, <1>1 DEF TypeOk, Next, vars, Click, Refused, Started, Tick, ServerWorks,
     ServerFails,
     ServerAnswers, Arrive, StatusRunning, StatusFails, StatusEnded, ResultsLoaded, ResultsFail,
     SetFilter, ClickCancel, ServerCancels, CancelAnswered, CancelFails, timers
<1>3. timer' \in 0..MaxStarts /\ live' \subseteq Jobs
  <2>1. CASE \E p \in Slots : StatusRunning(p) \/ StatusFails(p) \/ ResultsLoaded(p) \/ ResultsFail(p)
    <3>1. PICK p \in Slots : StatusRunning(p) \/ StatusFails(p) \/ ResultsLoaded(p) \/ ResultsFail(p)
      BY <2>1
    <3>2. PICK left \in SUBSET live, tm \in {0, timer} : Return(p, left, tm)
      BY <3>1 DEF StatusRunning, StatusFails, ResultsLoaded, ResultsFail
    <3>3. /\ polls[p].by = 0 => timer' = tm /\ live' = left
          /\ polls[p].by # 0 => /\ polls[p].by \in Jobs /\ timer' = polls[p].by
                                /\ live' = left \cup {polls[p].by}
      BY <1>0, <3>2, Returned
    <3>4. live \subseteq Jobs /\ timer \in 0..MaxStarts
      BY <1>0 DEF TypeOk
    <3>. QED
      BY <1>1, <3>2, <3>3, <3>4
  <2>2. CASE \E p \in Slots : StatusEnded(p)
    BY <1>0, <1>1, <2>2 DEF TypeOk, StatusEnded
  <2>3. CASE \E i \in Jobs : Started(i)
    BY <1>0, <2>3 DEF TypeOk, Started
  <2>4. CASE UNCHANGED <<timer, live>>
    BY <1>0, <2>4 DEF TypeOk
  <2>5. \A i \in Jobs : Click(i) \/ Refused(i) \/ Tick(i) \/ ServerWorks(i) \/ ServerFails(i)
                         => UNCHANGED <<timer, live>>
    BY DEF Click, Refused, Tick, ServerWorks, ServerFails, timers
  <2>6. \A p \in Slots : ServerAnswers(p) => UNCHANGED <<timer, live>>
    BY DEF ServerAnswers, timers
  <2>7. SetFilter \/ ClickCancel \/ ServerCancels \/ CancelAnswered \/ CancelFails
           \/ UNCHANGED vars => UNCHANGED <<timer, live>>
    BY DEF SetFilter, ClickCancel, ServerCancels, CancelAnswered, CancelFails, vars, timers
  <2>. QED
    BY <2>1, <2>2, <2>3, <2>4, <2>5, <2>6, <2>7 DEF Next, Arrive
<1>4. cancel' \in [job : 0..MaxStarts, at : {"none", "sent", "answered"}]
  <2>1. \A j \in 0..MaxStarts, a \in {"none", "sent", "answered"} :
           [job |-> j, at |-> a] \in [job : 0..MaxStarts, at : {"none", "sent", "answered"}]
    OBVIOUS
  <2>2. \/ UNCHANGED cancel
        \/ \E j \in {0, current}, a \in {"none", "sent", "answered"} : cancel' = [job |-> j, at |-> a]
    BY DEF Next, vars, Click, Refused, Started, Tick, ServerWorks, ServerFails,
       ServerAnswers,
       Arrive, StatusRunning, StatusFails, StatusEnded, ResultsLoaded, ResultsFail, SetFilter,
       ClickCancel, ServerCancels, CancelAnswered, CancelFails, NoCancel
  <2>. QED
    BY <1>0, <1>1, <2>1, <2>2 DEF TypeOk
<1>5. lastReport' \in [job : 0..MaxStarts, listed : 0..N]
  <2>1. ASSUME NEW p \in Slots, ResultsLoaded(p)
        PROVE  lastReport' \in [job : 0..MaxStarts, listed : 0..N]
    <3>1. polls[p].job \in 0..MaxStarts /\ polls[p].listed \in 0..N
      BY <1>0 DEF TypeOk, Requests
    <3>. QED
      BY <2>1, <3>1 DEF ResultsLoaded
  <2>2. CASE UNCHANGED lastReport
    BY <1>0, <2>2 DEF TypeOk
  <2>. QED
    BY <2>1, <2>2 DEF Next, vars, Click, Refused, Started, Tick, ServerWorks, ServerFails,
       ServerAnswers,
       Arrive, StatusRunning, StatusFails, StatusEnded, ResultsFail, SetFilter,
       ClickCancel, ServerCancels, CancelAnswered, CancelFails, shown
<1>6. errors' \in 0..MaxErrors
  <2>1. UNCHANGED errors \/ (errors < MaxErrors /\ errors' = errors + 1)
    BY DEF Next, vars, Click, Refused, Started, Tick, ServerWorks, ServerFails,
       ServerAnswers,
       Arrive, StatusRunning, StatusFails, StatusEnded, ResultsLoaded, ResultsFail, SetFilter,
       ClickCancel, ServerCancels, CancelAnswered, CancelFails
  <2>. QED
    BY <1>0, <2>1, BoundsAssumption DEF TypeOk
<1>7. panel' \in {"message", "running", "report"} /\ disturbed' \in BOOLEAN
  BY <1>0 DEF TypeOk, Next, vars, Click, Refused, Started, Tick, ServerWorks, ServerFails,
     ServerAnswers, Arrive, StatusRunning, StatusFails, StatusEnded, ResultsLoaded, ResultsFail,
     SetFilter, ClickCancel, ServerCancels, CancelAnswered, CancelFails, shown
<1>. QED
  BY <1>2, <1>3, <1>4, <1>5, <1>6, <1>7, ServerTypes, StartsTypes, PollsTypes DEF TypeOk,
     JobStates

\* Starts come one after the other.
LEMMA OrderStep == IInv /\ [Next]_vars => InOrder'
<1>. SUFFICES ASSUME IInv, [Next]_vars PROVE InOrder'
  OBVIOUS
<1>0. /\ TypeOk /\ InOrder /\ CancelRight /\ Asked
      /\ JobsRight /\ AnswersRight /\ ReportRight /\ Watched
  BY DEF IInv
<1>1. ASSUME NEW i \in Jobs, Click(i) PROVE InOrder'
  <2>1. /\ starts[i] \in {"idle", "posting"} /\ starts'[i] = "posting" /\ UNCHANGED current
        /\ \A k \in Jobs \ {i} : starts'[k] = starts[k]
    BY <1>0, <1>1 DEF TypeOk, Click, timers
  <2>2. \A k \in Jobs : k < i => starts[k] \in {"done", "refused"}
    BY <1>0, <1>1 DEF InOrder, Click, Jobs
  <2>3. \A k \in Jobs : k > i => starts[k] = "idle"
    BY <1>0, <2>1 DEF InOrder, Jobs
  <2>4. current # 0 => current \in Jobs \ {i}
    BY <1>0, <2>1, BoundsAssumption DEF InOrder, Exists, TypeOk, Jobs
  <2>. QED
    BY <1>0, <2>1, <2>2, <2>3, <2>4, BoundsAssumption DEF InOrder, Exists, Jobs
<1>2. ASSUME NEW i \in Jobs, Refused(i) PROVE InOrder'
  <2>1. /\ starts[i] \in {"idle", "posting"} /\ starts'[i] = "refused" /\ UNCHANGED current
        /\ \A k \in Jobs \ {i} : starts'[k] = starts[k]
    BY <1>0, <1>2 DEF TypeOk, Refused, timers
  <2>2. \A k \in Jobs : k < i => starts[k] \in {"done", "refused"}
    BY <1>0, <1>2 DEF InOrder, Refused, Jobs
  <2>3. \A k \in Jobs : k > i => starts[k] = "idle"
    BY <1>0, <2>1 DEF InOrder, Jobs
  <2>4. current # 0 => current \in Jobs \ {i}
    BY <1>0, <2>1, BoundsAssumption DEF InOrder, Exists, TypeOk, Jobs
  <2>. QED
    BY <1>0, <2>1, <2>2, <2>3, <2>4, BoundsAssumption DEF InOrder, Exists, Jobs
<1>3. ASSUME NEW i \in Jobs, Started(i) PROVE InOrder'
  <2>1. /\ starts[i] \in {"idle", "posting"} /\ starts'[i] = "polling" /\ current' = i
        /\ \A k \in Jobs \ {i} : starts'[k] = starts[k]
    BY <1>0, <1>3 DEF TypeOk, Started, timers
  <2>2. \A k \in Jobs : k < i => starts[k] \in {"done", "refused"}
    BY <1>0, <1>3 DEF InOrder, Started, Jobs
  <2>3. \A k \in Jobs : k > i => starts[k] = "idle"
    BY <1>0, <2>1 DEF InOrder, Jobs
  <2>4. \A k \in Jobs : k # i => starts[k] # "polling" /\ (Exists(k) => k \leq i)
    BY <2>2, <2>3 DEF Exists, Jobs
  <2>. QED
    BY <1>0, <2>1, <2>2, <2>3, <2>4, BoundsAssumption, BoundsAssumption DEF InOrder,
       Exists, Jobs
<1>4. ASSUME NEW p \in Slots, StatusRunning(p) PROVE InOrder'
  <2>1. CallReturns(p)
    BY <1>4, Returning
  <2>2. CASE polls[p].by = 0
    BY <1>0, <2>1, <2>2 DEF CallReturns, InOrder, Exists
  <2>3. CASE polls[p].by # 0
    BY <1>0, <2>1, <2>3, BoundsAssumption DEF CallReturns, InOrder, Exists, Jobs
  <2>. QED
    BY <2>2, <2>3
<1>5. ASSUME NEW p \in Slots, StatusFails(p) PROVE InOrder'
  <2>1. CallReturns(p)
    BY <1>5, Returning
  <2>2. CASE polls[p].by = 0
    BY <1>0, <2>1, <2>2 DEF CallReturns, InOrder, Exists
  <2>3. CASE polls[p].by # 0
    BY <1>0, <2>1, <2>3, BoundsAssumption DEF CallReturns, InOrder, Exists, Jobs
  <2>. QED
    BY <2>2, <2>3
<1>6. ASSUME NEW p \in Slots, ResultsLoaded(p) PROVE InOrder'
  <2>1. CallReturns(p)
    BY <1>6, Returning
  <2>2. CASE polls[p].by = 0
    BY <1>0, <2>1, <2>2 DEF CallReturns, InOrder, Exists
  <2>3. CASE polls[p].by # 0
    BY <1>0, <2>1, <2>3, BoundsAssumption DEF CallReturns, InOrder, Exists, Jobs
  <2>. QED
    BY <2>2, <2>3
<1>7. ASSUME NEW p \in Slots, ResultsFail(p) PROVE InOrder'
  <2>1. CallReturns(p)
    BY <1>7, Returning
  <2>2. CASE polls[p].by = 0
    BY <1>0, <2>1, <2>2 DEF CallReturns, InOrder, Exists
  <2>3. CASE polls[p].by # 0
    BY <1>0, <2>1, <2>3, BoundsAssumption DEF CallReturns, InOrder, Exists, Jobs
  <2>. QED
    BY <2>2, <2>3
<1>8. CASE UNCHANGED <<starts, current>>
  BY <1>0, <1>8 DEF InOrder, Exists
<1>. QED
  BY <1>1, <1>2, <1>3, <1>4, <1>5, <1>6, <1>7, <1>8 DEF Next, Arrive, Tick, ServerWorks,
     ServerFails, ServerAnswers, StatusEnded, SetFilter, ClickCancel, ServerCancels,
     CancelAnswered, CancelFails, vars, timers, shown

\* What exists keeps existing.
LEMMA ExistsOn ==
  ASSUME IInv, [Next]_vars, NEW j \in Jobs, Exists(j)
  PROVE  Exists(j)'
<1>0. TypeOk
  BY DEF IInv
<1>1. ASSUME NEW i \in Jobs, Click(i) \/ Refused(i) \/ Started(i) PROVE Exists(j)'
  <2>1. starts[i] \in {"idle", "posting"} /\ starts[j] \in {"polling", "done"} /\ i # j
    BY <1>1 DEF Click, Refused, Started, Exists
  <2>2. starts'[j] = starts[j]
    BY <1>0, <1>1, <2>1 DEF TypeOk, Click, Refused, Started
  <2>. QED
    BY <2>1, <2>2 DEF Exists
<1>2. ASSUME NEW p \in Slots,
             StatusRunning(p) \/ StatusFails(p) \/ ResultsLoaded(p) \/ ResultsFail(p)
      PROVE  Exists(j)'
  BY <1>2, Returning DEF CallReturns, Exists
<1>3. CASE UNCHANGED starts
  BY <1>3 DEF Exists
<1>. QED
  BY <1>1, <1>2, <1>3 DEF Next, Arrive, Tick, ServerWorks, ServerFails, ServerAnswers,
     StatusEnded,
     SetFilter, ClickCancel, ServerCancels, CancelAnswered, CancelFails, vars

\* What a step does to a job.
JobMoves(j) ==
    \/ (Exists(j)' <=> Exists(j)) /\ server'[j] = server[j]
    \/ /\ Exists(j)' /\ server'[j].began
       /\ server'[j].ended => server'[j].excused \/ server'[j].listed = N
       /\ Exists(j) => /\ server[j].ended => server'[j].ended
                       /\ server[j].excused => server'[j].excused

\* Jobs begin once, and their end is final.
LEMMA JobsMove == IInv /\ [Next]_vars => (\A j \in Jobs : JobMoves(j))
<1>. SUFFICES ASSUME IInv, [Next]_vars PROVE (\A j \in Jobs : JobMoves(j))
  OBVIOUS
<1>0. /\ TypeOk /\ InOrder /\ CancelRight /\ Asked
      /\ JobsRight /\ AnswersRight /\ ReportRight /\ Watched
  BY DEF IInv
<1>1. ASSUME NEW i \in Jobs, Click(i) PROVE (\A j \in Jobs : JobMoves(j))
  <2>0. /\ starts[i] \in {"idle", "posting"} /\ starts'[i] = "posting" /\ server' = server
        /\ \A k \in Jobs \ {i} : starts'[k] = starts[k]
    BY <1>0, <1>1 DEF TypeOk, Click
  <2>. QED
    BY <2>0 DEF JobMoves, Exists
<1>2. ASSUME NEW i \in Jobs, Refused(i) PROVE (\A j \in Jobs : JobMoves(j))
  <2>0. /\ starts[i] \in {"idle", "posting"} /\ starts'[i] = "refused" /\ server' = server
        /\ \A k \in Jobs \ {i} : starts'[k] = starts[k]
    BY <1>0, <1>2 DEF TypeOk, Refused
  <2>. QED
    BY <2>0 DEF JobMoves, Exists
<1>3. ASSUME NEW i \in Jobs, Started(i) PROVE (\A j \in Jobs : JobMoves(j))
  <2>1. PICK k \in Job(i)!Begin(server[i]) : server' = [server EXCEPT ![i] = k]
    BY <1>3 DEF Started
  <2>2. k.began /\ ~k.ended
    BY Typed, JobSteps
  <2>3. /\ starts[i] = "posting" /\ starts'[i] = "polling" /\ server'[i] = k
        /\ \A j \in Jobs \ {i} : starts'[j] = starts[j] /\ server'[j] = server[j]
    BY <1>0, <1>3, <2>1 DEF TypeOk, Started
  <2>. QED
    BY <2>2, <2>3 DEF JobMoves, Exists
<1>4. ASSUME NEW i \in Jobs, ServerWorks(i) PROVE (\A j \in Jobs : JobMoves(j))
  <2>1. PICK k \in Job(i)!List(server[i]) \cup Job(i)!End(server[i]) :
           server' = [server EXCEPT ![i] = k]
    BY <1>4 DEF ServerWorks
  <2>2. /\ k.began = server[i].began /\ (server[i].ended => k.ended)
        /\ k.excused = server[i].excused
        /\ k.ended => k.excused \/ k.listed = N
    BY <2>1, Typed, JobSteps
  <2>3. /\ Exists(i) /\ Exists(i)' /\ server'[i] = k /\ server[i].began
        /\ \A j \in Jobs \ {i} : (Exists(j)' <=> Exists(j)) /\ server'[j] = server[j]
    BY <1>0, <1>4, <2>1 DEF TypeOk, ServerWorks, Exists, JobsRight
  <2>. QED
    BY <2>2, <2>3 DEF JobMoves
<1>5. ASSUME NEW i \in Jobs, ServerFails(i) PROVE (\A j \in Jobs : JobMoves(j))
  <2>1. PICK k \in Job(i)!Excuse(server[i]) : server' = [server EXCEPT ![i] = k]
    BY <1>5 DEF ServerFails
  <2>2. k.excused /\ k.began = server[i].began /\ k.ended = server[i].ended
    BY Typed, JobSteps
  <2>3. /\ Exists(i) /\ Exists(i)' /\ server'[i] = k /\ server[i].began
        /\ \A j \in Jobs \ {i} : (Exists(j)' <=> Exists(j)) /\ server'[j] = server[j]
    BY <1>0, <1>5, <2>1 DEF TypeOk, ServerFails, Exists, JobsRight
  <2>. QED
    BY <2>2, <2>3 DEF JobMoves
<1>6. ASSUME NEW p \in Slots, StatusRunning(p) PROVE (\A j \in Jobs : JobMoves(j))
  BY <1>6, Returning DEF CallReturns, JobMoves, Exists
<1>7. ASSUME NEW p \in Slots, StatusFails(p) PROVE (\A j \in Jobs : JobMoves(j))
  BY <1>7, Returning DEF CallReturns, JobMoves, Exists
<1>8. ASSUME NEW p \in Slots, ResultsLoaded(p) PROVE (\A j \in Jobs : JobMoves(j))
  BY <1>8, Returning DEF CallReturns, JobMoves, Exists
<1>9. ASSUME NEW p \in Slots, ResultsFail(p) PROVE (\A j \in Jobs : JobMoves(j))
  BY <1>9, Returning DEF CallReturns, JobMoves, Exists
<1>10. CASE ServerCancels
  <2>0. PICK i \in Jobs : i = cancel.job /\ Exists(i)
    <3>1. cancel.at = "sent" /\ cancel # NoCancel
      BY <1>10 DEF ServerCancels, NoCancel
    <3>. QED
      BY <1>0, <3>1, Typed DEF CancelRight
  <2>1. PICK s \in Job(i)!Excuse(server[i]) :
           server' = [server EXCEPT ![i] = [s EXCEPT !.ended = TRUE]]
    BY <1>10, <2>0 DEF ServerCancels
  <2>. DEFINE k == [s EXCEPT !.ended = TRUE]
  <2>2. /\ s \in JobStates /\ s.excused /\ s.began = server[i].began
    BY Typed, JobSteps
  <2>3. k.ended /\ k.excused /\ k.began = server[i].began
    BY <2>2 DEF JobStates
  <2>4. starts' = starts /\ server[i].began
    BY <1>0, <1>10, <2>0 DEF ServerCancels, JobsRight
  <2>. HIDE DEF k
  <2>5. server' = [server EXCEPT ![i] = k]
    BY <2>1 DEF k
  <2>6. /\ Exists(i)' /\ server'[i] = k
        /\ \A j \in Jobs \ {i} : (Exists(j)' <=> Exists(j)) /\ server'[j] = server[j]
    BY <1>0, <2>0, <2>4, <2>5 DEF TypeOk, Exists
  <2>. QED
    BY <2>0, <2>3, <2>4, <2>6 DEF JobMoves
<1>11. CASE UNCHANGED <<server, starts>>
  BY <1>0, <1>11 DEF JobMoves, Exists
<1>. QED
  BY <1>1, <1>2, <1>3, <1>4, <1>5, <1>6, <1>7, <1>8, <1>9, <1>10, <1>11 DEF Next,
     Arrive, Tick, ServerAnswers, StatusEnded, SetFilter, ClickCancel, CancelAnswered,
     CancelFails, vars, timers, shown

\* A job that exists has begun, and one that ended lists all or is excused.
LEMMA JobsRightStep == IInv /\ [Next]_vars => JobsRight'
<1>. SUFFICES ASSUME IInv, [Next]_vars, NEW j \in Jobs, JobMoves(j)
              PROVE  IF Exists(j)'
                     THEN /\ server'[j].began
                          /\ server'[j].ended => server'[j].excused \/ server'[j].listed = N
                     ELSE server'[j] = Job(j)!Queued'
  BY JobsMove DEF JobsRight, Complete
<1>1. JobsRight
  BY DEF IInv
<1>. QED
  BY <1>1 DEF JobsRight, JobMoves, Complete, Job!Queued

\* The fields of a request whose answer has been filled in.
LEMMA AnswerFields ==
  ASSUME NEW k \in Requests, NEW a, NEW n
  PROVE  /\ [k EXCEPT !.answer = a].job = k.job /\ [k EXCEPT !.answer = a].by = k.by
         /\ [k EXCEPT !.answer = a].asks = k.asks /\ [k EXCEPT !.answer = a].answer = a
         /\ [k EXCEPT !.answer = a, !.listed = n].job = k.job
         /\ [k EXCEPT !.answer = a, !.listed = n].by = k.by
         /\ [k EXCEPT !.answer = a, !.listed = n].asks = k.asks
         /\ [k EXCEPT !.answer = a, !.listed = n].answer = a
         /\ [k EXCEPT !.answer = a, !.listed = n].listed = n
BY DEF Requests

\* What a step does to a request.
PollMoves(q) ==
    \/ polls'[q] = polls[q]
    \/ polls'[q] = Free
    \/ /\ polls[q] = Free /\ polls'[q].asks = "status" /\ polls'[q].answer = ""
       /\ polls'[q].job \in Jobs /\ starts'[polls'[q].job] \in {"polling", "done"}
       /\ polls'[q].by # 0 => starts[polls'[q].by] = "posting" /\ starts'[polls'[q].by] = "polling"
    \/ /\ polls[q] # Free /\ polls'[q].job = polls[q].job /\ polls'[q].by = polls[q].by
       /\ \/ /\ polls'[q].asks = polls[q].asks
             /\ \/ polls'[q].answer = "error"
                \/ polls'[q].answer = "running" /\ polls[q].asks = "status"
                \/ /\ polls'[q].answer = "ended" /\ polls[q].asks = "status"
                   /\ server[polls[q].job].ended
                \/ /\ polls'[q].answer = "results" /\ polls[q].asks = "results"
                   /\ polls'[q].listed = server[polls[q].job].listed
          \/ polls'[q].asks = "results" /\ polls'[q].answer = "" /\ polls[q].answer = "ended"

\* Requests are sent, answered, turned into a request for results, and gone.
LEMMA PollsMove == IInv /\ [Next]_vars => (\A q \in Slots : PollMoves(q))
<1>. SUFFICES ASSUME IInv, [Next]_vars PROVE (\A q \in Slots : PollMoves(q))
  OBVIOUS
<1>0. /\ TypeOk /\ InOrder /\ CancelRight /\ Asked
      /\ JobsRight /\ AnswersRight /\ ReportRight /\ Watched
  BY DEF IInv
<1>1. ASSUME NEW i \in Jobs, Started(i) PROVE (\A q \in Slots : PollMoves(q))
  <2>1. PICK p \in Slots : NewRequest(p, i, i)
    BY <1>1, Sending
  <2>2. i \in Jobs /\ starts[i] = "posting" /\ starts'[i] = "polling"
    BY <1>0, <1>1 DEF Started, TypeOk
  <2>. QED
    BY <2>1, <2>2 DEF NewRequest, PollMoves
<1>2. ASSUME NEW i \in Jobs, Tick(i) PROVE (\A q \in Slots : PollMoves(q))
  <2>1. PICK p \in Slots : NewRequest(p, current, 0)
    BY <1>2, Sending
  <2>2. current \in Jobs /\ starts'[current] \in {"polling", "done"}
    BY <1>0, <1>2, BoundsAssumption DEF Tick, TypeOk, Jobs, InOrder, Exists
  <2>. QED
    BY <2>1, <2>2 DEF NewRequest, PollMoves
<1>3. ASSUME NEW p \in Slots, ServerAnswers(p) PROVE (\A q \in Slots : PollMoves(q))
  <2>1. \A q \in Slots \ {p} : polls'[q] = polls[q]
    BY <1>0, <1>3 DEF ServerAnswers, TypeOk
  <2>2. polls[p] # Free /\ polls[p] \in Requests
    BY <1>3, Typed DEF ServerAnswers
  <2>. DEFINE k == polls[p]
  <2>a. \A x : polls' = [polls EXCEPT ![p] = x] => polls'[p] = x
    BY <1>0 DEF TypeOk
  <2>b. \/ /\ k.asks = "status"
           /\ \E a \in {"ended", "running"} :
                 /\ polls' = [polls EXCEPT ![p] = [k EXCEPT !.answer = a]]
                 /\ a = "ended" => server[k.job].ended
        \/ /\ k.asks = "results"
           /\ polls' = [polls EXCEPT ![p] = [k EXCEPT !.answer = "results",
                                                     !.listed = server[k.job].listed]]
        \/ polls' = [polls EXCEPT ![p] = [k EXCEPT !.answer = "error"]]
    BY <1>0, <1>3 DEF ServerAnswers, TypeOk, Requests
  <2>3. ASSUME NEW a \in {"ended", "running", "error"},
               polls' = [polls EXCEPT ![p] = [k EXCEPT !.answer = a]]
        PROVE  /\ polls'[p].job = k.job /\ polls'[p].by = k.by
               /\ polls'[p].asks = k.asks /\ polls'[p].answer = a
    <3>1. polls'[p] = [k EXCEPT !.answer = a]
      BY <2>3, <2>a
    <3>. QED
      BY <2>2, <3>1, AnswerFields
  <2>4. ASSUME polls' = [polls EXCEPT ![p] = [k EXCEPT !.answer = "results",
                                                     !.listed = server[k.job].listed]]
        PROVE  /\ polls'[p].job = k.job /\ polls'[p].by = k.by
               /\ polls'[p].asks = k.asks /\ polls'[p].answer = "results"
               /\ polls'[p].listed = server[k.job].listed
    <3>1. polls'[p] = [k EXCEPT !.answer = "results", !.listed = server[k.job].listed]
      BY <2>4, <2>a
    <3>. QED
      BY <2>2, <3>1, AnswerFields
  <2>5. PollMoves(p)
    BY <2>2, <2>b, <2>3, <2>4 DEF PollMoves
  <2>. QED
    BY <2>1, <2>5 DEF PollMoves
<1>4. ASSUME NEW p \in Slots, StatusRunning(p) PROVE (\A q \in Slots : PollMoves(q))
  BY <1>4, Returning DEF CallReturns, PollMoves
<1>5. ASSUME NEW p \in Slots, StatusFails(p) PROVE (\A q \in Slots : PollMoves(q))
  BY <1>5, Returning DEF CallReturns, PollMoves
<1>6. ASSUME NEW p \in Slots, StatusEnded(p) PROVE (\A q \in Slots : PollMoves(q))
  <2>0. Free.answer = ""
    BY DEF Free
  <2>1. \A q \in Slots \ {p} : polls'[q] = polls[q]
    BY <1>0, <1>6 DEF StatusEnded, TypeOk
  <2>2. polls[p] # Free /\ polls[p] \in Requests
    BY <1>6, <2>0, Typed DEF StatusEnded
  <2>3. PollMoves(p)
    BY <1>0, <1>6, <2>2 DEF StatusEnded, PollMoves, TypeOk, Requests
  <2>. QED
    BY <2>1, <2>3 DEF PollMoves
<1>7. ASSUME NEW p \in Slots, ResultsLoaded(p) PROVE (\A q \in Slots : PollMoves(q))
  BY <1>7, Returning DEF CallReturns, PollMoves
<1>8. ASSUME NEW p \in Slots, ResultsFail(p) PROVE (\A q \in Slots : PollMoves(q))
  BY <1>8, Returning DEF CallReturns, PollMoves
<1>9. CASE CancelAnswered
  <2>1. PICK p \in Slots : NewRequest(p, current, 0)
    BY <1>9, Sending
  <2>2. current \in Jobs /\ starts'[current] \in {"polling", "done"}
    <3>1. cancel # NoCancel /\ starts' = starts
      BY <1>9 DEF CancelAnswered, NoCancel
    <3>. QED
      BY <1>0, <3>1, Typed, BoundsAssumption DEF InOrder, Exists, Jobs
  <2>. QED
    BY <2>1, <2>2 DEF NewRequest, PollMoves
<1>10. CASE UNCHANGED polls
  BY <1>0, <1>10 DEF PollMoves
<1>. QED
  BY <1>1, <1>2, <1>3, <1>4, <1>5, <1>6, <1>7, <1>8, <1>9, <1>10 DEF Next, Arrive,
     Click, Refused, ServerWorks, ServerFails, SetFilter, ClickCancel, ServerCancels,
     CancelFails, vars, timers, shown

OneSent ==
    \A q, r \in Slots :
        polls[q] = Free /\ polls[r] = Free /\ polls'[q] # Free /\ polls'[r] # Free => q = r

\* A step sends one request at most.
LEMMA OneSentStep == IInv /\ [Next]_vars => OneSent
<1>. SUFFICES ASSUME IInv, [Next]_vars PROVE OneSent
  OBVIOUS
<1>0. /\ TypeOk /\ InOrder /\ CancelRight /\ Asked
      /\ JobsRight /\ AnswersRight /\ ReportRight /\ Watched
  BY DEF IInv
<1>1. ASSUME NEW i \in Jobs, Started(i) PROVE OneSent
  <2>1. PICK p \in Slots : NewRequest(p, i, i)
    BY <1>1, Sending
  <2>. QED
    BY <2>1 DEF NewRequest, OneSent
<1>2. ASSUME NEW i \in Jobs, Tick(i) PROVE OneSent
  <2>1. PICK p \in Slots : NewRequest(p, current, 0)
    BY <1>2, Sending
  <2>. QED
    BY <2>1 DEF NewRequest, OneSent
<1>3. ASSUME NEW p \in Slots, ServerAnswers(p) PROVE OneSent
  BY <1>0, <1>3 DEF ServerAnswers, OneSent, TypeOk
<1>4. ASSUME NEW p \in Slots, StatusRunning(p) PROVE OneSent
  BY <1>4, Returning DEF CallReturns, OneSent
<1>5. ASSUME NEW p \in Slots, StatusFails(p) PROVE OneSent
  BY <1>5, Returning DEF CallReturns, OneSent
<1>6. ASSUME NEW p \in Slots, StatusEnded(p) PROVE OneSent
  BY <1>0, <1>6 DEF StatusEnded, OneSent, TypeOk
<1>7. ASSUME NEW p \in Slots, ResultsLoaded(p) PROVE OneSent
  BY <1>7, Returning DEF CallReturns, OneSent
<1>8. ASSUME NEW p \in Slots, ResultsFail(p) PROVE OneSent
  BY <1>8, Returning DEF CallReturns, OneSent
<1>9. CASE CancelAnswered
  <2>1. PICK p \in Slots : NewRequest(p, current, 0)
    BY <1>9, Sending
  <2>. QED
    BY <2>1 DEF NewRequest, OneSent
<1>10. CASE UNCHANGED polls
  BY <1>0, <1>10 DEF OneSent
<1>. QED
  BY <1>1, <1>2, <1>3, <1>4, <1>5, <1>6, <1>7, <1>8, <1>9, <1>10 DEF Next, Arrive,
     Click, Refused, ServerWorks, ServerFails, SetFilter, ClickCancel, ServerCancels,
     CancelFails, vars, timers, shown

\* A first poll ends only with its call.
LEMMA FirstPollsMove ==
  IInv /\ [Next]_vars =>
     \A i \in Jobs : starts[i] = "polling" =>
        \/ starts'[i] = "polling"
        \/ \E p \in Slots : polls[p] # Free /\ polls[p].by = i /\ polls'[p] = Free
<1>. SUFFICES ASSUME IInv, [Next]_vars, NEW i \in Jobs, starts[i] = "polling"
              PROVE  \/ starts'[i] = "polling"
                     \/ \E p \in Slots : polls[p] # Free /\ polls[p].by = i /\ polls'[p] = Free
  OBVIOUS
<1>0. TypeOk
  BY DEF IInv
<1>1. ASSUME NEW k \in Jobs, Click(k) \/ Refused(k) \/ Started(k) PROVE starts'[i] = "polling"
  BY <1>0, <1>1 DEF TypeOk, Click, Refused, Started
<1>2. ASSUME NEW p \in Slots,
             StatusRunning(p) \/ StatusFails(p) \/ ResultsLoaded(p) \/ ResultsFail(p)
      PROVE  starts'[i] = "polling" \/ (polls[p] # Free /\ polls[p].by = i /\ polls'[p] = Free)
  BY <1>2, Returning DEF CallReturns
<1>3. CASE UNCHANGED starts
  BY <1>3
<1>. QED
  BY <1>1, <1>2, <1>3 DEF Next, Arrive, Tick, ServerWorks, ServerFails, ServerAnswers,
     StatusEnded,
     SetFilter, ClickCancel, ServerCancels, CancelAnswered, CancelFails, vars

\* Requests stay about jobs that exist, each first poll the only one of its
\* start.
LEMMA AskedStep == IInv /\ [Next]_vars => Asked'
<1>. SUFFICES ASSUME IInv, [Next]_vars, NEW q \in Slots, polls'[q] # Free
              PROVE  AskedRight(q)'
  BY DEF Asked, Free
<1>0. Asked /\ \A r \in Slots : polls[r] \in Requests
  BY Typed DEF IInv
<1>a. Free.by = 0 /\ Free.answer = ""
  BY DEF Free
<1>b. \A r \in Slots : PollMoves(r)
  BY PollsMove
<1>1. CASE /\ polls[q] # Free /\ polls'[q].job = polls[q].job /\ polls'[q].by = polls[q].by
           /\ polls'[q].asks \in {"status", "results"}
           /\ polls'[q].answer \in {"running", "ended"} => polls'[q].asks = "status"
           /\ polls'[q].answer = "results" => polls'[q].asks = "results"
  <2>1. AskedRight(q) /\ polls[q].job \in Jobs
    BY <1>0, <1>1, Typed DEF Asked
  <2>2. starts'[polls[q].job] \in {"polling", "done"}
    <3>1. PICK j \in Jobs : j = polls[q].job
      BY <2>1
    <3>2. Exists(j)
      BY <2>1, <3>1 DEF AskedRight
    <3>3. Exists(j)'
      BY <3>2, ExistsOn
    <3>. QED
      BY <3>1, <3>3 DEF Exists
  <2>3. ASSUME polls[q].by # 0
        PROVE  /\ starts'[polls[q].by] = "polling"
               /\ \A r \in Slots : polls'[r].by = polls[q].by => r = q
    <3>1. polls[q].by \in Jobs
      <4>1. polls[q].by \in 0..MaxStarts
        BY <1>0 DEF Requests
      <4>. QED
        BY <2>3, <4>1, BoundsAssumption DEF Jobs
    <3>2. starts[polls[q].by] = "polling" /\ \A r \in Slots : polls[r].by = polls[q].by => r = q
      BY <2>1, <2>3 DEF AskedRight
    <3>3. starts'[polls[q].by] = "polling"
      BY <1>1, <3>1, <3>2, FirstPollsMove
    <3>4. ASSUME NEW r \in Slots, polls'[r].by = polls[q].by PROVE r = q
      <4>1. polls'[r].by = polls[r].by
        BY <1>a, <1>b, <2>3, <3>2, <3>4 DEF PollMoves
      <4>. QED
        BY <3>2, <3>4, <4>1
    <3>. QED
      BY <3>3, <3>4
  <2>. QED
    BY <1>1, <2>1, <2>2, <2>3 DEF AskedRight, Exists
<1>2. CASE /\ polls[q] = Free /\ polls'[q].asks = "status" /\ polls'[q].answer = ""
           /\ polls'[q].job \in Jobs /\ starts'[polls'[q].job] \in {"polling", "done"}
           /\ polls'[q].by # 0 => /\ starts[polls'[q].by] = "posting"
                                   /\ starts'[polls'[q].by] = "polling"
  <2>1. ASSUME NEW r \in Slots, polls'[q].by # 0, polls'[r].by = polls'[q].by PROVE r = q
    <3>1. starts[polls'[r].by] = "posting"
      BY <1>2, <2>1
    <3>2. r # q => polls[r] = Free \/ polls'[r].by # polls[r].by
      BY <1>0, <2>1, <3>1 DEF Asked, AskedRight
    <3>3. r # q => polls[r] = Free
      BY <1>a, <1>b, <2>1, <3>2 DEF PollMoves
    <3>4. polls'[r] # Free
      BY <1>a, <2>1
    <3>. QED
      BY <1>2, <3>3, <3>4, OneSentStep DEF OneSent
  <2>2. polls'[q].job # 0
    <3>1. \A j \in Jobs : j # 0
      BY BoundsAssumption DEF Jobs
    <3>. QED
      BY <1>2, <3>1
  <2>. QED
    BY <1>2, <2>1, <2>2 DEF AskedRight, Exists
<1>3. CASE polls'[q] = polls[q]
  <2>1. polls[q] # Free /\ AskedRight(q)
    BY <1>0, <1>3 DEF Asked
  <2>. QED
    BY <1>1, <1>3, <2>1 DEF AskedRight
<1>4. CASE polls[q] # Free
  <2>1. AskedRight(q)
    BY <1>0, <1>4 DEF Asked
  <2>. QED
    BY <1>1, <1>2, <1>3, <1>4, <1>b, <2>1 DEF PollMoves, AskedRight
<1>5. CASE polls[q] = Free
  BY <1>2, <1>3, <1>5, <1>b DEF PollMoves
<1>. QED
  BY <1>4, <1>5

\* An answer stays true of its job while it is on its way.
LEMMA AnswersStep == IInv /\ [Next]_vars => AnswersRight'
<1>. SUFFICES ASSUME IInv, [Next]_vars, NEW q \in Slots, polls'[q] # Free
              PROVE  AnswerRight(q)'
  BY DEF AnswersRight, Free
<1>0. Asked /\ AnswersRight /\ JobsRight /\ PollMoves(q)
  BY PollsMove DEF IInv
<1>1. CASE polls[q] # Free
  <2>1. PICK j \in Jobs : j = polls[q].job
    BY <1>1, Typed
  <2>2. JobMoves(j)
    BY JobsMove
  <2>3. Exists(j) /\ AskedRight(q) /\ AnswerRight(q)
    BY <1>0, <1>1, <2>1 DEF Asked, AskedRight, AnswersRight
  <2>4. /\ server[j].ended => server'[j].ended
        /\ server[j].excused => server'[j].excused
        /\ server[j].ended => server[j].excused \/ server[j].listed = N
    BY <1>0, <2>2, <2>3 DEF JobMoves, JobsRight, Complete
  <2>. QED
    BY <1>0, <1>1, <2>1, <2>3, <2>4 DEF PollMoves, AskedRight, AnswerRight, Complete
<1>2. CASE polls[q] = Free
  <2>1. polls'[q].answer = "" /\ polls'[q].asks = "status"
    BY <1>0, <1>2 DEF PollMoves
  <2>. QED
    BY <2>1 DEF AnswerRight
<1>. QED
  BY <1>1, <1>2

\* A cancel request under way is about a job that exists, once a job has been
\* started.
LEMMA CancelStep == IInv /\ [Next]_vars => CancelRight'
<1>. SUFFICES ASSUME IInv, [Next]_vars PROVE CancelRight'
  OBVIOUS
<1>0. TypeOk /\ InOrder /\ CancelRight
  BY DEF IInv
<1>1. current # 0 => current' # 0
  <2>1. ASSUME NEW i \in Jobs, Started(i) PROVE current' # 0
    BY <2>1, BoundsAssumption DEF Started, Jobs
  <2>2. CASE UNCHANGED current
    BY <2>2
  <2>. QED
    BY <2>1, <2>2 DEF Next, vars, Click, Refused, Tick, ServerWorks, ServerFails,
       ServerAnswers,
       Arrive, StatusRunning, StatusFails, StatusEnded, ResultsLoaded, ResultsFail, SetFilter,
       ClickCancel, ServerCancels, CancelAnswered, CancelFails, timers
<1>2. CASE ClickCancel
  <2>1. current \in Jobs /\ Exists(current) /\ UNCHANGED <<starts, current>>
    BY <1>0, <1>2, BoundsAssumption DEF ClickCancel, InOrder, TypeOk, Jobs, timers
  <2>. QED
    BY <1>2, <2>1, BoundsAssumption DEF ClickCancel, CancelRight, Exists, Jobs
<1>3. CASE ServerCancels
  <2>1. cancel # NoCancel /\ cancel'.at = "answered"
    BY <1>3 DEF ServerCancels, NoCancel
  <2>. QED
    BY <1>0, <1>1, <2>1 DEF CancelRight
<1>4. CASE cancel' = NoCancel
  BY <1>4 DEF CancelRight, NoCancel
<1>5. CASE UNCHANGED cancel
  <2>1. ASSUME cancel.at = "sent" PROVE cancel.job # 0 /\ Exists(cancel.job)'
    <3>1. PICK j \in Jobs : j = cancel.job
      BY <2>1, Typed
    <3>2. Exists(j)
      BY <1>0, <2>1, <3>1 DEF CancelRight, NoCancel
    <3>3. Exists(j)'
      BY <3>2, ExistsOn
    <3>. QED
      BY <1>5, <3>1, <3>3, BoundsAssumption DEF Exists, Jobs
  <2>. QED
    BY <1>0, <1>1, <1>5, <2>1 DEF CancelRight, NoCancel
<1>. QED
  BY <1>2, <1>3, <1>4, <1>5
  DEF Next, vars, Click, Refused, Started, Tick, ServerWorks, ServerFails, ServerAnswers, Arrive,
      StatusRunning, StatusFails, StatusEnded, ResultsLoaded, ResultsFail, SetFilter,
      CancelAnswered, CancelFails

\* The report on the page stays a complete one, of a job that exists.
LEMMA ReportStep == IInv /\ [Next]_vars => ReportRight'
<1>. SUFFICES ASSUME IInv, [Next]_vars, lastReport'.job # 0
              PROVE  Exists(lastReport.job)' /\ Complete(lastReport.job, lastReport.listed)'
  BY DEF ReportRight
<1>0. TypeOk /\ Asked /\ AnswersRight /\ ReportRight
  BY DEF IInv
<1>1. ASSUME NEW j \in Jobs, NEW n, Exists(j), Complete(j, n),
             lastReport'.job = j, lastReport'.listed = n
      PROVE  Exists(lastReport.job)' /\ Complete(lastReport.job, lastReport.listed)'
  <2>1. Exists(j)' /\ JobMoves(j)
    BY <1>1, ExistsOn, JobsMove
  <2>. QED
    BY <1>1, <2>1 DEF JobMoves, Complete, Exists
<1>2. ASSUME NEW p \in Slots, ResultsLoaded(p)
      PROVE  Exists(lastReport.job)' /\ Complete(lastReport.job, lastReport.listed)'
  <2>1. polls[p] # Free /\ polls[p].answer = "results"
    BY <1>2, Returning DEF CallReturns, ResultsLoaded
  <2>2. polls[p].job \in Jobs /\ Exists(polls[p].job) /\ Complete(polls[p].job, polls[p].listed)
    BY <1>0, <2>1, Typed DEF Asked, AskedRight, AnswersRight, AnswerRight
  <2>3. lastReport'.job = polls[p].job /\ lastReport'.listed = polls[p].listed
    BY <1>2 DEF ResultsLoaded
  <2>. QED
    BY <1>1, <2>2, <2>3
<1>3. CASE UNCHANGED lastReport
  <2>1. lastReport.job \in Jobs /\ Exists(lastReport.job) /\ Complete(lastReport.job, lastReport.listed)
    BY <1>0, <1>3, BoundsAssumption DEF ReportRight, TypeOk, Jobs
  <2>. QED
    BY <1>1, <1>3, <2>1
<1>. QED
  BY <1>2, <1>3
  DEF Next, vars, Click, Refused, Started, Tick, ServerWorks, ServerFails, ServerAnswers, Arrive,
      StatusRunning, StatusFails, StatusEnded, ResultsFail, SetFilter, ClickCancel, ServerCancels,
      CancelAnswered, CancelFails, shown

\* A request for results is still there after any step but its own answer.
LEMMA AskingOn ==
  ASSUME IInv, [Next]_vars, NEW q \in Slots, polls[q].asks = "results", polls'[q] # Free
  PROVE  polls'[q].job = polls[q].job /\ polls'[q].asks = "results"
<1>1. Free.asks = "nothing"
  BY DEF Free
<1>2. PollMoves(q)
  BY PollsMove
<1>. QED
  BY <1>1, <1>2 DEF PollMoves

\* The current job stays watched.
LEMMA WatchedStep == IInv /\ [Next]_vars => Watched'
<1>. SUFFICES ASSUME IInv, [Next]_vars PROVE Watched'
  OBVIOUS
<1>0. TypeOk /\ InOrder /\ Asked /\ Watched
  BY DEF IInv
<1>a. current # 0 => current \in Jobs /\ starts[current] \in {"polling", "done"}
  BY <1>0, BoundsAssumption DEF TypeOk, InOrder, Exists, Jobs
<1>b. Free.answer = "" /\ Free.asks = "nothing"
  BY DEF Free
<1>c. ASSUME UNCHANGED <<current, timer, live, disturbed, lastReport>>,
             panel' \in {panel, "report", "running"}, starts' = starts,
             \A q \in Slots : polls[q].asks = "results" => polls'[q] # Free
      PROVE  Watched'
  <2>1. (\E q \in Slots : polls[q].job = current /\ polls[q].asks = "results")
        => \E q \in Slots : polls'[q].job = current /\ polls'[q].asks = "results"
    BY <1>c, AskingOn
  <2>. QED
    BY <1>0, <1>c, <2>1 DEF Watched
<1>1. ASSUME NEW i \in Jobs, Click(i) \/ Refused(i) PROVE Watched'
  <2>1. /\ starts[i] \in {"idle", "posting"} /\ starts'[i] # "idle"
        /\ \A k \in Jobs \ {i} : starts'[k] = starts[k]
        /\ UNCHANGED <<current, timer, live, disturbed, lastReport, polls>>
    BY <1>0, <1>1 DEF TypeOk, Click, Refused, timers
  <2>2. current # 0 => current < i /\ starts'[current] = starts[current]
    <3>1. current # 0 => current \in Jobs \ {i}
      BY <1>a, <2>1
    <3>2. ASSUME current # 0, current > i PROVE FALSE
      BY <1>0, <1>a, <2>1, <3>2 DEF InOrder, Jobs
    <3>. QED
      BY <2>1, <3>1, <3>2, BoundsAssumption DEF Jobs
  <2>. QED
    BY <1>0, <2>1, <2>2 DEF Watched
<1>2. ASSUME NEW i \in Jobs, Started(i) PROVE Watched'
  <2>1. current' = i /\ starts'[i] = "polling"
    BY <1>0, <1>2 DEF TypeOk, Started
  <2>. QED
    BY <2>1 DEF Watched
<1>3. ASSUME NEW p \in Slots, StatusRunning(p) PROVE Watched'
  <2>1. CallReturns(p) /\ UNCHANGED <<disturbed, lastReport>> /\ panel' = "running"
    BY <1>3, Returning DEF StatusRunning
  <2>2. CASE polls[p].by # 0
    BY <2>1, <2>2 DEF CallReturns, Watched
  <2>3. CASE polls[p].by = 0
    <3>1. UNCHANGED <<timer, live>> /\ starts' = starts /\ current' = current
      BY <1>3, <2>1, <2>3 DEF StatusRunning, Return, CallReturns
    <3>2. polls[p].asks = "status"
      BY <1>0, <1>3, <2>1 DEF StatusRunning, CallReturns, Asked, AskedRight
    <3>3. \A q \in Slots : polls[q].asks = "results" => polls'[q] # Free
      BY <1>b, <2>1, <3>2 DEF CallReturns
    <3>. QED
      BY <1>c, <2>1, <3>1, <3>3
  <2>. QED
    BY <2>2, <2>3
<1>4. ASSUME NEW p \in Slots, StatusFails(p) PROVE Watched'
  <2>1. CallReturns(p) /\ disturbed' = (disturbed \/ ~FirstPoll)
    BY <1>4, Returning DEF StatusFails
  <2>2. FirstPoll => current # 0 /\ starts[current] = "polling"
    BY <1>0, BoundsAssumption DEF FirstPoll, InOrder, Jobs
  <2>. QED
    BY <2>1, <2>2 DEF CallReturns, Watched
<1>5. ASSUME NEW p \in Slots, StatusEnded(p) PROVE Watched'
  <2>1. /\ disturbed' = (disturbed \/ (polls[p].job # current /\ ~FirstPoll))
        /\ UNCHANGED <<starts, current>>
    BY <1>5 DEF StatusEnded
  <2>2. FirstPoll => starts[current] = "polling"
    BY <1>0 DEF FirstPoll, InOrder
  <2>3. polls'[p].job = polls[p].job /\ polls'[p].asks = "results"
    BY <1>0, <1>5 DEF StatusEnded, TypeOk, Requests
  <2>. QED
    BY <2>1, <2>2, <2>3 DEF Watched
<1>6. ASSUME NEW p \in Slots, ResultsLoaded(p) PROVE Watched'
  <2>1. /\ disturbed' = (disturbed \/ polls[p].job # current)
        /\ lastReport'.job = polls[p].job /\ panel' = "report" /\ current' = current
    BY <1>6 DEF ResultsLoaded
  <2>. QED
    BY <2>1 DEF Watched
<1>7. ASSUME NEW p \in Slots, ResultsFail(p) PROVE Watched'
  <2>1. CallReturns(p) /\ disturbed' = (disturbed \/ polls[p].by = 0)
    BY <1>7, Returning DEF ResultsFail
  <2>. QED
    BY <2>1 DEF CallReturns, Watched
<1>8. ASSUME NEW p \in Slots, ServerAnswers(p) PROVE Watched'
  <2>1. /\ UNCHANGED <<current, timer, live, disturbed, lastReport, panel, starts>>
        /\ polls[p] # Free /\ \A q \in Slots \ {p} : polls'[q] = polls[q]
    BY <1>0, <1>8 DEF ServerAnswers, TypeOk, timers, shown
  <2>2. polls'[p] # Free
    <3>1. polls'[p].answer # ""
      <4>1. polls[p] \in Requests
        BY Typed
      <4>2. \/ \E a \in {"ended", "running", "error"} :
                  polls' = [polls EXCEPT ![p] = [polls[p] EXCEPT !.answer = a]]
            \/ polls' = [polls EXCEPT ![p] = [polls[p] EXCEPT
                             !.answer = "results", !.listed = server[polls[p].job].listed]]
        BY <1>0, <1>8, <4>1 DEF ServerAnswers, TypeOk, Requests
      <4>3. \/ \E a \in {"ended", "running", "error"} : polls'[p] = [polls[p] EXCEPT !.answer = a]
            \/ polls'[p] = [polls[p] EXCEPT
                             !.answer = "results", !.listed = server[polls[p].job].listed]
        BY <1>0, <4>2 DEF TypeOk
      <4>4. ASSUME NEW a \in {"ended", "running", "error"}, polls'[p] = [polls[p] EXCEPT !.answer = a]
            PROVE  polls'[p].answer = a
        BY <4>1, <4>4, AnswerFields
      <4>5. ASSUME polls'[p] = [polls[p] EXCEPT
                             !.answer = "results", !.listed = server[polls[p].job].listed]
            PROVE  polls'[p].answer = "results"
        BY <4>1, <4>5, AnswerFields
      <4>. QED
        BY <4>3, <4>4, <4>5
    <3>. QED
      BY <1>b, <3>1
  <2>. QED
    BY <1>b, <1>c, <2>1, <2>2
<1>9. CASE \/ \E i \in Jobs : Tick(i) \/ ServerWorks(i) \/ ServerFails(i)
           \/ SetFilter \/ ClickCancel \/ ServerCancels \/ CancelAnswered \/ CancelFails
           \/ UNCHANGED vars
  <2>1. /\ UNCHANGED <<current, timer, live, disturbed, lastReport, starts>>
        /\ panel' \in {panel, "report", "running"}
    BY <1>9 DEF Tick, ServerWorks, ServerFails, SetFilter, ClickCancel, ServerCancels,
       CancelAnswered, CancelFails, vars, timers, shown
  <2>2. \A q \in Slots : polls[q].asks = "results" => polls'[q] = polls[q]
    <3>1. CASE UNCHANGED polls
      BY <3>1
    <3>2. CASE \E p \in Slots, j \in Jobs : NewRequest(p, j, 0)
      BY <1>b, <3>2 DEF NewRequest
    <3>3. CASE \E i \in Jobs : Tick(i)
      <4>1. current \in Jobs
        BY <1>a, <3>3 DEF Tick
      <4>. QED
        BY <3>2, <3>3, <4>1, Sending
    <3>4. CASE CancelAnswered
      <4>1. current \in Jobs
        BY <3>4, Typed DEF CancelAnswered, NoCancel
      <4>. QED
        BY <3>2, <3>4, <4>1, Sending
    <3>. QED
      BY <1>9, <3>1, <3>3, <3>4 DEF ServerWorks, ServerFails, SetFilter, ClickCancel,
         ServerCancels, CancelFails, vars
  <2>. QED
    BY <1>b, <1>c, <2>1, <2>2
<1>. QED
  BY <1>1, <1>2, <1>3, <1>4, <1>5, <1>6, <1>7, <1>8, <1>9 DEF Next, Arrive

\* The step, part by part.
LEMMA InvStep == IInv /\ [Next]_vars => IInv'
BY TypeStep, OrderStep, CancelStep, AskedStep, JobsRightStep, AnswersStep, ReportStep,
   WatchedStep
DEF IInv

-----------------------------------------------------------------------------
(* What follows *)

\* The inductive invariant holds however clicks, answers and intervals interleave.
THEOREM Invariance == Safe => []IInv
BY InvInit, InvStep, PTL DEF Safe

\* The dashboard comes to rest with the last job's complete report, unless one of the
\* named disturbances got in between (app.js 1566-1659).
THEOREM RestShowsTheReport == Spec => []RestShowsTheEnd
<1>1. IInv => RestShowsTheEnd
  <2>. SUFFICES ASSUME IInv, Idle, current # 0, ~disturbed
                PROVE  /\ lastReport.job = current
                       /\ server[current].excused \/ lastReport.listed = N
                       /\ \/ panel \in {"report", "running"}
                          \/ \E k \in Jobs : k > current /\ starts[k] # "idle"
    BY DEF RestShowsTheEnd
  <2>0. TypeOk /\ InOrder /\ ReportRight /\ Watched
    BY DEF IInv
  <2>1. current \in Jobs /\ starts[current] = "done"
    BY <2>0, BoundsAssumption DEF TypeOk, InOrder, Exists, Jobs, Idle, InStart
  <2>2. Free.asks = "nothing"
    BY DEF Free
  <2>3. /\ lastReport.job = current
        /\ \/ panel \in {"report", "running"}
           \/ \E k \in Jobs : k > current /\ starts[k] # "idle"
    BY <2>0, <2>1, <2>2 DEF Watched, Idle
  <2>. QED
    BY <2>0, <2>1, <2>3, BoundsAssumption DEF ReportRight, Complete, Jobs
<1>. QED
  BY <1>1, Invariance, PTL DEF Spec

=============================================================================
