-------------------------- MODULE ScanPollerProofs --------------------------
(***************************************************************************)
(* Safety of ScanPoller for any number of scans, requests and errors: the  *)
(* inductive invariant IInv, part by part, and what follows from it.       *)
(***************************************************************************)
EXTENDS ScanPoller, TLAPS

USE BoundsAssumption DEF Jobs, Slots, Terminal

-----------------------------------------------------------------------------
(* requests *)

\* The fields of a request under way, one by one.
LEMMA Fields ==
  ASSUME TypeOk
  PROVE  \A p \in Slots : /\ polls[p] \in Request
                          /\ polls[p].job \in 0..MaxScans
                          /\ polls[p].by \in 0..MaxScans
                          /\ polls[p].job # 0 => polls[p].job \in Jobs
                          /\ polls[p].by # 0 => polls[p].by \in Jobs
                          /\ polls[p].answer \in Terminal \cup {"free", "", "running", "error"}
<1>1. ASSUME NEW r \in Request
      PROVE  /\ r.job \in 0..MaxScans /\ r.by \in 0..MaxScans
             /\ r.answer \in Terminal \cup {"free", "", "running", "error"}
  BY DEF Request
<1>2. ASSUME NEW n \in 0..MaxScans, n # 0 PROVE n \in Jobs
  BY <1>2
<1>3. TAKE p \in Slots
<1>4. polls[p] \in Request
  BY DEF TypeOk
<1>. QED
  BY <1>1, <1>2, <1>4

\* A request that is sent takes its slot and leaves the others alone.
LEMMA Sent ==
  ASSUME TypeOk, NEW job \in 0..MaxScans, NEW by \in 0..MaxScans, NEW p \in Slots,
         polls' = [polls EXCEPT ![p] = [job |-> job, by |-> by, answer |-> ""]]
  PROVE  /\ polls' \in [Slots -> Request]
         /\ polls'[p].job = job /\ polls'[p].by = by /\ polls'[p].answer = ""
         /\ \A q \in Slots : q # p => polls'[q] = polls[q]
<1>1. [job |-> job, by |-> by, answer |-> ""] \in Request
  BY DEF Request
<1>2. polls \in [Slots -> Request]
  BY DEF TypeOk
<1>3. polls'[p] = [job |-> job, by |-> by, answer |-> ""]
  BY <1>2
<1>4. polls'[p].job = job /\ polls'[p].by = by /\ polls'[p].answer = ""
  <2>. DEFINE r == polls'[p]
  <2>1. r = [job |-> job, by |-> by, answer |-> ""]
    BY <1>3
  <2>2. r.job = job /\ r.by = by /\ r.answer = ""
    <3>. HIDE DEF r
    <3>. QED
      BY <2>1
  <2>. QED
    BY <2>2
<1>. QED
  BY <1>1, <1>2, <1>4

\* The same, whichever slot is free.
LEMMA SentSome ==
  ASSUME TypeOk, NEW job \in 0..MaxScans, NEW by \in 0..MaxScans, Send(job, by)
  PROVE  /\ polls' \in [Slots -> Request]
         /\ \E p \in Slots :
                /\ polls'[p].job = job /\ polls'[p].by = by /\ polls'[p].answer = ""
                /\ \A q \in Slots : q # p => polls'[q] = polls[q]
<1>1. PICK p \in Slots :
          polls' = [polls EXCEPT ![p] = [job |-> job, by |-> by, answer |-> ""]]
  BY Zenon DEF Send
<1>2. /\ polls' \in [Slots -> Request]
      /\ polls'[p].job = job /\ polls'[p].by = by /\ polls'[p].answer = ""
      /\ \A q \in Slots : q # p => polls'[q] = polls[q]
  BY <1>1, Sent
<1>. QED
  BY <1>2, Zenon

\* An answer changes the answer of one request.
LEMMA Answered ==
  ASSUME TypeOk, NEW p \in Slots, NEW a, polls' = [polls EXCEPT ![p].answer = a]
  PROVE  /\ polls'[p].answer = a
         /\ polls'[p].job = polls[p].job /\ polls'[p].by = polls[p].by
         /\ \A q \in Slots : q # p => polls'[q] = polls[q]
<1>1. polls \in [Slots -> Request] /\ polls[p] \in Request
  BY DEF TypeOk
<1>2. /\ polls'[p] = [polls[p] EXCEPT !.answer = a]
      /\ \A q \in Slots : q # p => polls'[q] = polls[q]
  BY <1>1
<1>3. \A r \in Request : \A s : s = [r EXCEPT !.answer = a]
                            => s.answer = a /\ s.job = r.job /\ s.by = r.by
  BY DEF Request
<1>. QED
  BY <1>1, <1>2, <1>3, Zenon

-----------------------------------------------------------------------------
(* Every variable keeps its type. *)

LEMMA TypeStep == TypeOk /\ Requests /\ Existing /\ [Next]_vars => TypeOk'
<1>. SUFFICES ASSUME TypeOk, Requests, Existing, [Next]_vars PROVE TypeOk'
  OBVIOUS
<1>0. \A p \in Slots : polls[p].answer \in Terminal \cup {"running", "error", "", "free"}
  BY Fields
<1>1. ASSUME NEW i \in Jobs, Click(i) PROVE TypeOk'
  BY <1>1 DEF Click, TypeOk
<1>a. ASSUME NEW i \in Jobs, Refused(i) PROVE TypeOk'
  BY <1>a DEF Refused, TypeOk, history
<1>2. ASSUME NEW i \in Jobs, Started(i) PROVE TypeOk'
  <2>1. i \in 0..MaxScans /\ Send(i, i)
    BY <1>2 DEF Started
  <2>2. polls' \in [Slots -> Request]
    BY <2>1, SentSome
  <2>3. /\ status' \in [Jobs -> Terminal \cup {"none", "running"}]
        /\ scans' \in [Jobs -> {"idle", "posting", "refused", "polling", "done"}]
        /\ live' \subseteq Jobs
    BY <1>2 DEF Started, TypeOk
  <2>4. /\ panel' \in [job : 0..MaxScans, shows : Terminal \cup
                           {"nothing", "starting", "running", "error"}]
        /\ current' \in 0..MaxScans
    BY <1>2, <2>1 DEF Started
  <2>5. disturbed' = FALSE /\ UNCHANGED <<timer, cancel, errors, ended, overlapped>>
    BY <1>2 DEF Started
  <2>. QED
    BY <2>2, <2>3, <2>4, <2>5 DEF TypeOk
<1>3. ASSUME NEW i \in Jobs, Tick(i) PROVE TypeOk'
  <2>1. current \in 0..MaxScans /\ 0 \in 0..MaxScans /\ Send(current, 0)
    BY <1>3 DEF Tick, TypeOk
  <2>2. polls' \in [Slots -> Request]
    BY <2>1, SentSome
  <2>3. UNCHANGED <<status, scans, current, timer, live, cancel, panel, errors,
                    ended, disturbed, overlapped>>
    BY <1>3 DEF Tick, history
  <2>. QED
    BY <2>2, <2>3 DEF TypeOk
<1>4. ASSUME NEW i \in Jobs, ServerMoves(i) PROVE TypeOk'
  BY <1>4 DEF ServerMoves, TypeOk, history
<1>5. ASSUME NEW p \in Slots, ServerAnswers(p) PROVE TypeOk'
  <2>1. PICK a \in Terminal \cup {"running", "error"} :
           polls' = [polls EXCEPT ![p].answer = a]
    <3>1. polls[p].job # 0 => status[polls[p].job] \in Terminal \cup {"running"}
      BY Fields DEF Existing, TypeOk
    <3>. QED
      BY <1>5, <3>1 DEF ServerAnswers
  <2>2. [polls[p] EXCEPT !.answer = a] \in Request
    BY Fields DEF Request
  <2>3. polls' \in [Slots -> Request]
    BY <2>1, <2>2 DEF TypeOk
  <2>4. errors' \in 0..MaxErrors
    <3>1. errors' = errors \/ (errors < MaxErrors /\ errors' = errors + 1)
      BY <1>5 DEF ServerAnswers
    <3>. QED
      BY <3>1 DEF TypeOk
  <2>5. UNCHANGED <<status, scans, current, timer, live, cancel, panel,
                    ended, disturbed, overlapped>>
    BY <1>5 DEF ServerAnswers, history
  <2>. QED
    BY <2>3, <2>4, <2>5 DEF TypeOk
<1>6. ASSUME NEW p \in Slots, Arrive(p) PROVE TypeOk'
  <2>1. Free \in Request
    BY DEF Free, Request
  <2>2. polls' \in [Slots -> Request]
    BY <1>6, <2>1 DEF Arrive, TypeOk
  <2>3. /\ polls[p].job \in 0..MaxScans
        /\ polls[p].by \in 0..MaxScans /\ (polls[p].by # 0 => polls[p].by \in Jobs)
        /\ polls[p].answer \in Terminal \cup {"running", "error"}
    BY <1>6, Fields DEF Arrive
  <2>4. polls[p].answer \in Terminal => polls[p].job \in Jobs
    BY <2>3, Fields DEF Requests
  <2>5. /\ current' \in 0..MaxScans /\ ended' \subseteq Jobs /\ disturbed' \in BOOLEAN
    <3>1. /\ current' = 0 \/ current' = current
          /\ ended' = ended \/ (polls[p].answer \in Terminal /\ ended' = ended \cup {polls[p].job})
      BY <1>6 DEF Arrive, Show
    <3>2. disturbed' \in BOOLEAN
      BY <1>6 DEF Arrive, Show
    <3>3. current' \in 0..MaxScans
      BY <3>1 DEF TypeOk
    <3>4. ended' \subseteq Jobs
      <4>1. ended \subseteq Jobs
        BY DEF TypeOk
      <4>2. CASE ended' = ended
        BY <4>1, <4>2
      <4>3. CASE polls[p].job \in Jobs /\ ended' = ended \cup {polls[p].job}
        BY ONLY <4>1, <4>3
      <4>. QED
        BY <2>4, <3>1, <4>2, <4>3
    <3>. QED
      BY <3>2, <3>3, <3>4
  <2>6. panel' \in [job : 0..MaxScans, shows : Terminal \cup
                        {"nothing", "starting", "running", "error"}]
    BY <1>6, <2>3 DEF Arrive, Show
  <2>7. /\ timer' \in 0..MaxScans /\ live' \subseteq Jobs
        /\ scans' \in [Jobs -> {"idle", "posting", "refused", "polling", "done"}]
    <3>1. \/ UNCHANGED scans
          \/ scans' = [scans EXCEPT ![polls[p].by] = "done"]
      BY <1>6 DEF Arrive
    <3>2. timer' \in {0, timer, polls[p].by}
      BY <1>6 DEF Arrive
    <3>3. live' \subseteq live \/ (polls[p].by # 0 /\ live' \subseteq live \cup {polls[p].by})
      BY <1>6 DEF Arrive
    <3>4. timer' \in 0..MaxScans
      BY <2>3, <3>2 DEF TypeOk
    <3>5. live' \subseteq Jobs
      <4>. live \subseteq Jobs
        BY DEF TypeOk
      <4>. QED
        BY <2>3, <3>3
    <3>6. scans' \in [Jobs -> {"idle", "posting", "refused", "polling", "done"}]
      BY <3>1 DEF TypeOk
    <3>. QED
      BY <3>4, <3>5, <3>6
  <2>8. UNCHANGED <<status, cancel, errors, overlapped>>
    BY <1>6 DEF Arrive
  <2>. QED
    BY <2>2, <2>5, <2>6, <2>7, <2>8 DEF TypeOk
<1>7. ASSUME ClickCancel \/ ServerCancels \/ CancelFails PROVE TypeOk'
  <2>1. /\ cancel' \in [job : 0..MaxScans, answered : BOOLEAN]
        /\ status' \in [Jobs -> Terminal \cup {"none", "running"}]
        /\ errors' \in 0..MaxErrors
    <3>1. CASE ClickCancel
      BY <3>1 DEF ClickCancel, TypeOk
    <3>2. CASE ServerCancels
      BY <3>2 DEF ServerCancels, TypeOk
    <3>3. CASE CancelFails
      BY <3>3 DEF CancelFails, NoCancel, TypeOk
    <3>. QED
      BY <1>7, <3>1, <3>2, <3>3
  <2>2. UNCHANGED <<scans, current, timer, live, polls, panel, ended, disturbed,
                    overlapped>>
    BY <1>7 DEF ClickCancel, ServerCancels, CancelFails, history
  <2>. QED
    BY <2>1, <2>2 DEF TypeOk
<1>8. ASSUME CancelAnswered PROVE TypeOk'
  <2>1. current \in 0..MaxScans /\ 0 \in 0..MaxScans /\ Send(current, 0)
    BY <1>8 DEF CancelAnswered, TypeOk
  <2>2. polls' \in [Slots -> Request]
    BY <2>1, SentSome
  <2>3. cancel' \in [job : 0..MaxScans, answered : BOOLEAN]
    BY <1>8 DEF CancelAnswered, NoCancel
  <2>4. UNCHANGED <<status, scans, current, timer, live, panel, errors, ended,
                    disturbed, overlapped>>
    BY <1>8 DEF CancelAnswered, history
  <2>. QED
    BY <2>2, <2>3, <2>4 DEF TypeOk
<1>9. CASE UNCHANGED vars
  BY <1>9 DEF vars, history, TypeOk
<1>. QED
  BY <1>1, <1>a, <1>2, <1>3, <1>4, <1>5, <1>6, <1>7, <1>8, <1>9 DEF Next

-----------------------------------------------------------------------------
(* What the requests under way are about. *)

\* Another poll is sent: it is the first poll of no scan.
LEMMA AskStep ==
  ASSUME TypeOk, Requests, Existing, NEW j \in 0..MaxScans, Send(j, 0),
         j # 0 => status[j] # "none", UNCHANGED scans
  PROVE  /\ Requests'
         /\ \A p \in Slots : polls'[p].job # 0 => status[polls'[p].job] # "none"
<1>1. PICK p \in Slots :
          /\ polls'[p].job = j /\ polls'[p].by = 0 /\ polls'[p].answer = ""
          /\ \A q \in Slots : q # p => polls'[q] = polls[q]
  <2>1. PICK p \in Slots : polls' = [polls EXCEPT ![p] = [job |-> j, by |-> 0, answer |-> ""]]
    BY Zenon DEF Send
  <2>2. 0 \in 0..MaxScans
    BY BoundsAssumption
  <2>3. /\ polls'[p].job = j /\ polls'[p].by = 0 /\ polls'[p].answer = ""
        /\ \A q \in Slots : q # p => polls'[q] = polls[q]
    BY <2>1, <2>2, Sent, ZenonT(60)
  <2>. QED
    BY <2>3, Zenon
<1>2. Requests'
  BY <1>1 DEF Requests
<1>3. \A q \in Slots : polls'[q].job # 0 => status[polls'[q].job] # "none"
  BY <1>1 DEF Existing
<1>. QED
  BY <1>2, <1>3

\* A first poll is under way once, and only while its scan waits for it: the
\* slot is freed in the step that ends the waiting.
LEMMA RequestsStep == TypeOk /\ Requests /\ Existing /\ [Next]_vars => Requests'
<1>. SUFFICES ASSUME TypeOk, Requests, Existing, [Next]_vars PROVE Requests'
  OBVIOUS
<1>0. \A p \in Slots : polls[p].by # 0 => polls[p].by \in Jobs
  BY Fields
<1>1. ASSUME NEW i \in Jobs, Click(i) \/ Refused(i) PROVE Requests'
  <2>1. UNCHANGED polls
    BY <1>1 DEF Click, Refused
  <2>2. \A j \in Jobs : scans[j] = "polling" => scans'[j] = "polling"
    BY <1>1 DEF Click, Refused, TypeOk
  <2>. QED
    BY <1>0, <2>1, <2>2 DEF Requests
<1>2. ASSUME NEW i \in Jobs, Started(i) PROVE Requests'
  <2>1. PICK p \in Slots :
            /\ polls'[p].job = i /\ polls'[p].by = i /\ polls'[p].answer = ""
            /\ \A q \in Slots : q # p => polls'[q] = polls[q]
    <3>1. i \in 0..MaxScans /\ Send(i, i)
      BY <1>2 DEF Started
    <3>. QED
      BY <3>1, SentSome
  <2>3. scans[i] = "posting" /\ scans' = [scans EXCEPT ![i] = "polling"]
    BY <1>2 DEF Started
  <2>4. \A j \in Jobs : scans[j] = "polling" \/ j = i => scans'[j] = "polling"
    BY <2>3 DEF TypeOk
  <2>5. \A q \in Slots : polls[q].by # i
    BY <2>3 DEF Requests
  <2>6. \A q \in Slots : polls'[q].answer \in Terminal \cup {"running"} => polls'[q].job # 0
    BY <2>1 DEF Requests
  <2>7. \A q \in Slots : polls'[q].by # 0 => scans'[polls'[q].by] = "polling"
    BY <1>0, <2>1, <2>4 DEF Requests
  <2>8. \A q, r \in Slots : polls'[q].by # 0 /\ polls'[q].by = polls'[r].by => q = r
    BY <2>1, <2>5 DEF Requests
  <2>. QED
    BY <2>6, <2>7, <2>8 DEF Requests
<1>3. ASSUME Send(current, 0), UNCHANGED scans PROVE Requests'
  <2>1. current \in 0..MaxScans /\ (current # 0 => status[current] # "none")
    BY DEF TypeOk, Existing
  <2>. QED
    BY <1>3, <2>1, AskStep
<1>4. ASSUME NEW p \in Slots, ServerAnswers(p) PROVE Requests'
  <2>1. PICK a : /\ polls' = [polls EXCEPT ![p].answer = a]
                 /\ polls[p].job # 0 \/ a = "error"
    BY <1>4 DEF ServerAnswers
  <2>2. /\ polls'[p].answer = a
        /\ polls'[p].job = polls[p].job /\ polls'[p].by = polls[p].by
        /\ \A q \in Slots : q # p => polls'[q] = polls[q]
    BY <2>1, Answered
  <2>3. UNCHANGED scans
    BY <1>4 DEF ServerAnswers
  <2>4. \A q \in Slots : polls'[q].answer \in Terminal \cup {"running"} => polls'[q].job # 0
    BY <2>1, <2>2 DEF Requests
  <2>5. \A q \in Slots : polls'[q].by # 0 => scans'[polls'[q].by] = "polling"
    BY <2>2, <2>3 DEF Requests
  <2>6. \A q, r \in Slots : polls'[q].by # 0 /\ polls'[q].by = polls'[r].by => q = r
    BY <2>2 DEF Requests
  <2>. QED
    BY <2>4, <2>5, <2>6 DEF Requests
<1>5. ASSUME NEW p \in Slots, Arrive(p) PROVE Requests'
  <2>1. /\ polls'[p] = Free
        /\ \A q \in Slots : q # p => polls'[q] = polls[q]
    BY <1>5 DEF Arrive, TypeOk
  <2>2. Free.by = 0 /\ Free.answer = "free"
    BY DEF Free
  <2>3. \A j \in Jobs : scans[j] = "polling" /\ j # polls[p].by => scans'[j] = "polling"
    BY <1>5 DEF Arrive, TypeOk
  <2>4. \A q \in Slots : polls'[q].answer \in Terminal \cup {"running"} => polls'[q].job # 0
    BY <2>1, <2>2 DEF Requests
  <2>5. \A q \in Slots : polls'[q].by # 0 => scans'[polls'[q].by] = "polling"
    BY <1>0, <2>1, <2>2, <2>3 DEF Requests
  <2>6. \A q, r \in Slots : polls'[q].by # 0 /\ polls'[q].by = polls'[r].by => q = r
    BY <2>1, <2>2 DEF Requests
  <2>. QED
    BY <2>4, <2>5, <2>6 DEF Requests
<1>6. ASSUME UNCHANGED <<scans, polls>> PROVE Requests'
  BY <1>6 DEF Requests
<1>7. ASSUME NEW i \in Jobs, ServerMoves(i) PROVE UNCHANGED <<scans, polls>>
  BY <1>7 DEF ServerMoves
<1>8. ASSUME NEW i \in Jobs, Tick(i) PROVE Send(current, 0) /\ UNCHANGED scans
  BY <1>8 DEF Tick
<1>9. CancelAnswered => Send(current, 0) /\ UNCHANGED scans
  BY DEF CancelAnswered
<1>10. ClickCancel \/ ServerCancels \/ CancelFails \/ UNCHANGED vars
       => UNCHANGED <<scans, polls>>
  BY DEF ClickCancel, ServerCancels, CancelFails, vars
<1>. QED
  BY <1>1, <1>2, <1>3, <1>4, <1>5, <1>6, <1>7, <1>8, <1>9, <1>10 DEF Next

\* No step takes a job from the server, and only Started adds one that is shown
\* or asked about.
LEMMA ExistingStep == TypeOk /\ Requests /\ Existing /\ [Next]_vars => Existing'
<1>. SUFFICES ASSUME TypeOk, Requests, Existing, [Next]_vars PROVE Existing'
  OBVIOUS
<1>0. \A p \in Slots : polls[p].job # 0 => polls[p].job \in Jobs
  BY Fields
<1>a. current # 0 => current \in Jobs
  BY DEF TypeOk
<1>1. ASSUME NEW i \in Jobs, Click(i) \/ Refused(i) PROVE Existing'
  <2>1. UNCHANGED <<polls, status, current>>
    BY <1>1 DEF Click, Refused
  <2>2. \A j \in Jobs : scans'[j] \in {"polling", "done"} => scans[j] \in {"polling", "done"}
    BY <1>1 DEF Click, Refused, TypeOk
  <2>. QED
    BY <2>1, <2>2 DEF Existing
<1>2. ASSUME NEW i \in Jobs, Started(i) PROVE Existing'
  <2>1. PICK p \in Slots :
            /\ polls'[p].job = i /\ polls'[p].by = i /\ polls'[p].answer = ""
            /\ \A q \in Slots : q # p => polls'[q] = polls[q]
    <3>1. i \in 0..MaxScans /\ Send(i, i)
      BY <1>2 DEF Started
    <3>. QED
      BY <3>1, SentSome
  <2>3. \A j \in Jobs : status[j] # "none" \/ j = i => status'[j] # "none"
    BY <1>2 DEF Started, TypeOk
  <2>4. \A j \in Jobs : scans'[j] = scans[j] \/ j = i
    BY <1>2 DEF Started, TypeOk
  <2>5. current' = i
    BY <1>2 DEF Started
  <2>6. \A j \in Jobs : scans'[j] \in {"polling", "done"} => status'[j] # "none"
    BY <2>3, <2>4 DEF Existing
  <2>7. \A q \in Slots : polls'[q].job # 0 => status'[polls'[q].job] # "none"
    BY <1>0, <2>1, <2>3 DEF Existing
  <2>. QED
    BY <2>3, <2>5, <2>6, <2>7 DEF Existing
<1>3. ASSUME Send(current, 0), UNCHANGED <<scans, status, current>> PROVE Existing'
  <2>1. current \in 0..MaxScans /\ (current # 0 => status[current] # "none")
    BY DEF TypeOk, Existing
  <2>2. \A p \in Slots : polls'[p].job # 0 => status[polls'[p].job] # "none"
    BY <1>3, <2>1, AskStep
  <2>. QED
    BY <1>3, <2>2 DEF Existing
<1>4. ASSUME NEW p \in Slots, ServerAnswers(p) \/ Arrive(p) PROVE Existing'
  <2>1. \A q \in Slots : polls'[q].job \in {0, polls[q].job}
    <3>1. CASE ServerAnswers(p)
      <4>1. PICK a : polls' = [polls EXCEPT ![p].answer = a]
        BY <3>1 DEF ServerAnswers
      <4>. QED
        BY <4>1, Answered
    <3>2. CASE Arrive(p)
      BY <3>2 DEF Arrive, Free, TypeOk
    <3>. QED
      BY <1>4, <3>1, <3>2
  <2>2. \A j \in Jobs : scans'[j] \in {"polling", "done"} => scans[j] \in {"polling", "done"}
    <3>1. CASE ServerAnswers(p)
      BY <3>1 DEF ServerAnswers
    <3>2. CASE Arrive(p)
      <4>1. polls[p].by # 0 => scans[polls[p].by] = "polling"
        BY DEF Requests
      <4>. QED
        BY <3>2, <4>1 DEF Arrive, TypeOk
    <3>. QED
      BY <1>4, <3>1, <3>2
  <2>3. current' \in {0, current} /\ UNCHANGED status
    BY <1>4 DEF ServerAnswers, Arrive, Show
  <2>. QED
    BY <2>1, <2>2, <2>3 DEF Existing
<1>5. ASSUME UNCHANGED <<scans, polls, current>>,
             \A j \in Jobs : status[j] # "none" => status'[j] # "none"
      PROVE  Existing'
  BY <1>0, <1>a, <1>5 DEF Existing
<1>6. ASSUME NEW i \in Jobs, ServerMoves(i) PROVE Existing'
  BY <1>5, <1>6 DEF ServerMoves, TypeOk
<1>7. ASSUME ServerCancels PROVE Existing'
  BY <1>5, <1>7 DEF ServerCancels, TypeOk
<1>8. ASSUME NEW i \in Jobs, Tick(i) PROVE Existing'
  BY <1>3, <1>8 DEF Tick
<1>9. ASSUME CancelAnswered PROVE Existing'
  BY <1>3, <1>9 DEF CancelAnswered
<1>10. ASSUME ClickCancel \/ CancelFails \/ UNCHANGED vars PROVE Existing'
  BY <1>5, <1>10 DEF ClickCancel, CancelFails, vars
<1>. QED
  BY <1>1, <1>2, <1>4, <1>6, <1>7, <1>8, <1>9, <1>10 DEF Next

-----------------------------------------------------------------------------
(* The watching of the last scan. *)

\* While no calls of scan() have overlapped, a scan that waits for its first poll
\* is the only one that counts.
LEMMA OnlyPolling ==
  ASSUME InOrder, ~overlapped, NEW b \in Jobs, scans[b] = "polling"
  PROVE  /\ live = {} /\ ~Superseded(b)
         /\ \A i \in Jobs : scans[i] \in {"polling", "done"} /\ ~Superseded(i) => i = b
<1>1. \A k \in Jobs : b < k => scans[k] = "idle"
  BY DEF InOrder, InScan
<1>2. live = {}
  BY DEF InOrder
<1>3. ~Superseded(b)
  BY <1>1 DEF Superseded
<1>4. ASSUME NEW i \in Jobs, scans[i] \in {"polling", "done"}, ~Superseded(i) PROVE i = b
  <2>1. ~(b < i)
    BY <1>1, <1>4
  <2>2. ~(i < b)
    BY <1>4 DEF Superseded
  <2>. QED
    BY <2>1, <2>2
<1>. QED
  BY <1>2, <1>3, <1>4

\* What the steps that neither start a scan nor handle an answer leave alone.
LEMMA WatchFrame ==
  ASSUME InOrder, OneTimer, Watched,
         UNCHANGED <<scans, current, timer, live, ended, disturbed, overlapped>>
  PROVE  InOrder' /\ OneTimer' /\ Watched'
<1>1. InOrder'
  BY DEF InOrder, InScan
<1>2. OneTimer'
  BY DEF OneTimer
<1>3. Watched'
  BY DEF Watched, Superseded
<1>. QED
  BY <1>1, <1>2, <1>3

\* A click begins the scan after the last: no scan is under way, or calls overlap.
LEMMA WatchClick ==
  ASSUME TypeOk, InOrder, OneTimer, Watched, NEW i \in Jobs, Click(i)
  PROVE  InOrder' /\ OneTimer' /\ Watched'
<1>1. /\ scans[i] = "idle" /\ \A k \in 1..(i - 1) : scans[k] # "idle"
      /\ scans' = [scans EXCEPT ![i] = "posting"]
      /\ overlapped' = (overlapped \/ \E k \in Jobs : InScan(k))
      /\ UNCHANGED <<current, timer, live, ended, disturbed>>
  BY DEF Click
<1>2. scans'[i] = "posting" /\ \A j \in Jobs : j # i => scans'[j] = scans[j]
  BY <1>1 DEF TypeOk
<1>3. ~overlapped' => ~overlapped /\ \A k \in Jobs : ~InScan(k)
  BY <1>1
<1>4. \A j, k \in Jobs : j < k /\ scans'[j] = "idle" => scans'[k] = "idle"
  BY <1>1, <1>2 DEF InOrder
<1>5. ~overlapped' => \A j, k \in Jobs : InScan(j)' /\ j < k => scans'[k] = "idle"
  BY <1>1, <1>2, <1>3 DEF InOrder, InScan
<1>6. ~overlapped' => \A j \in Jobs : scans'[j] # "polling"
  BY <1>2, <1>3 DEF InScan
<1>7. OneTimer'
  BY <1>1, <1>3 DEF OneTimer
<1>8. Watched'
  BY <1>1, <1>2, <1>3 DEF Watched, Superseded
<1>. QED
  BY <1>4, <1>5, <1>6, <1>7, <1>8 DEF InOrder

\* A refused scan ends as if it had not begun.
LEMMA WatchRefused ==
  ASSUME TypeOk, InOrder, OneTimer, Watched, NEW i \in Jobs, Refused(i)
  PROVE  InOrder' /\ OneTimer' /\ Watched'
<1>1. /\ scans[i] = "posting"
      /\ scans' = [scans EXCEPT ![i] = "refused"]
      /\ UNCHANGED <<current, timer, live, ended, disturbed, overlapped>>
  BY DEF Refused, history
<1>2. scans'[i] = "refused" /\ \A j \in Jobs : j # i => scans'[j] = scans[j]
  BY <1>1 DEF TypeOk
<1>3. InOrder'
  BY <1>1, <1>2 DEF InOrder, InScan
<1>4. OneTimer'
  BY <1>1 DEF OneTimer
<1>5. Watched'
  BY <1>1, <1>2 DEF Watched, Superseded
<1>. QED
  BY <1>3, <1>4, <1>5

\* The only interval is cleared; the new scan is the last, and its job current.
LEMMA WatchStarted ==
  ASSUME TypeOk, InOrder, OneTimer, NEW i \in Jobs, Started(i)
  PROVE  InOrder' /\ OneTimer' /\ Watched'
<1>1. /\ scans[i] = "posting"
      /\ scans' = [scans EXCEPT ![i] = "polling"]
      /\ current' = i /\ live' = live \ {timer}
      /\ UNCHANGED <<timer, ended, overlapped>>
  BY DEF Started
<1>2. scans'[i] = "polling" /\ \A j \in Jobs : j # i => scans'[j] = scans[j]
  BY <1>1 DEF TypeOk
<1>3. ~overlapped => live' = {}
  BY <1>1 DEF OneTimer
<1>4. InOrder'
  <2>1. \A j, k \in Jobs : j < k /\ scans'[j] = "idle" => scans'[k] = "idle"
    BY <1>1, <1>2 DEF InOrder
  <2>2. ~overlapped => \A j, k \in Jobs : InScan(j)' /\ j < k => scans'[k] = "idle"
    BY <1>1, <1>2 DEF InOrder, InScan
  <2>. QED
    BY <1>1, <1>3, <2>1, <2>2 DEF InOrder
<1>5. OneTimer'
  BY <1>1, <1>3 DEF OneTimer
<1>6. ASSUME ~overlapped, NEW j \in Jobs, scans'[j] \in {"polling", "done"}, ~Superseded(j)'
      PROVE  j = i
  <2>1. \A k \in Jobs : i < k => scans[k] = "idle"
    BY <1>1, <1>6 DEF InOrder, InScan
  <2>2. ~(i < j)
    BY <1>2, <1>6, <2>1
  <2>3. ~(j < i)
    BY <1>2, <1>6 DEF Superseded
  <2>. QED
    BY <2>2, <2>3
<1>7. Watched'
  BY <1>1, <1>2, <1>6 DEF Watched
<1>. QED
  BY <1>4, <1>5, <1>7

\* An answer to the first poll: its scan, the last, sets the only interval; its
\* job stays current unless its own end is shown or another's is.
LEMMA WatchFirst ==
  ASSUME TypeOk, Requests, InOrder, OneTimer, Watched,
         NEW p \in Slots, Arrive(p), polls[p].by # 0
  PROVE  InOrder' /\ OneTimer' /\ Watched'
<1>. DEFINE b == polls[p].by
            answer == polls[p].answer
<1>1. b \in Jobs /\ scans[b] = "polling"
  BY Fields DEF Requests
<1>2. /\ timer' = b /\ scans' = [scans EXCEPT ![b] = "done"]
      /\ live' \subseteq live \cup {b} /\ b \in live'
      /\ current' = IF answer \in Terminal THEN 0 ELSE current
      /\ ended' = IF answer \in Terminal THEN ended \cup {polls[p].job} ELSE ended
      /\ disturbed' = \/ disturbed
                      \/ answer = "error" /\ \A i \in Jobs : scans[i] # "polling"
                      \/ answer \in Terminal /\ current \notin {0, polls[p].job}
      /\ overlapped' = overlapped
  BY DEF Arrive, Show
<1>. HIDE DEF b, answer
<1>3. scans'[b] = "done" /\ \A j \in Jobs : j # b => scans'[j] = scans[j]
  BY <1>1, <1>2 DEF TypeOk
<1>4. ~overlapped => /\ live = {} /\ ~Superseded(b)
                     /\ \A i \in Jobs : scans[i] \in {"polling", "done"} /\ ~Superseded(i)
                                       => i = b
                     /\ \A k \in Jobs : k # b => scans[k] # "polling"
  <2>1. ASSUME ~overlapped, NEW k \in Jobs, k # b PROVE scans[k] # "polling"
    <3>1. b < k => scans[k] = "idle"
      BY <1>1, <2>1 DEF InOrder, InScan
    <3>2. k < b /\ scans[k] = "polling" => scans[b] = "idle"
      BY <1>1, <2>1 DEF InOrder, InScan
    <3>. QED
      BY <1>1, <2>1, <3>1, <3>2
  <2>. QED
    BY <1>1, <2>1, OnlyPolling
<1>5. InOrder'
  <2>1. \A j, k \in Jobs : j < k /\ scans'[j] = "idle" => scans'[k] = "idle"
    BY <1>1, <1>3 DEF InOrder
  <2>2. ~overlapped => \A j, k \in Jobs : InScan(j)' /\ j < k => scans'[k] = "idle"
    BY <1>1, <1>3 DEF InOrder, InScan
  <2>3. ~overlapped => \A j \in Jobs : scans'[j] # "polling"
    BY <1>3, <1>4
  <2>. QED
    BY <1>2, <2>1, <2>2, <2>3 DEF InOrder
<1>6. OneTimer'
  BY <1>2, <1>4 DEF OneTimer
<1>7. \A i \in Jobs : /\ (scans'[i] \in {"polling", "done"}) = (scans[i] \in {"polling", "done"})
                     /\ Superseded(i)' = Superseded(i)
  <2>1. \A i \in Jobs : (scans'[i] \in {"polling", "done"}) = (scans[i] \in {"polling", "done"})
    BY <1>1, <1>3
  <2>. QED
    BY <2>1 DEF Superseded
<1>8. ASSUME ~disturbed', ~overlapped', NEW i \in Jobs,
             scans'[i] \in {"polling", "done"}, ~Superseded(i)', i \notin ended'
      PROVE  current' = i /\ timer' = i /\ timer' \in live'
  <2>1. i = b
    BY <1>2, <1>4, <1>7, <1>8
  <2>2. ~disturbed /\ b \notin ended
    BY <1>2, <1>8, <2>1
  <2>3. current = b
    BY <1>1, <1>2, <1>4, <1>8, <2>2 DEF Watched
  <2>4. answer \notin Terminal
    <3>1. b # 0
      BY <1>1
    <3>. QED
      BY <1>2, <1>8, <2>1, <2>3, <3>1
  <2>. QED
    BY <1>2, <2>1, <2>3, <2>4
<1>9. Watched'
  BY <1>8 DEF Watched
<1>. QED
  BY <1>5, <1>6, <1>9

\* An answer to a later poll: an error or the end of a job clears the interval of
\* the last scan, and is known as the end of its job or as a disturbance.
LEMMA WatchLater ==
  ASSUME TypeOk, InOrder, OneTimer, Watched, NEW p \in Slots, Arrive(p), polls[p].by = 0
  PROVE  InOrder' /\ OneTimer' /\ Watched'
<1>. DEFINE answer == polls[p].answer
<1>1. /\ UNCHANGED <<scans, overlapped>>
      /\ timer' = IF answer = "running" THEN timer ELSE 0
      /\ live' = IF answer = "running" THEN live ELSE live \ {timer}
      /\ current' = IF answer \in Terminal THEN 0 ELSE current
      /\ ended' = IF answer \in Terminal THEN ended \cup {polls[p].job} ELSE ended
      /\ disturbed' = \/ disturbed
                      \/ answer = "error" /\ \A i \in Jobs : scans[i] # "polling"
                      \/ answer \in Terminal /\ current \notin {0, polls[p].job}
  BY DEF Arrive, Show
<1>2. answer \in Terminal \cup {"running", "error"}
  BY Fields DEF Arrive
<1>. HIDE DEF answer
<1>3. InOrder'
  BY <1>1 DEF InOrder, InScan
<1>4. OneTimer'
  BY <1>1 DEF OneTimer
<1>5. ASSUME ~disturbed', ~overlapped', NEW i \in Jobs,
             scans'[i] \in {"polling", "done"}, ~Superseded(i)', i \notin ended'
      PROVE  current' = i /\ (scans'[i] = "done" => timer' = i /\ timer' \in live')
  <2>1. /\ ~disturbed /\ ~overlapped /\ i \notin ended
        /\ scans[i] \in {"polling", "done"} /\ ~Superseded(i)
    BY <1>1, <1>5 DEF Superseded
  <2>2. current = i /\ (scans[i] = "done" => timer = i /\ timer \in live)
    BY <2>1 DEF Watched
  <2>3. i # 0
    OBVIOUS
  <2>4. answer \notin Terminal
    BY <1>1, <1>5, <2>2, <2>3
  <2>5. CASE answer = "running"
    BY <1>1, <2>2, <2>4, <2>5
  <2>6. CASE answer = "error"
    <3>1. PICK k \in Jobs : scans[k] = "polling"
      BY <1>1, <1>5, <2>6
    <3>2. scans[i] = "polling"
      BY <2>1, <3>1, OnlyPolling
    <3>. QED
      BY <1>1, <2>2, <2>4, <3>2
  <2>. QED
    BY <1>2, <2>4, <2>5, <2>6
<1>6. Watched'
  BY <1>5 DEF Watched
<1>. QED
  BY <1>3, <1>4, <1>6

-----------------------------------------------------------------------------
(* The invariant, and what follows from it. *)

\* The page as it is loaded.
LEMMA InvInit == Init => IInv
<1>. SUFFICES ASSUME Init PROVE IInv
  OBVIOUS
<1>1. \A i \in Jobs : scans[i] = "idle"
  BY DEF Init
<1>2. \A p \in Slots : polls[p].job = 0 /\ polls[p].by = 0 /\ polls[p].answer = "free"
  BY DEF Init, Free
<1>3. TypeOk
  <2>1. Free \in Request
    BY DEF Free, Request
  <2>2. polls \in [Slots -> Request]
    BY <2>1 DEF Init
  <2>3. cancel \in [job : 0..MaxScans, answered : BOOLEAN]
    BY DEF Init, NoCancel
  <2>4. panel \in [job : 0..MaxScans, shows : Terminal \cup
                       {"nothing", "starting", "running", "error"}]
    BY DEF Init
  <2>5. /\ status \in [Jobs -> Terminal \cup {"none", "running"}]
        /\ scans \in [Jobs -> {"idle", "posting", "refused", "polling", "done"}]
        /\ current \in 0..MaxScans /\ timer \in 0..MaxScans /\ errors \in 0..MaxErrors
    BY DEF Init
  <2>6. live \subseteq Jobs /\ ended \subseteq Jobs
        /\ disturbed \in BOOLEAN /\ overlapped \in BOOLEAN
    BY DEF Init
  <2>. QED
    BY <2>2, <2>3, <2>4, <2>5, <2>6 DEF TypeOk
<1>4. Requests
  BY <1>2 DEF Requests
<1>5. Existing
  BY <1>1, <1>2 DEF Existing, Init
<1>6. InOrder
  BY <1>1 DEF InOrder, InScan
<1>7. OneTimer /\ Watched
  BY <1>1 DEF OneTimer, Watched, Init
<1>. QED
  BY <1>3, <1>4, <1>5, <1>6, <1>7 DEF IInv

\* Every callback, and every step of the server, keeps it.
LEMMA InvStep == IInv /\ [Next]_vars => IInv'
<1>. SUFFICES ASSUME IInv, [Next]_vars PROVE IInv'
  OBVIOUS
<1>1. TypeOk /\ Requests /\ Existing /\ InOrder /\ OneTimer /\ Watched
  BY DEF IInv
<1>2. TypeOk' /\ Requests' /\ Existing'
  BY <1>1, TypeStep, RequestsStep, ExistingStep
<1>. DEFINE Goal == InOrder' /\ OneTimer' /\ Watched'
<1>3. ASSUME NEW i \in Jobs, Click(i) PROVE Goal
  BY <1>1, <1>3, WatchClick
<1>4. ASSUME NEW i \in Jobs, Refused(i) PROVE Goal
  BY <1>1, <1>4, WatchRefused
<1>5. ASSUME NEW i \in Jobs, Started(i) PROVE Goal
  BY <1>1, <1>5, WatchStarted
<1>6. ASSUME NEW p \in Slots, Arrive(p) PROVE Goal
  BY <1>1, <1>6, WatchFirst, WatchLater
<1>7. ASSUME \/ \E i \in Jobs : Tick(i) \/ ServerMoves(i)
             \/ \E p \in Slots : ServerAnswers(p)
             \/ ClickCancel \/ ServerCancels \/ CancelAnswered \/ CancelFails
             \/ UNCHANGED vars
      PROVE  Goal
  <2>1. UNCHANGED <<scans, current, timer, live, ended, disturbed, overlapped>>
    BY <1>7 DEF Tick, ServerMoves, ServerAnswers, ClickCancel, ServerCancels,
                CancelAnswered, CancelFails, history, vars
  <2>. QED
    BY <1>1, <2>1, WatchFrame
<1>8. Goal
  BY <1>3, <1>4, <1>5, <1>6, <1>7 DEF Next
<1>. QED
  BY <1>2, <1>8 DEF IInv

\* The inductive invariant holds of every run of the dashboard.
THEOREM Invariance == Spec => []IInv
BY InvInit, InvStep, PTL DEF Spec, Safe

\* The state keeps its shape (app.js:4, 550-551): in particular no answer is shown
\* for a job the server does not know, and only a job ends on the screen.
THEOREM TypeCorrect == Spec => []TypeOk
<1>1. IInv => TypeOk
  BY DEF IInv
<1>. QED
  BY <1>1, Invariance, PTL

\* No interval leaks while calls of scan() do not overlap (780-786): every one that
\* still fires is the one the program can clear, in whatever order answers come.
THEOREM NoTimerLeaks == Spec => []OneTimer
<1>1. IInv => OneTimer
  BY DEF IInv
<1>. QED
  BY <1>1, Invariance, PTL

\* The last scan is watched until its end is shown, or a disturbance is recorded.
THEOREM LastScanWatched == Spec => []Watched
<1>1. IInv => Watched
  BY DEF IInv
<1>. QED
  BY <1>1, Invariance, PTL
=============================================================================
