--------------------------- MODULE ScanQueueProofs ---------------------------
(***************************************************************************)
(* Proofs about ScanQueue, for every set of jobs and of cancel requests:   *)
(* its invariants, from IInv, and that it implements ScanService.  There   *)
(* each step of the code maps to a step of the service or to a stutter,    *)
(* and Line, the deque with what a rebuild has still to put back, is the   *)
(* service's waiting line.                                                 *)
(***************************************************************************)
EXTENDS ScanQueue, SequenceTheorems, TLAPS

-----------------------------------------------------------------------------
(* The items of a sequence under the operations of the deque *)

\* Nothing is in the empty queue.
LEMMA ItemsOfEmpty == Items(<<>>) = {} /\ Distinct(<<>>)
  BY DEF Items, Distinct

\* Queue.put adds its job and no other, and repeats none unless it was there.
LEMMA ItemsOfAppend ==
  ASSUME NEW S, NEW s \in Seq(S), NEW x \in S
  PROVE  /\ Append(s, x) \in Seq(S)
         /\ Append(s, x) # <<>> /\ Len(Append(s, x)) = Len(s) + 1
         /\ Items(Append(s, x)) = Items(s) \cup {x}
         /\ Distinct(s) /\ x \notin Items(s) => Distinct(Append(s, x))
<1> DEFINE r == Append(s, x)
<1>1. /\ r \in Seq(S)
      /\ Len(r) = Len(s) + 1
      /\ r[Len(s) + 1] = x
      /\ \A i \in 1..Len(s) : r[i] = s[i]
      /\ Len(s) \in Nat
  OBVIOUS
<1>2. 1..Len(r) = (1..Len(s)) \cup {Len(s) + 1}
  BY <1>1
<1> HIDE DEF r
<1>3. Items(r) = Items(s) \cup {x}
  BY <1>1, <1>2 DEF Items
<1>4. Distinct(s) /\ x \notin Items(s) => Distinct(r)
  BY <1>1, <1>2 DEF Items, Distinct
<1>. QED
  BY <1>1, <1>3, <1>4 DEF r

\* popleft takes the head out and leaves the rest as it was.
LEMMA ItemsOfTail ==
  ASSUME NEW S, NEW s \in Seq(S), s # <<>>
  PROVE  /\ Head(s) \in S
         /\ Tail(s) \in Seq(S)
         /\ Len(Tail(s)) = Len(s) - 1
         /\ Items(s) = {Head(s)} \cup Items(Tail(s))
         /\ Distinct(s) => Distinct(Tail(s)) /\ Head(s) \notin Items(Tail(s))
<1> DEFINE r == Tail(s)
<1>1. /\ Len(s) \in Nat /\ Len(s) > 0
      /\ r \in Seq(S)
      /\ Len(r) = Len(s) - 1
      /\ Head(s) = s[1] /\ Head(s) \in S
      /\ \A i \in 1..Len(r) : r[i] = s[i + 1]
  OBVIOUS
<1> HIDE DEF r
<1>2. Items(s) = {Head(s)} \cup Items(r)
  <2>1. ASSUME NEW x \in Items(s) PROVE x \in {Head(s)} \cup Items(r)
    <3>1. PICK i \in 1..Len(s) : x = s[i]
      BY <2>1 DEF Items
    <3>2. CASE i = 1
      BY <3>1, <3>2, <1>1
    <3>3. CASE i # 1
      <4>1. i - 1 \in 1..Len(r) /\ r[i - 1] = x
        BY <3>1, <3>3, <1>1
      <4>. QED  BY <4>1 DEF Items
    <3>. QED  BY <3>2, <3>3
  <2>2. ASSUME NEW x \in Items(r) PROVE x \in Items(s)
    <3>1. PICK i \in 1..Len(r) : x = r[i]
      BY <2>2 DEF Items
    <3>2. i + 1 \in 1..Len(s) /\ s[i + 1] = x
      BY <3>1, <1>1
    <3>. QED  BY <3>2 DEF Items
  <2>3. Head(s) \in Items(s)
    BY <1>1 DEF Items
  <2>. QED  BY <2>1, <2>2, <2>3
<1>3. ASSUME Distinct(s) PROVE Distinct(r) /\ Head(s) \notin Items(r)
  <2>1. \A i \in 1..Len(r) : i + 1 \in 1..Len(s) /\ r[i] = s[i + 1] /\ i + 1 # 1
    BY <1>1
  <2>2. Distinct(r)
    BY <1>3, <1>1, <2>1 DEF Distinct
  <2>3. Head(s) \notin Items(r)
    BY <1>3, <1>1, <2>1 DEF Distinct, Items
  <2>. QED  BY <2>2, <2>3
<1>. QED
  BY <1>1, <1>2, <1>3 DEF r

-----------------------------------------------------------------------------
(* Type correctness *)

\* Every step keeps the type invariant.
LEMMA TypeStep == TypeOk /\ [Next]_vars => TypeOk'
<1> SUFFICES ASSUME TypeOk, [Next]_vars PROVE TypeOk'
  OBVIOUS
<1> USE DEF TypeOk, jobVars, queueVars, workerVars, threadVars
<1>1. ASSUME NEW j \in Jobs, ScanAsync(j) PROVE TypeOk'
  BY <1>1 DEF ScanAsync, Statuses, WorkerStates
<1>2. CASE Get
  BY <1>2 DEF Get, WorkerStates
<1>3. CASE Pop
  <2>1. queue # <<>> => Head(queue) \in Jobs /\ Tail(queue) \in Seq(Jobs)
    BY ItemsOfTail
  <2>2. queue' \in Seq(Jobs) /\ cur' \in Jobs
    BY <1>3, <2>1 DEF Pop
  <2>. QED
    BY <1>3, <2>2 DEF Pop, WorkerStates
<1>4. CASE Skip
  BY <1>4 DEF Skip, WorkerStates
<1>5. CASE Begin
  BY <1>5 DEF Begin, StopCancelled, Statuses, WorkerStates
<1>6. CASE Start
  BY <1>6 DEF Start, Statuses, WorkerStates, Milestones
<1>7. CASE Phase
  <2>1. Following(at) \in Milestones
    BY DEF Following, Milestones
  <2>. QED
    BY <1>7, <2>1 DEF Phase, StopCancelled, Statuses, WorkerStates
<1>8. CASE EnterAnalysis
  BY <1>8 DEF EnterAnalysis, StopCancelled, Statuses, WorkerStates, Milestones
<1>9. CASE FinishAnalysis
  BY <1>9 DEF FinishAnalysis, Statuses, WorkerStates
<1>10. CASE AnalysisRaises \/ SaveRaises
  BY <1>10 DEF AnalysisRaises, SaveRaises, Fail, Statuses, WorkerStates
<1>11. CASE SaveScan
  BY <1>11 DEF SaveScan, WorkerStates
<1>12. CASE Publish
  BY <1>12 DEF Publish, Statuses, WorkerStates
<1>13. CASE Deliver
  BY <1>13 DEF Deliver, WorkerStates
<1>14. CASE TaskDone
  BY <1>14 DEF TaskDone, WorkerStates
<1>15. ASSUME NEW t \in Cancels, NEW j \in Jobs, CancelScan(t, j) PROVE TypeOk'
  BY <1>15 DEF CancelScan, MoveTo, ThreadStates
<1>16. ASSUME NEW t \in Cancels, RequestCancel(t) PROVE TypeOk'
  BY <1>16 DEF RequestCancel, MoveTo, ThreadStates
<1>17. ASSUME NEW t \in Cancels, Branch(t) PROVE TypeOk'
  BY <1>17 DEF Branch, MoveTo, ThreadStates
<1>18. ASSUME NEW t \in Cancels, Snapshot(t) PROVE TypeOk'
  BY <1>18 DEF Snapshot, MoveTo, ThreadStates
<1>19. ASSUME NEW t \in Cancels, Clear(t) PROVE TypeOk'
  BY <1>19 DEF Clear, MoveTo, AfterItem, ThreadStates
<1>20. ASSUME NEW t \in Cancels, PutBack(t) PROVE TypeOk'
  <2>1. rest[t] \in Seq(Jobs) /\ Head(rest[t]) \in Jobs /\ Tail(rest[t]) \in Seq(Jobs)
    BY <1>20, ItemsOfTail DEF PutBack
  <2>2. queue' \in Seq(Jobs)
    BY <1>20, <2>1, ItemsOfAppend DEF PutBack
  <2>3. AfterItem(Tail(rest[t])) \in ThreadStates
    BY DEF AfterItem, ThreadStates
  <2>. QED
    BY <1>20, <2>1, <2>2, <2>3 DEF PutBack, MoveTo
<1>21. ASSUME NEW t \in Cancels, MarkCancelled(t) PROVE TypeOk'
  BY <1>21 DEF MarkCancelled, MoveTo, Statuses, ThreadStates
<1>22. CASE UNCHANGED vars
  BY <1>22 DEF vars
<1>. QED
  BY <1>1, <1>2, <1>3, <1>4, <1>5, <1>6, <1>7, <1>8, <1>9, <1>10, <1>11, <1>12,
     <1>13, <1>14, <1>15, <1>16, <1>17, <1>18, <1>19, <1>20, <1>21, <1>22
     DEF Next, Worker, CancelStep

\* The initial state is well typed.
LEMMA InitTypes == Init => TypeOk
<1> SUFFICES ASSUME Init PROVE TypeOk
  OBVIOUS
<1>1. <<>> \in Seq(Jobs)
  OBVIOUS
<1>2. queue \in Seq(Jobs) /\ rest \in [Cancels -> Seq(Jobs)]
  BY <1>1 DEF Init
<1>3. at \in Milestones /\ worker \in WorkerStates /\ unfinished \in Nat
  BY DEF Init, Milestones, WorkerStates
<1>4. /\ status \in [Jobs -> Statuses]
      /\ thread \in [Cancels -> ThreadStates]
      /\ saved \in [Jobs -> Nat]
  BY DEF Init, Statuses, ThreadStates
<1>5. /\ cancel_requested \in [Jobs -> BOOLEAN]
      /\ result \in [Jobs -> BOOLEAN]
      /\ cur \in Jobs
      /\ target \in [Cancels -> Jobs]
      /\ overlap \in BOOLEAN
  BY DEF Init
<1>. QED
  BY <1>2, <1>3, <1>4, <1>5 DEF TypeOk

\* The model's state keeps its types in every execution of the scan queue.
THEOREM TypeCorrect == Spec => []TypeOk
  BY InitTypes, TypeStep, PTL DEF Spec

-----------------------------------------------------------------------------
(* What holds whatever overlaps *)

\* Every step keeps the unconditional facts about jobs and cancel requests.
LEMMA AlwaysStep == TypeOk /\ Always /\ [Next]_vars => Always'
<1> SUFFICES ASSUME TypeOk, Always, [Next]_vars PROVE Always'
  OBVIOUS
<1> USE DEF TypeOk, Always, CompletedIsStored, PuttingBack,
            jobVars, queueVars, workerVars, threadVars
<1>1. ASSUME NEW j \in Jobs, ScanAsync(j) PROVE Always'
  BY <1>1 DEF ScanAsync
<1>2. CASE Get
  BY <1>2 DEF Get
<1>3. CASE Pop
  BY <1>3 DEF Pop
<1>4. CASE Skip
  BY <1>4 DEF Skip
<1>5. CASE Begin
  BY <1>5 DEF Begin, StopCancelled
<1>6. CASE Start
  BY <1>6 DEF Start
<1>7. CASE Phase
  BY <1>7 DEF Phase, StopCancelled
<1>8. CASE EnterAnalysis
  BY <1>8 DEF EnterAnalysis, StopCancelled
<1>9. CASE FinishAnalysis
  BY <1>9 DEF FinishAnalysis
<1>10. CASE AnalysisRaises \/ SaveRaises
  BY <1>10 DEF AnalysisRaises, SaveRaises, Fail
<1>11. CASE SaveScan
  BY <1>11 DEF SaveScan
<1>12. CASE Publish
  BY <1>12 DEF Publish
<1>13. CASE Deliver
  BY <1>13 DEF Deliver
<1>14. CASE TaskDone
  BY <1>14 DEF TaskDone
<1>15. ASSUME NEW t \in Cancels, NEW j \in Jobs, CancelScan(t, j) PROVE Always'
  BY <1>15 DEF CancelScan, MoveTo
<1>16. ASSUME NEW t \in Cancels, RequestCancel(t) PROVE Always'
  BY <1>16 DEF RequestCancel, MoveTo
<1>17. ASSUME NEW t \in Cancels, Branch(t) PROVE Always'
  BY <1>17 DEF Branch, MoveTo
<1>18. ASSUME NEW t \in Cancels, Snapshot(t) PROVE Always'
  BY <1>18 DEF Snapshot, MoveTo
<1>19. ASSUME NEW t \in Cancels, Clear(t) PROVE Always'
  BY <1>19 DEF Clear, MoveTo, AfterItem
<1>20. ASSUME NEW t \in Cancels, PutBack(t) PROVE Always'
  BY <1>20, ItemsOfTail DEF PutBack, MoveTo, AfterItem
<1>21. ASSUME NEW t \in Cancels, MarkCancelled(t) PROVE Always'
  BY <1>21 DEF MarkCancelled, MoveTo
<1>22. CASE UNCHANGED vars
  BY <1>22 DEF vars
<1>. QED
  BY <1>1, <1>2, <1>3, <1>4, <1>5, <1>6, <1>7, <1>8, <1>9, <1>10, <1>11, <1>12,
     <1>13, <1>14, <1>15, <1>16, <1>17, <1>18, <1>19, <1>20, <1>21, <1>22
     DEF Next, Worker, CancelStep
-----------------------------------------------------------------------------
(* What holds until two users of the deque overlap *)

\* A step that touches neither the deque nor the copies of it moves no job in
\* or out of the line.
LEMMA LineKept ==
  UNCHANGED <<queue, thread, rest>> => \A x \in Jobs : InLine(x)' <=> InLine(x)
  BY DEF InLine, PuttingBack

\* Every step of the worker inside a job, and every step of a cancel request
\* outside the rebuild, keeps the facts about the line itself.
LEMMA LineFactsKept ==
  ASSUME Undisturbed, UNCHANGED <<queue, thread, rest, unfinished>>,
         Held' = Held, worker # "pop", worker' # "pop"
  PROVE  Exclusive' /\ Counted'
  BY DEF Undisturbed, Exclusive, Counted, InRebuild, PuttingBack

\* Every step that leaves the sections on the deque apart keeps these facts.
LEMMA UndisturbedStep ==
  TypeOk /\ Always /\ Undisturbed /\ ~overlap /\ [Next]_vars /\ ~overlap' => Undisturbed'
<1> SUFFICES ASSUME TypeOk, Always, Undisturbed, ~overlap, [Next]_vars, ~overlap'
             PROVE Undisturbed'
  OBVIOUS
<1> USE DEF TypeOk, Always, Undisturbed, InStep, NothingLost, ServedOnce, WorkerServes,
            PuttingBack, Holding, Pending, jobVars, queueVars, workerVars, threadVars
<1>0. Holding => unfinished > 0 /\ Len(queue) \in Nat
  BY DEF Counted, Held
<1>1. ASSUME NEW j \in Jobs, ScanAsync(j) PROVE Undisturbed'
  <2>1. /\ ~SomeRebuild /\ queue' = Append(queue, j) /\ status[j] = "absent"
        /\ UNCHANGED <<thread, rest>>
    BY <1>1 DEF ScanAsync
  <2>2. j \notin Items(queue)
    BY <2>1 DEF InLine
  <2>a. queue \in Seq(Jobs) /\ Distinct(queue)
    OBVIOUS
  <2>3. Items(queue') = Items(queue) \cup {j} /\ Distinct(queue') /\ queue' # <<>>
    BY ONLY <2>1, <2>2, <2>a, ItemsOfAppend
  <2>4. \A t \in Cancels : thread'[t] # "append" /\ thread'[t] # "clear"
    BY <2>1 DEF SomeRebuild, InRebuild
  <2>5. \A x \in Jobs : InLine(x)' <=> InLine(x) \/ x = j
    BY <2>1, <2>3, <2>4 DEF InLine
  <2>6. Exclusive'
    BY <2>3, <2>4 DEF Exclusive, InRebuild
  <2>7. Counted'
    BY <1>1, <2>1, <2>4 DEF Counted, ScanAsync, Held
  <2>8. InStep' /\ NothingLost'
    BY <1>1, <2>5 DEF ScanAsync
  <2>9. ServedOnce'
    <3>1. Holding => cur # j
      BY <2>1
    <3>2. Holding' = Holding /\ Pending' = Pending /\ UNCHANGED <<cur, saved>>
      BY <1>1 DEF ScanAsync
    <3>. QED
      BY <2>1, <2>3, <2>4, <2>5, <3>1, <3>2
  <2>10. WorkerServes'
    BY <1>1, <2>5 DEF ScanAsync
  <2>. QED  BY <2>6, <2>7, <2>8, <2>9, <2>10
<1>2. CASE Get
  <2>1. ~SomeRebuild /\ UNCHANGED <<queue, thread, rest, status, cancel_requested,
                                    saved, cur, unfinished>>
    BY <1>2 DEF Get
  <2>2. \A t \in Cancels : thread[t] # "append" /\ thread[t] # "clear"
    BY <2>1 DEF SomeRebuild, InRebuild
  <2>3. \A x \in Jobs : InLine(x)' <=> InLine(x)
    BY <2>1, LineKept
  <2>4. queue = <<>> => \A x \in Jobs : ~InLine(x)
    BY <2>2, ItemsOfEmpty DEF InLine
  <2>5. Exclusive' /\ Counted'
    BY <1>2, <2>1, <2>2 DEF Exclusive, InRebuild, Counted, Get, Held
  <2>6. InStep' /\ NothingLost' /\ ServedOnce'
    BY <1>2, <2>1, <2>3 DEF Get
  <2>7. WorkerServes'
    BY <1>2, <2>1, <2>3, <2>4 DEF Get
  <2>. QED  BY <2>5, <2>6, <2>7
<1>3. CASE Pop
  <2>1. queue # <<>> /\ \A t \in Cancels : thread[t] # "append" /\ thread[t] # "clear"
    BY <1>3 DEF Pop, Exclusive, InRebuild
  <2>2. /\ worker' = "skip" /\ cur' = Head(queue) /\ queue' = Tail(queue)
        /\ UNCHANGED <<thread, rest, status, cancel_requested, saved, unfinished>>
    BY <1>3, <2>1 DEF Pop
  <2>3. /\ Items(queue) = {cur'} \cup Items(queue') /\ cur' \notin Items(queue')
        /\ Distinct(queue') /\ Len(queue') = Len(queue) - 1
    BY <2>1, <2>2, ItemsOfTail
  <2>4. \A x \in Jobs : InLine(x) <=> InLine(x)' \/ x = cur'
    BY <2>1, <2>2, <2>3 DEF InLine
  <2>5. \A x \in Jobs : x = cur' => ~InLine(x)'
    BY <2>1, <2>2, <2>3 DEF InLine
  <2>6. Exclusive' /\ Counted'
    BY <1>3, <2>1, <2>2, <2>3 DEF Exclusive, InRebuild, Counted, Held, Pop
  <2>7. cur' \in Jobs
    BY <2>1, <2>2, ItemsOfTail
  <2>8. InStep' /\ NothingLost'
    BY <1>3, <2>2, <2>4, <2>7 DEF Pop
  <2>9. ServedOnce'
    BY <1>3, <2>1, <2>2, <2>3, <2>4, <2>5, <2>7 DEF Pop
  <2>10. WorkerServes'
    BY <2>2
  <2>. QED  BY <2>6, <2>8, <2>9, <2>10
<1>4. CASE Skip
  <2>1. /\ UNCHANGED <<queue, thread, rest, unfinished, cur>>
        /\ worker # "pop" /\ worker' # "pop" /\ Held' = Held
    BY <1>4 DEF Skip, Held
  <2>2. Exclusive' /\ Counted'
    BY <2>1, LineFactsKept
  <2>3. \A x \in Jobs : InLine(x)' <=> InLine(x)
    BY <2>1, LineKept
  <2>4. InStep'
    BY <1>4, <2>1, <2>3 DEF Skip
  <2>5. NothingLost'
    BY <1>4, <2>1, <2>3 DEF Skip
  <2>6. ServedOnce'
    BY <1>4, <2>1, <2>3 DEF Skip
  <2>7. WorkerServes'
    BY <1>4, <1>0, <2>1, <2>3 DEF Skip
  <2>. QED  BY <2>2, <2>4, <2>5, <2>6, <2>7
<1>5. CASE worker \in {"begin", "phase"} /\ StopCancelled
  <2>1. /\ UNCHANGED <<queue, thread, rest, unfinished, cur>>
        /\ worker # "pop" /\ worker' # "pop" /\ Held' = Held
    BY <1>5 DEF StopCancelled, Held
  <2>2. Exclusive' /\ Counted'
    BY <2>1, LineFactsKept
  <2>3. \A x \in Jobs : InLine(x)' <=> InLine(x)
    BY <2>1, LineKept
  <2>4. InStep'
    BY <1>5, <2>1, <2>3 DEF StopCancelled
  <2>5. NothingLost'
    BY <1>5, <2>1, <2>3 DEF StopCancelled
  <2>6. ServedOnce'
    BY <1>5, <2>1, <2>3 DEF StopCancelled
  <2>7. WorkerServes'
    BY <1>5, <1>0, <2>1, <2>3 DEF StopCancelled
  <2>. QED  BY <2>2, <2>4, <2>5, <2>6, <2>7
<1>6. CASE Begin /\ ~StopCancelled
  <2>1. /\ UNCHANGED <<queue, thread, rest, unfinished, cur>>
        /\ worker # "pop" /\ worker' # "pop" /\ Held' = Held
    BY <1>6 DEF Begin, Held
  <2>2. Exclusive' /\ Counted'
    BY <2>1, LineFactsKept
  <2>3. \A x \in Jobs : InLine(x)' <=> InLine(x)
    BY <2>1, LineKept
  <2>4. InStep'
    BY <1>6, <2>1, <2>3 DEF Begin
  <2>5. NothingLost'
    BY <1>6, <2>1, <2>3 DEF Begin
  <2>6. ServedOnce'
    BY <1>6, <2>1, <2>3 DEF Begin
  <2>7. WorkerServes'
    BY <1>6, <1>0, <2>1, <2>3 DEF Begin
  <2>. QED  BY <2>2, <2>4, <2>5, <2>6, <2>7
<1>7. CASE Start
  <2>1. /\ UNCHANGED <<queue, thread, rest, unfinished, cur>>
        /\ worker # "pop" /\ worker' # "pop" /\ Held' = Held
    BY <1>7 DEF Start, Held
  <2>2. Exclusive' /\ Counted'
    BY <2>1, LineFactsKept
  <2>3. \A x \in Jobs : InLine(x)' <=> InLine(x)
    BY <2>1, LineKept
  <2>4. InStep'
    BY <1>7, <2>1, <2>3 DEF Start
  <2>5. NothingLost'
    BY <1>7, <2>1, <2>3 DEF Start
  <2>6. ServedOnce'
    BY <1>7, <2>1, <2>3 DEF Start
  <2>7. WorkerServes'
    BY <1>7, <1>0, <2>1, <2>3 DEF Start
  <2>. QED  BY <2>2, <2>4, <2>5, <2>6, <2>7
<1>8. CASE (Phase \/ EnterAnalysis) /\ ~StopCancelled
  <2>1. /\ UNCHANGED <<queue, thread, rest, unfinished, cur>>
        /\ worker # "pop" /\ worker' # "pop" /\ Held' = Held
    BY <1>8 DEF Phase, EnterAnalysis, Held
  <2>2. Exclusive' /\ Counted'
    BY <2>1, LineFactsKept
  <2>3. \A x \in Jobs : InLine(x)' <=> InLine(x)
    BY <2>1, LineKept
  <2>4. InStep'
    BY <1>8, <2>1, <2>3 DEF Phase, EnterAnalysis
  <2>5. NothingLost'
    BY <1>8, <2>1, <2>3 DEF Phase, EnterAnalysis
  <2>6. ServedOnce'
    BY <1>8, <2>1, <2>3 DEF Phase, EnterAnalysis
  <2>7. WorkerServes'
    BY <1>8, <1>0, <2>1, <2>3 DEF Phase, EnterAnalysis
  <2>. QED  BY <2>2, <2>4, <2>5, <2>6, <2>7
<1>9. CASE FinishAnalysis
  <2>1. /\ UNCHANGED <<queue, thread, rest, unfinished, cur>>
        /\ worker # "pop" /\ worker' # "pop" /\ Held' = Held
    BY <1>9 DEF FinishAnalysis, Held
  <2>2. Exclusive' /\ Counted'
    BY <2>1, LineFactsKept
  <2>3. \A x \in Jobs : InLine(x)' <=> InLine(x)
    BY <2>1, LineKept
  <2>4. InStep'
    BY <1>9, <2>1, <2>3 DEF FinishAnalysis
  <2>5. NothingLost'
    BY <1>9, <2>1, <2>3 DEF FinishAnalysis
  <2>6. ServedOnce'
    BY <1>9, <2>1, <2>3 DEF FinishAnalysis
  <2>7. WorkerServes'
    BY <1>9, <1>0, <2>1, <2>3 DEF FinishAnalysis
  <2>. QED  BY <2>2, <2>4, <2>5, <2>6, <2>7
<1>10. CASE worker \in {"analyze", "save"} /\ Fail
  <2>1. /\ UNCHANGED <<queue, thread, rest, unfinished, cur>>
        /\ worker # "pop" /\ worker' # "pop" /\ Held' = Held
    BY <1>10 DEF Fail, Held
  <2>2. Exclusive' /\ Counted'
    BY <2>1, LineFactsKept
  <2>3. \A x \in Jobs : InLine(x)' <=> InLine(x)
    BY <2>1, LineKept
  <2>4. InStep'
    BY <1>10, <2>1, <2>3 DEF Fail
  <2>5. NothingLost'
    BY <1>10, <2>1, <2>3 DEF Fail
  <2>6. ServedOnce'
    BY <1>10, <2>1, <2>3 DEF Fail
  <2>7. WorkerServes'
    BY <1>10, <1>0, <2>1, <2>3 DEF Fail
  <2>. QED  BY <2>2, <2>4, <2>5, <2>6, <2>7
<1>11. CASE SaveScan
  <2>1. /\ UNCHANGED <<queue, thread, rest, unfinished, cur>>
        /\ worker # "pop" /\ worker' # "pop" /\ Held' = Held
    BY <1>11 DEF SaveScan, Held
  <2>2. Exclusive' /\ Counted'
    BY <2>1, LineFactsKept
  <2>3. \A x \in Jobs : InLine(x)' <=> InLine(x)
    BY <2>1, LineKept
  <2>4. InStep'
    BY <1>11, <2>1, <2>3 DEF SaveScan
  <2>5. NothingLost'
    BY <1>11, <2>1, <2>3 DEF SaveScan
  <2>6. ServedOnce'
    BY <1>11, <2>1, <2>3 DEF SaveScan
  <2>7. WorkerServes'
    BY <1>11, <1>0, <2>1, <2>3 DEF SaveScan
  <2>. QED  BY <2>2, <2>4, <2>5, <2>6, <2>7
<1>12. CASE Publish
  <2>1. /\ UNCHANGED <<queue, thread, rest, unfinished, cur>>
        /\ worker # "pop" /\ worker' # "pop" /\ Held' = Held
    BY <1>12 DEF Publish, Held
  <2>2. Exclusive' /\ Counted'
    BY <2>1, LineFactsKept
  <2>3. \A x \in Jobs : InLine(x)' <=> InLine(x)
    BY <2>1, LineKept
  <2>4. InStep'
    BY <1>12, <2>1, <2>3 DEF Publish
  <2>5. NothingLost'
    BY <1>12, <2>1, <2>3 DEF Publish
  <2>6. ServedOnce'
    BY <1>12, <2>1, <2>3 DEF Publish
  <2>7. WorkerServes'
    BY <1>12, <1>0, <2>1, <2>3 DEF Publish
  <2>. QED  BY <2>2, <2>4, <2>5, <2>6, <2>7
<1>13. CASE Deliver
  <2>1. /\ UNCHANGED <<queue, thread, rest, unfinished, cur>>
        /\ worker # "pop" /\ worker' # "pop" /\ Held' = Held
    BY <1>13 DEF Deliver, Held
  <2>2. Exclusive' /\ Counted'
    BY <2>1, LineFactsKept
  <2>3. \A x \in Jobs : InLine(x)' <=> InLine(x)
    BY <2>1, LineKept
  <2>4. InStep'
    BY <1>13, <2>1, <2>3 DEF Deliver
  <2>5. NothingLost'
    BY <1>13, <2>1, <2>3 DEF Deliver
  <2>6. ServedOnce'
    BY <1>13, <2>1, <2>3 DEF Deliver
  <2>7. WorkerServes'
    BY <1>13, <1>0, <2>1, <2>3 DEF Deliver
  <2>. QED  BY <2>2, <2>4, <2>5, <2>6, <2>7
<1>14. CASE TaskDone
  <2>1. /\ unfinished > 0 /\ worker' = "get" /\ unfinished' = unfinished - 1
        /\ UNCHANGED <<queue, thread, rest, status, cancel_requested, saved, cur>>
    BY <1>14 DEF TaskDone
  <2>2. \A x \in Jobs : InLine(x)' <=> InLine(x)
    BY <2>1, LineKept
  <2>3. Exclusive' /\ Counted'
    BY <1>14, <2>1 DEF Exclusive, InRebuild, Counted, Held, TaskDone
  <2>4. InStep' /\ NothingLost' /\ ServedOnce' /\ WorkerServes'
    BY <1>14, <2>1, <2>2 DEF TaskDone
  <2>. QED  BY <2>3, <2>4
<1>15. ASSUME NEW t \in Cancels, NEW j \in Jobs, CancelScan(t, j) PROVE Undisturbed'
  <2>1. /\ UNCHANGED <<queue, rest, unfinished, worker, cur, saved>>
        /\ \A u \in Cancels : (InRebuild(u)' <=> InRebuild(u)) /\ (PuttingBack(u)' <=> PuttingBack(u))
    BY <1>15 DEF CancelScan, MoveTo, InRebuild
  <2>2. \A x \in Jobs : InLine(x)' <=> InLine(x)
    BY <2>1 DEF InLine
  <2>3. Exclusive' /\ Counted'
    BY <2>1 DEF Exclusive, InRebuild, Counted, Held
  <2>4. InStep' /\ NothingLost' /\ ServedOnce' /\ WorkerServes'
    BY <1>15, <2>1, <2>2 DEF CancelScan, MoveTo
  <2>. QED  BY <2>3, <2>4
<1>16. ASSUME NEW t \in Cancels, RequestCancel(t) PROVE Undisturbed'
  <2>1. /\ UNCHANGED <<queue, rest, unfinished, worker, cur, saved>>
        /\ \A u \in Cancels : (InRebuild(u)' <=> InRebuild(u)) /\ (PuttingBack(u)' <=> PuttingBack(u))
    BY <1>16 DEF RequestCancel, MoveTo, InRebuild
  <2>2. \A x \in Jobs : InLine(x)' <=> InLine(x)
    BY <2>1 DEF InLine
  <2>3. Exclusive' /\ Counted'
    BY <2>1 DEF Exclusive, InRebuild, Counted, Held
  <2>4. InStep' /\ NothingLost' /\ ServedOnce' /\ WorkerServes'
    BY <1>16, <2>1, <2>2 DEF RequestCancel, MoveTo
  <2>. QED  BY <2>3, <2>4
<1>17. ASSUME NEW t \in Cancels, Branch(t) PROVE Undisturbed'
  <2>1. /\ UNCHANGED <<queue, rest, unfinished, worker, cur, saved>>
        /\ \A u \in Cancels : (InRebuild(u)' <=> InRebuild(u)) /\ (PuttingBack(u)' <=> PuttingBack(u))
    BY <1>17 DEF Branch, MoveTo, InRebuild
  <2>2. \A x \in Jobs : InLine(x)' <=> InLine(x)
    BY <2>1 DEF InLine
  <2>3. Exclusive' /\ Counted'
    BY <2>1 DEF Exclusive, InRebuild, Counted, Held
  <2>4. InStep' /\ NothingLost' /\ ServedOnce' /\ WorkerServes'
    BY <1>17, <2>1, <2>2 DEF Branch, MoveTo
  <2>. QED  BY <2>3, <2>4
<1>18. ASSUME NEW t \in Cancels, Snapshot(t) PROVE Undisturbed'
  <2>1. /\ \A u \in Cancels : ~InRebuild(u)
        /\ worker # "pop"
        /\ UNCHANGED <<queue, unfinished, worker, cur, saved, status, cancel_requested>>
    BY <1>18 DEF Snapshot, SomeRebuild
  <2>2. /\ \A u \in Cancels : ~PuttingBack(u) /\ ~PuttingBack(u)'
        /\ \A u \in Cancels : InRebuild(u)' => u = t
        /\ rest'[t] = queue
    BY <1>18, <2>1 DEF Snapshot, MoveTo, InRebuild
  <2>3. \A x \in Jobs : InLine(x)' <=> InLine(x)
    BY <2>1, <2>2 DEF InLine
  <2>4. Exclusive'
    BY <2>1, <2>2 DEF Exclusive, InRebuild
  <2>5. Counted'
    BY <2>1, <2>2 DEF Counted, Held
  <2>6. InStep' /\ NothingLost' /\ ServedOnce' /\ WorkerServes'
    BY <2>1, <2>2, <2>3
  <2>. QED  BY <2>4, <2>5, <2>6
<1>19. ASSUME NEW t \in Cancels, Clear(t) PROVE Undisturbed'
  <2>1. /\ queue' = <<>> /\ rest[t] = queue /\ worker # "pop"
        /\ UNCHANGED <<rest, unfinished, worker, cur, saved, status, cancel_requested>>
    BY <1>19 DEF Clear, Exclusive, InRebuild
  <2>2. \A u \in Cancels : InRebuild(u) => u = t
    BY <1>19 DEF Clear, Exclusive, InRebuild
  <2>3. /\ \A u \in Cancels : ~PuttingBack(u)
        /\ \A u \in Cancels : thread'[u] # "clear"
        /\ \A u \in Cancels : InRebuild(u)' => u = t
        /\ \A u \in Cancels : PuttingBack(u)' <=> u = t /\ rest[t] # <<>>
    BY <1>19, <2>2 DEF Clear, MoveTo, AfterItem, InRebuild
  <2>4. \A x \in Jobs : InLine(x)' <=> InLine(x)
    BY <2>1, <2>3, ItemsOfEmpty DEF InLine
  <2>5. Exclusive'
    BY <2>1, <2>3 DEF Exclusive
  <2>6. Counted'
    BY <2>1, <2>3 DEF Counted, Held
  <2>7. InStep' /\ NothingLost' /\ WorkerServes'
    BY <2>1, <2>4
  <2>8. ServedOnce'
    BY <2>1, <2>3, <2>4, ItemsOfEmpty
  <2>. QED  BY <2>5, <2>6, <2>7, <2>8
<1>20. ASSUME NEW t \in Cancels, PutBack(t) PROVE Undisturbed'
  <2> DEFINE h == Head(rest[t])
  <2>1. /\ PuttingBack(t) /\ rest[t] # <<>> /\ worker # "pop"
        /\ \A u \in Cancels : InRebuild(u) => u = t
        /\ cancel_requested[target[t]]
    BY <1>20 DEF PutBack, Exclusive, InRebuild
  <2>2. /\ rest'[t] = Tail(rest[t])
        /\ UNCHANGED <<unfinished, worker, cur, saved, status, cancel_requested, target>>
        /\ queue' = IF h = target[t] THEN queue ELSE Append(queue, h)
    BY <1>20 DEF PutBack
  <2>3. /\ \A u \in Cancels : thread'[u] # "clear"
        /\ \A u \in Cancels : InRebuild(u)' => u = t
        /\ \A u \in Cancels : PuttingBack(u) <=> u = t
        /\ \A u \in Cancels : PuttingBack(u)' <=> u = t /\ rest'[t] # <<>>
    BY <1>20, <2>1, <2>2 DEF PutBack, MoveTo, AfterItem, InRebuild
  <2>4. /\ h \in Jobs /\ rest[t] \in Seq(Jobs) /\ rest'[t] \in Seq(Jobs)
        /\ Len(rest'[t]) = Len(rest[t]) - 1
        /\ Items(rest[t]) = {h} \cup Items(rest'[t])
        /\ Distinct(rest'[t]) /\ h \notin Items(rest'[t])
    BY <2>1, <2>2, ItemsOfTail
  <2>5. h \notin Items(queue) /\ Items(queue) \cap Items(rest'[t]) = {}
    BY <2>1, <2>4
  <2> HIDE DEF h
  <2>6. /\ Items(queue') = IF h = target[t] THEN Items(queue) ELSE Items(queue) \cup {h}
        /\ Distinct(queue')
        /\ Len(queue) \in Nat
        /\ Len(queue') = Len(queue) \/ Len(queue') = Len(queue) + 1
    <3>1. CASE h = target[t]
      BY <2>2, <3>1
    <3>2. CASE h # target[t]
      <4>1. queue' = Append(queue, h)
        BY <2>2, <3>2
      <4>. QED  BY <2>4, <2>5, <3>2, <4>1, ItemsOfAppend
    <3>. QED  BY <3>1, <3>2
  <2>7. \A x \in Jobs : InLine(x) <=> x \in Items(queue) \/ x \in Items(rest[t])
    BY <2>3 DEF InLine
  <2>8. \A x \in Jobs : InLine(x)' <=> x \in Items(queue') \/ x \in Items(rest'[t])
    BY <2>3, ItemsOfEmpty DEF InLine
  <2>9. \A x \in Jobs : InLine(x)' <=> InLine(x) /\ (x = h => h # target[t])
    BY <2>4, <2>5, <2>6, <2>7, <2>8
  <2>10. Exclusive'
    BY <2>1, <2>2, <2>3 DEF Exclusive
  <2>11. Counted'
    <3>1. Len(rest[t]) \in Nat /\ unfinished >= Len(queue) + Len(rest[t]) + Held
      BY <2>1, <2>4 DEF Counted
    <3>2. Held' = Held /\ Held \in Nat
      BY <2>2 DEF Held
    <3>3. Len(rest'[t]) = Len(rest[t]) - 1 /\ Len(rest'[t]) \in Nat /\ unfinished' = unfinished
      BY <2>2, <2>4
    <3>4. unfinished' >= Len(queue') + Len(rest'[t]) + Held'
      BY <2>6, <3>1, <3>2, <3>3
    <3>5. unfinished' >= Len(queue') + Held'
      BY <2>6, <3>2, <3>3, <3>4
    <3>6. \A u \in Cancels : PuttingBack(u)' => u = t
      BY <2>3
    <3>. QED  BY <3>4, <3>5, <3>6 DEF Counted
  <2>12. InStep' /\ WorkerServes'
    BY <2>2, <2>9
  <2>13. NothingLost'
    BY <2>1, <2>2, <2>9
  <2>14. Items(rest'[t]) \cap Items(queue') = {}
    BY <2>4, <2>5, <2>6
  <2>15. ServedOnce'
    <3>1. Holding' = Holding /\ Pending' = Pending
      BY <2>2
    <3>2. \A u \in Cancels : PuttingBack(u)' =>
             Distinct(rest'[u]) /\ Items(rest'[u]) \cap Items(queue') = {}
      BY <2>3, <2>4, <2>14
    <3>3. \A x \in Jobs : InLine(x)' => InLine(x)
      BY <2>9
    <3>. QED  BY <2>2, <2>6, <3>1, <3>2, <3>3
  <2>. QED  BY <2>10, <2>11, <2>12, <2>13, <2>15
<1>21. ASSUME NEW t \in Cancels, MarkCancelled(t) PROVE Undisturbed'
  <2>1. /\ UNCHANGED <<queue, rest, unfinished, worker, cur, saved>>
        /\ \A u \in Cancels : (InRebuild(u)' <=> InRebuild(u)) /\ (PuttingBack(u)' <=> PuttingBack(u))
    BY <1>21 DEF MarkCancelled, MoveTo, InRebuild
  <2>2. \A x \in Jobs : InLine(x)' <=> InLine(x)
    BY <2>1 DEF InLine
  <2>3. Exclusive' /\ Counted'
    BY <2>1 DEF Exclusive, InRebuild, Counted, Held
  <2>4. InStep' /\ NothingLost' /\ ServedOnce' /\ WorkerServes'
    BY <1>21, <2>1, <2>2 DEF MarkCancelled, MoveTo
  <2>. QED  BY <2>3, <2>4
<1>22. CASE UNCHANGED vars
  BY <1>22 DEF vars, InLine, Exclusive, InRebuild, Counted, Held
<1>23. CASE Worker
  BY <1>23, <1>2, <1>3, <1>4, <1>5, <1>6, <1>7, <1>8, <1>9, <1>10, <1>11, <1>12,
     <1>13, <1>14
     DEF Worker, Begin, Phase, EnterAnalysis, AnalysisRaises, SaveRaises
<1>. QED
  BY <1>1, <1>15, <1>16, <1>17, <1>18, <1>19, <1>20, <1>21, <1>22, <1>23
     DEF Next, CancelStep
-----------------------------------------------------------------------------
(* The invariants *)

\* Nothing takes an overlap back.
LEMMA OverlapStays == [Next]_vars /\ ~overlap' => ~overlap
  BY DEF Next, vars, Worker, CancelStep, ScanAsync, Get, Pop, Skip, Begin, Start, Phase,
         EnterAnalysis, FinishAnalysis, AnalysisRaises, SaveRaises, Fail, SaveScan, Publish,
         Deliver, TaskDone, StopCancelled, CancelScan, RequestCancel, Branch, Snapshot,
         Clear, PutBack, MarkCancelled

\* The inductive invariant holds in every execution of the scan queue.
THEOREM Invariance == Spec => []IInv
<1>1. ASSUME Init PROVE IInv
  <2>1. TypeOk
    BY <1>1, InitTypes
  <2>2. Always
    BY <1>1 DEF Init, Always, CompletedIsStored, PuttingBack
  <2>3. \A x \in Jobs : ~InLine(x)
    BY <1>1, ItemsOfEmpty DEF Init, InLine, PuttingBack
  <2>4. Exclusive /\ Counted
    BY <1>1 DEF Init, Exclusive, InRebuild, Counted, PuttingBack, Held, Holding
  <2>5. InStep /\ NothingLost /\ WorkerServes
    BY <1>1, <2>3 DEF Init, InStep, NothingLost, WorkerServes, Holding
  <2>6. ServedOnce
    BY <1>1, <2>3, ItemsOfEmpty DEF Init, ServedOnce, PuttingBack, Holding, Pending
  <2>. QED
    BY <2>1, <2>2, <2>4, <2>5, <2>6 DEF IInv, Undisturbed
<1>2. IInv /\ [Next]_vars => IInv'
  BY TypeStep, AlwaysStep, UndisturbedStep, OverlapStays DEF IInv
<1>. QED
  BY <1>1, <1>2, PTL DEF Spec

\* While no two users of the deque overlap, a queued job is never lost (main.py
\* 418-431).
THEOREM NoJobIsLost == Spec => []NothingLost
<1>1. IInv => NothingLost
  BY DEF IInv, Undisturbed, NothingLost
<1>. QED
  BY <1>1, Invariance, PTL

\* While no two users of the deque overlap, no job stands in line twice and none is
\* run or stored twice (main.py 413-431, 546-586, 806-911).
THEOREM NoJobIsServedTwice == Spec => []ServedOnce
<1>1. IInv => ServedOnce
  BY DEF IInv, Undisturbed, ServedOnce
<1>. QED
  BY <1>1, Invariance, PTL

\* While no two users of the deque overlap, the worker task neither dies nor sleeps
\* beside a waiting job (main.py 413-431, 546-586).
THEOREM TheWorkerServes == Spec => []WorkerServes
<1>1. IInv => WorkerServes
  BY DEF IInv, Undisturbed, WorkerServes
<1>. QED
  BY <1>1, Invariance, PTL

\* Whatever overlaps, a job shown as completed was stored (main.py 869-877).
THEOREM CompletedWasStored == Spec => []CompletedIsStored
<1>1. IInv => CompletedIsStored
  BY DEF IInv, Always
<1>. QED
  BY <1>1, Invariance, PTL

\* A step that changes a finished job's status before any overlap.
LEMMA FinalStep ==
  ASSUME IInv, [Next]_vars, NEW j \in Jobs, Terminal(j), status'[j] # status[j], ~overlap
  PROVE  /\ cancel_requested[j]
         /\ status[j] # "cancelled" => status'[j] = "cancelled"
<1>. DEFINE Only == /\ cancel_requested[j]
                    /\ status[j] # "cancelled" => status'[j] = "cancelled"
<1>. USE DEF IInv, TypeOk, Always, Undisturbed, InStep, Terminal, jobVars,
        queueVars, workerVars, threadVars
<1>1. ASSUME NEW k \in Jobs, ScanAsync(k) PROVE Only
  BY <1>1 DEF ScanAsync
<1>2. CASE Get \/ Pop \/ Skip \/ SaveScan \/ Deliver \/ TaskDone
  BY <1>2 DEF Get, Pop, Skip, SaveScan, Deliver, TaskDone
<1>3. CASE Begin \/ Phase \/ EnterAnalysis
  BY <1>3 DEF Begin, Phase, EnterAnalysis, StopCancelled
<1>4. CASE Start \/ Publish
  BY <1>4 DEF Start, Publish
<1>5. CASE FinishAnalysis \/ AnalysisRaises \/ SaveRaises
  BY <1>5 DEF FinishAnalysis, AnalysisRaises, SaveRaises, Fail
<1>6. ASSUME NEW t \in Cancels, NEW k \in Jobs, CancelScan(t, k)
      PROVE  Only
  BY <1>6 DEF CancelScan
<1>7. ASSUME NEW t \in Cancels,
             RequestCancel(t) \/ Branch(t) \/ Snapshot(t) \/ Clear(t) \/ PutBack(t)
      PROVE  Only
  BY <1>7 DEF RequestCancel, Branch, Snapshot, Clear, PutBack
<1>8. ASSUME NEW t \in Cancels, MarkCancelled(t) PROVE Only
  BY <1>8 DEF MarkCancelled
<1>9. CASE UNCHANGED vars
  BY <1>9 DEF vars
<1>. QED
  BY <1>1, <1>2, <1>3, <1>4, <1>5, <1>6, <1>7, <1>8, <1>9
     DEF Next, Worker, CancelStep

\* Without an overlap the status of a finished job is final but for a cancel request,
\* which can only turn completed or failed into cancelled (main.py 756-797, 804-884).
THEOREM FinishedIsFinal == Spec => FinalUnlessDisturbed
<1>1. ASSUME IInv, [Next]_vars
      PROVE  [\A j \in Jobs : Terminal(j) /\ status'[j] # status[j] =>
                 \/ overlap
                 \/ /\ cancel_requested[j]
                    /\ status[j] # "cancelled" => status'[j] = "cancelled"]_vars
  BY <1>1, FinalStep
<1>. QED
  BY <1>1, Invariance, PTL DEF Spec, FinalUnlessDisturbed

\* Whatever overlaps, a job in the deque, in a copy of it, or in the worker's hands
\* was submitted.
Submitted ==
    /\ \A j \in Items(queue) : status[j] # "absent"
    /\ \A t \in Cancels : \A j \in Items(rest[t]) : status[j] # "absent"
    /\ Holding => status[cur] # "absent"

\* Only scan_async gives a job its first status, and nothing takes it away.
FirstStatus(j) ==
    /\ status[j] = "absent" => status'[j] \in {"absent", "queued"}
    /\ status[j] # "absent" => status'[j] # "absent"
    /\ status[j] # "absent" /\ status'[j] = "queued" => status[j] = "queued"

\* The job a step gives a status to exists, or is the one that is submitted.
LEMMA FirstStatusStep ==
  ASSUME TypeOk, Always, Submitted, [Next]_vars, NEW j \in Jobs
  PROVE  FirstStatus(j)
<1>. USE DEF FirstStatus, TypeOk, Always, Submitted, Holding, jobVars,
        queueVars, workerVars, threadVars
<1>1. ASSUME NEW k \in Jobs, ScanAsync(k) PROVE FirstStatus(j)
  BY <1>1 DEF ScanAsync
<1>2. CASE Get \/ Pop \/ Skip \/ SaveScan \/ Deliver \/ TaskDone
  BY <1>2 DEF Get, Pop, Skip, SaveScan, Deliver, TaskDone
<1>3. CASE Begin
  BY <1>3 DEF Begin, StopCancelled
<1>4. CASE Phase \/ EnterAnalysis
  BY <1>4 DEF Phase, EnterAnalysis, StopCancelled
<1>5. CASE Start \/ Publish
  BY <1>5 DEF Start, Publish
<1>6. CASE FinishAnalysis \/ AnalysisRaises \/ SaveRaises
  BY <1>6 DEF FinishAnalysis, AnalysisRaises, SaveRaises, Fail
<1>7. ASSUME NEW t \in Cancels, NEW k \in Jobs, CancelScan(t, k)
      PROVE  FirstStatus(j)
  BY <1>7 DEF CancelScan
<1>8. ASSUME NEW t \in Cancels,
             RequestCancel(t) \/ Branch(t) \/ Snapshot(t) \/ Clear(t) \/ PutBack(t)
      PROVE  FirstStatus(j)
  BY <1>8 DEF RequestCancel, Branch, Snapshot, Clear, PutBack
<1>9. ASSUME NEW t \in Cancels, MarkCancelled(t) PROVE FirstStatus(j)
  BY <1>9 DEF MarkCancelled
<1>10. CASE UNCHANGED vars
  BY <1>10 DEF vars
<1>. QED
  BY <1>1, <1>2, <1>3, <1>4, <1>5, <1>6, <1>7, <1>8, <1>9, <1>10
     DEF Next, Worker, CancelStep

\* Items come into the deque by scan_async, or from a copy of it.
LEMMA SubmittedStep == TypeOk /\ Always /\ Submitted /\ [Next]_vars => Submitted'
<1>. SUFFICES ASSUME TypeOk, Always, Submitted, [Next]_vars PROVE Submitted'
  OBVIOUS
<1>1. \A j \in Jobs : status[j] # "absent" => status'[j] # "absent"
  BY FirstStatusStep DEF FirstStatus
<1>2. Items(queue) \subseteq Jobs /\ \A t \in Cancels : Items(rest[t]) \subseteq Jobs
  BY DEF TypeOk, Items
<1>. USE <1>1, <1>2 DEF TypeOk, Submitted, Holding, jobVars, queueVars, workerVars,
        threadVars
<1>3. ASSUME NEW k \in Jobs, ScanAsync(k) PROVE Submitted'
  <2>1. Items(queue') = Items(queue) \cup {k} /\ status'[k] # "absent"
    BY <1>3, ItemsOfAppend DEF ScanAsync
  <2>. QED
    BY <1>3, <2>1 DEF ScanAsync
<1>4. CASE Pop
  <2>1. CASE queue = <<>>
    BY <1>4, <2>1 DEF Pop
  <2>2. CASE queue # <<>>
    <3>1. Items(queue) = {Head(queue)} \cup Items(Tail(queue))
      BY <2>2, ItemsOfTail
    <3>2. cur' = Head(queue) /\ queue' = Tail(queue)
      BY <1>4, <2>2 DEF Pop
    <3>3. Items(queue') \subseteq Items(queue) /\ cur' \in Items(queue)
      BY <3>1, <3>2
    <3>. QED
      BY <1>4, <2>2, <3>3 DEF Pop
  <2>. QED
    BY <2>1, <2>2
<1>5. CASE Get \/ Skip \/ SaveScan \/ Deliver \/ TaskDone
  BY <1>5 DEF Get, Skip, SaveScan, Deliver, TaskDone
<1>6. CASE Begin \/ Phase \/ EnterAnalysis
  BY <1>6 DEF Begin, Phase, EnterAnalysis, StopCancelled
<1>7. CASE Start \/ Publish
  BY <1>7 DEF Start, Publish
<1>8. CASE FinishAnalysis \/ AnalysisRaises \/ SaveRaises
  BY <1>8 DEF FinishAnalysis, AnalysisRaises, SaveRaises, Fail
<1>9. ASSUME NEW t \in Cancels, Snapshot(t) PROVE Submitted'
  BY <1>9 DEF Snapshot
<1>10. ASSUME NEW t \in Cancels, Clear(t) PROVE Submitted'
  BY <1>10, ItemsOfEmpty DEF Clear
<1>11. ASSUME NEW t \in Cancels, PutBack(t) PROVE Submitted'
  <2>1. Head(rest[t]) \in Items(rest[t]) /\ Items(Tail(rest[t])) \subseteq Items(rest[t])
    BY <1>11, ItemsOfTail DEF PutBack
  <2>2. Items(queue') \subseteq Items(queue) \cup {Head(rest[t])}
    BY <1>11, <2>1, ItemsOfAppend DEF PutBack
  <2>. QED
    BY <1>11, <2>1, <2>2 DEF PutBack
<1>12. ASSUME NEW t \in Cancels, RequestCancel(t) \/ Branch(t) \/ MarkCancelled(t)
       PROVE  Submitted'
  BY <1>12 DEF RequestCancel, Branch, MarkCancelled
<1>13. ASSUME NEW t \in Cancels, NEW k \in Jobs, CancelScan(t, k) PROVE Submitted'
  BY <1>13 DEF CancelScan
<1>14. CASE UNCHANGED vars
  BY <1>14 DEF vars
<1>. QED
  BY <1>3, <1>4, <1>5, <1>6, <1>7, <1>8, <1>9, <1>10, <1>11, <1>12, <1>13, <1>14
     DEF Next, Worker, CancelStep

\* What GET /scan-status tells the dashboard of job j, as ScanPoller abstracts it:
\* queued looks like running, and completed and failed are both the end.
Shown(j) ==
    CASE status[j] = "absent"                  -> "none"
      [] status[j] \in {"queued", "running"}   -> "running"
      [] status[j] \in {"completed", "failed"} -> "over"
      [] OTHER                                 -> "cancelled"

\* The changes that Started, ServerMoves and ServerCancels of ScanPoller make.
RunsAgain == <<"over", "running">>
Moves == {<<"none", "running">>, <<"running", "over">>, <<"running", "cancelled">>,
          <<"cancelled", "over">>, <<"cancelled", "running">>, <<"over", "cancelled">>,
          RunsAgain}

\* The server moves a job only as ScanPoller lets it, so that the dashboard's
\* properties rest on no promise the queue does not keep (main.py 694-911 behind
\* app.js 610-668); and a job runs once more after its end only when two users of
\* the deque have overlapped.
THEOREM DashboardSees ==
  Spec => [][\A j \in Jobs : Shown(j)' # Shown(j) =>
                 /\ <<Shown(j), Shown(j)'>> \in Moves
                 /\ <<Shown(j), Shown(j)'>> = RunsAgain => overlap]_vars
<1>. DEFINE Right(j) == Shown(j)' # Shown(j) =>
                            /\ <<Shown(j), Shown(j)'>> \in Moves
                            /\ <<Shown(j), Shown(j)'>> = RunsAgain => overlap
<1>1. Init => Submitted
  BY ItemsOfEmpty DEF Init, Submitted, Holding
<1>2. IInv /\ Submitted /\ [Next]_vars => Submitted'
  BY SubmittedStep DEF IInv
<1>3. ASSUME IInv, Submitted, [Next]_vars, NEW j \in Jobs
      PROVE  Right(j)
  <2>1. status[j] \in Statuses /\ status'[j] \in Statuses
    BY <1>3, TypeStep DEF IInv, TypeOk
  <2>2. ~overlap /\ Terminal(j) /\ status'[j] # status[j] /\ status[j] # "cancelled" =>
            status'[j] = "cancelled"
    BY <1>3, FinalStep
  <2>3. FirstStatus(j)
    BY <1>3, FirstStatusStep DEF IInv
  <2>. QED
    BY <2>1, <2>2, <2>3 DEF Shown, Moves, RunsAgain, Terminal, Statuses, FirstStatus
<1>4. IInv /\ Submitted /\ [Next]_vars => [\A j \in Jobs : Right(j)]_vars
  BY <1>3
<1>. HIDE DEF Right
<1>5. Spec => [][\A j \in Jobs : Right(j)]_vars
  BY <1>1, <1>2, <1>4, Invariance, PTL DEF Spec
<1>. QED
  BY <1>5 DEF Right

-----------------------------------------------------------------------------
(* The service: moving one item from one sequence to another *)

\* A sequence is its head and its tail.
LEMMA HeadOn ==
  ASSUME NEW S, NEW r \in Seq(S), r # <<>>
  PROVE  <<Head(r)>> \o Tail(r) = r
<1> DEFINE t == Tail(r)
           h == <<Head(r)>>
<1>1. /\ Len(r) \in Nat \ {0}
      /\ Head(r) = r[1] /\ Head(r) \in S
      /\ t \in Seq(S) /\ Len(t) = Len(r) - 1
      /\ \A i \in 1..(Len(r) - 1) : t[i] = r[i + 1]
  BY EmptySeq, HeadTailProperties
<1>2. h \in Seq(S) /\ Len(h) = 1 /\ h[1] = r[1]
  BY <1>1
<1> HIDE DEF t, h
<1>3. /\ h \o t \in Seq(S) /\ Len(h \o t) = Len(h) + Len(t)
      /\ \A i \in 1..Len(h) + Len(t) :
            (h \o t)[i] = IF i <= Len(h) THEN h[i] ELSE t[i - Len(h)]
  BY <1>1, <1>2, ConcatProperties
<1>4. Len(h) + Len(t) = Len(r)
  BY <1>1, <1>2
<1>5. \A i \in 1..Len(r) : (h \o t)[i] = r[i]
  BY <1>1, <1>2, <1>3, <1>4
<1>6. h \o t = r
  BY <1>3, <1>4, <1>5, SeqEqual
<1>. QED
  BY <1>6 DEF h, t

\* Putting an item of the rest back leaves the whole as it was.
LEMMA MoveItem ==
  ASSUME NEW S, NEW s \in Seq(S), NEW r \in Seq(S), r # <<>>
  PROVE  Append(s, Head(r)) \o Tail(r) = s \o r
<1>1. Head(r) \in S /\ Tail(r) \in Seq(S)
  BY HeadTailProperties
<1>2. <<Head(r)>> \in Seq(S)
  BY <1>1
<1>3. Append(s, Head(r)) = s \o <<Head(r)>>
  BY <1>1, AppendIsConcat
<1>4. (s \o <<Head(r)>>) \o Tail(r) = s \o (<<Head(r)>> \o Tail(r))
  BY <1>1, <1>2, ConcatAssociative
<1>. QED
  BY <1>3, <1>4, HeadOn

\* Dropping the first item of the rest takes one item out of the whole.
LEMMA DropItem ==
  ASSUME NEW S, NEW s \in Seq(S), NEW r \in Seq(S), r # <<>>
  PROVE  /\ Len(s) + 1 \in 1..Len(s \o r)
         /\ (s \o r)[Len(s) + 1] = Head(r)
         /\ s \o Tail(r) = Service!Without(s \o r, Len(s) + 1)
<1> DEFINE t == Tail(r)
           a == s \o r
           b == s \o t
           n == Len(s)
           m == Len(r)
<1>1. /\ n \in Nat /\ m \in Nat \ {0}
      /\ Head(r) = r[1]
      /\ t \in Seq(S) /\ Len(t) = m - 1
      /\ \A i \in 1..(m - 1) : t[i] = r[i + 1]
  BY EmptySeq, HeadTailProperties
<1>2. /\ Len(a) = n + m
      /\ \A i \in 1..n + m : a[i] = IF i <= n THEN s[i] ELSE r[i - n]
  BY ConcatProperties
<1> HIDE DEF t
<1>3. /\ b \in Seq(S) /\ Len(b) = n + Len(t)
      /\ \A i \in 1..n + Len(t) : b[i] = IF i <= n THEN s[i] ELSE t[i - n]
  BY <1>1, ConcatProperties
<1>4. n + Len(t) = (n + m) - 1
  BY <1>1
<1> HIDE DEF a, b, n, m
<1>5. \A i \in 1..(n + m) - 1 : b[i] = IF i < n + 1 THEN a[i] ELSE a[i + 1]
  <2> TAKE i \in 1..(n + m) - 1
  <2>1. CASE i <= n
    <3>1. i \in 1..n + m /\ i < n + 1
      BY <1>1, <2>1
    <3>2. b[i] = s[i]
      BY <1>3, <1>4, <2>1
    <3>3. a[i] = s[i]
      BY <1>2, <2>1, <3>1
    <3>. QED
      BY <3>1, <3>2, <3>3
  <2>2. CASE ~(i <= n)
    <3>1. i - n \in 1..(m - 1) /\ i + 1 \in 1..n + m
      BY <1>1, <2>2
    <3>2. (i - n) + 1 = (i + 1) - n /\ ~(i + 1 <= n) /\ ~(i < n + 1)
      BY <1>1, <2>2
    <3>3. b[i] = t[i - n]
      BY <1>3, <1>4, <2>2
    <3>4. a[i + 1] = r[(i - n) + 1]
      BY <1>2, <3>1, <3>2
    <3>. QED
      BY <1>1, <3>1, <3>2, <3>3, <3>4
  <2>. QED
    BY <2>1, <2>2
<1>6. b = [i \in 1..(n + m) - 1 |-> b[i]]
  BY <1>3, <1>4
<1>7. b = Service!Without(a, n + 1)
  BY <1>2, <1>5, <1>6 DEF Service!Without
<1>8. n + 1 \in 1..Len(a) /\ a[n + 1] = Head(r)
  BY <1>1, <1>2
<1>. QED
  BY <1>7, <1>8 DEF a, b, n, t

-----------------------------------------------------------------------------
(* The line, before and after a step *)

\* Without a rebuild the line is the deque.
LEMMA WholeLine ==
  /\ (\A t \in Cancels : ~PuttingBack(t)) => Line = queue
  /\ (\A t \in Cancels : thread'[t] # "append") => Line' = queue'
  BY DEF Line, PuttingBack

\* In a rebuild it is the deque and what that thread has still to put back.
LEMMA SplitLine ==
  ASSUME NEW t \in Cancels, PuttingBack(t),
         \A u \in Cancels : PuttingBack(u) => u = t
  PROVE  Line = queue \o rest[t]
<1> DEFINE w == CHOOSE u \in Cancels : PuttingBack(u)
<1>1. w \in Cancels /\ PuttingBack(w)
  OBVIOUS
<1>2. w = t
  BY <1>1
<1>. QED
  BY <1>2 DEF Line

LEMMA SplitLineNext ==
  ASSUME NEW t \in Cancels, thread'[t] = "append",
         \A u \in Cancels : thread'[u] = "append" => u = t
  PROVE  Line' = queue' \o rest'[t]
<1> DEFINE w == CHOOSE u \in Cancels : thread'[u] = "append"
<1>1. w \in Cancels /\ thread'[w] = "append"
  OBVIOUS
<1>2. w = t
  BY <1>1
<1>. QED
  BY <1>2 DEF Line, PuttingBack

\* A step that begins and ends no rebuild and moves no item leaves the line.
LEMMA SameLine ==
  ASSUME Exclusive, UNCHANGED queue,
         \A t \in Cancels : /\ thread'[t] = "append" <=> thread[t] = "append"
                            /\ thread[t] = "append" => rest'[t] = rest[t]
  PROVE  Line' = Line
<1>1. CASE \A t \in Cancels : thread[t] # "append"
  BY <1>1, WholeLine DEF PuttingBack
<1>2. ASSUME NEW t \in Cancels, thread[t] = "append" PROVE Line' = Line
  <2>1. \A u \in Cancels : thread[u] = "append" => u = t
    BY <1>2 DEF Exclusive, InRebuild
  <2>2. Line = queue \o rest[t]
    BY <1>2, <2>1, SplitLine DEF PuttingBack
  <2>3. Line' = queue' \o rest'[t]
    BY <1>2, <2>1, SplitLineNext
  <2>. QED
    BY <1>2, <2>2, <2>3
<1>. QED
  BY <1>1, <1>2

-----------------------------------------------------------------------------
(* Every step of the code is a step of the service *)

\* The worker's steps inside a job, other than storing, are invisible.
LEMMA WorkInvisible ==
  ASSUME TypeOk, Undisturbed, ~overlap, ~overlap',
         Skip \/ Begin \/ Start \/ Phase \/ EnterAnalysis \/ FinishAnalysis
           \/ AnalysisRaises \/ SaveRaises \/ Publish \/ Deliver
  PROVE  UNCHANGED Service!vars
<1> USE DEF Skip, Begin, Start, Phase, EnterAnalysis, FinishAnalysis, StopCancelled,
            AnalysisRaises, SaveRaises, Fail, Publish, Deliver,
            jobVars, queueVars, threadVars
<1>1. /\ UNCHANGED <<cancel_requested, queue, cur, saved, thread, rest>>
      /\ Holding /\ Holding'
  BY DEF Holding
<1>2. status[cur] # "absent" /\ cur \in Jobs
  BY <1>1 DEF Undisturbed, InStep, TypeOk
<1>3. \/ status' = status
      \/ status' = [status EXCEPT ![cur] = "cancelled"]
      \/ status' = [status EXCEPT ![cur] = "running"]
      \/ status' = [status EXCEPT ![cur] = "failed"]
      \/ status' = [status EXCEPT ![cur] = "completed"]
  OBVIOUS
<1>4. {j \in Jobs : status'[j] # "absent"} = {j \in Jobs : status[j] # "absent"}
  BY <1>2, <1>3 DEF TypeOk
<1>5. Line' = Line
  BY <1>1, SameLine DEF Undisturbed
<1>. QED
  BY <1>1, <1>4, <1>5 DEF Service!vars

\* Under the inductive invariant every step maps to a step or a stutter.
LEMMA StepImplements == IInv /\ [Next]_vars => [Service!Next]_(Service!vars)
<1> SUFFICES ASSUME IInv, [Next]_vars PROVE Service!Next \/ UNCHANGED Service!vars
  OBVIOUS
<1>1. CASE overlap'
  BY <1>1 DEF Service!Next, Service!Break
<1> SUFFICES ASSUME ~overlap' PROVE Service!Next \/ UNCHANGED Service!vars
  BY <1>1
<1>0. TypeOk /\ Always /\ Undisturbed /\ Exclusive /\ ~overlap
  BY OverlapStays DEF IInv, Undisturbed
<1>a. overlap' = overlap
  BY <1>0, TypeStep DEF TypeOk
<1> USE DEF jobVars, queueVars, workerVars, threadVars
<1>2. ASSUME NEW j \in Jobs, ScanAsync(j) PROVE Service!Next
  <2>a. ~SomeRebuild
    BY <1>2 DEF ScanAsync
  <2>b. /\ UNCHANGED <<thread, rest, cur>>
        /\ worker' = worker \/ (worker = "waiting" /\ worker' = "woken")
    BY <1>2 DEF ScanAsync
  <2>1. ~SomeRebuild /\ UNCHANGED <<thread, rest>> /\ Holding' = Holding /\ cur' = cur
    BY <2>a, <2>b DEF Holding
  <2>2. Line = queue /\ Line' = queue'
    BY <2>1, WholeLine DEF SomeRebuild, InRebuild, PuttingBack
  <2>3. {i \in Jobs : status'[i] # "absent"}
          = {i \in Jobs : status[i] # "absent"} \cup {j}
    BY <1>0, <1>2 DEF ScanAsync, TypeOk
  <2>4. Service!Submit(j)
    BY <1>2, <1>a, <2>1, <2>2, <2>3 DEF ScanAsync, Service!Submit
  <2>. QED
    BY <2>4 DEF Service!Next
<1>3. CASE Get
  <2>1. Holding' = Holding /\ UNCHANGED <<status, cancel_requested, cur, saved>>
    BY <1>3 DEF Get, Holding
  <2>2. Line' = Line
    BY <1>0, <1>3, SameLine DEF Get
  <2>. QED
    BY <1>a, <2>1, <2>2 DEF Service!vars
<1>4. CASE Pop
  <2>1. queue # <<>> /\ \A t \in Cancels : thread[t] # "append"
    BY <1>0, <1>4 DEF Pop, Exclusive, InRebuild
  <2>2. /\ ~Holding /\ Holding' /\ cur' = Head(queue) /\ queue' = Tail(queue)
        /\ UNCHANGED <<status, cancel_requested, saved, thread, overlap>>
    BY <1>4, <2>1 DEF Pop, Holding
  <2>3. Line = queue /\ Line' = queue'
    BY <2>1, <2>2, WholeLine DEF PuttingBack
  <2>4. Service!Take
    BY <2>1, <2>2, <2>3 DEF Service!Take
  <2>. QED
    BY <2>4 DEF Service!Next
<1>5. CASE Skip \/ Begin \/ Start \/ Phase \/ EnterAnalysis \/ FinishAnalysis
             \/ AnalysisRaises \/ SaveRaises \/ Publish \/ Deliver
  BY <1>0, <1>5, WorkInvisible
<1>6. CASE SaveScan
  <2>1. /\ Holding /\ Holding' /\ cur \in Jobs
        /\ UNCHANGED <<status, cancel_requested, queue, cur, thread, rest, overlap>>
    BY <1>0, <1>6 DEF SaveScan, Holding, TypeOk
  <2>2. saved \in [Jobs -> Nat] /\ saved[cur] <= 0
    BY <1>0, <1>6 DEF SaveScan, Undisturbed, ServedOnce, Pending, TypeOk
  <2>3. saved[cur] = 0 /\ saved[cur] + 1 = 1
    BY <2>1, <2>2
  <2>4. saved' = [saved EXCEPT ![cur] = 1]
    BY <1>6, <2>3 DEF SaveScan
  <2>5. Line' = Line
    BY <1>0, <2>1, SameLine
  <2>6. Service!Store(cur)
    BY <2>1, <2>3, <2>4, <2>5 DEF Service!Store
  <2>. QED
    BY <2>1, <2>6 DEF Service!Next
<1>7. CASE TaskDone
  <2>1. /\ Holding /\ ~Holding'
        /\ UNCHANGED <<status, cancel_requested, queue, cur, saved, thread, rest, overlap>>
    BY <1>7 DEF TaskDone, Holding
  <2>2. Line' = Line
    BY <1>0, <2>1, SameLine
  <2>3. Service!Release
    BY <2>1, <2>2 DEF Service!Release
  <2>. QED
    BY <2>3 DEF Service!Next
<1>8. ASSUME NEW t \in Cancels, NEW j \in Jobs, CancelScan(t, j)
      PROVE  UNCHANGED Service!vars
  <2>1. /\ Holding' = Holding
        /\ UNCHANGED <<status, cancel_requested, queue, cur, saved, rest, overlap>>
        /\ \A u \in Cancels : thread'[u] = "append" <=> thread[u] = "append"
    BY <1>0, <1>8 DEF CancelScan, MoveTo, Holding, TypeOk
  <2>2. Line' = Line
    BY <1>0, <2>1, SameLine
  <2>. QED
    BY <2>1, <2>2 DEF Service!vars
<1>9. ASSUME NEW t \in Cancels, RequestCancel(t) PROVE Service!Next
  <2>1. /\ Holding' = Holding
        /\ UNCHANGED <<status, queue, cur, saved, rest, overlap>>
        /\ \A u \in Cancels : thread'[u] = "append" <=> thread[u] = "append"
    BY <1>0, <1>9 DEF RequestCancel, MoveTo, Holding, TypeOk
  <2>2. Line' = Line
    BY <1>0, <2>1, SameLine
  <2>3. target[t] \in Jobs /\ status[target[t]] # "absent"
    BY <1>0, <1>9 DEF RequestCancel, TypeOk, Always
  <2>4. {j \in Jobs : cancel_requested'[j]}
          = {j \in Jobs : cancel_requested[j]} \cup {target[t]}
    BY <1>0, <1>9, <2>3 DEF RequestCancel, TypeOk
  <2>5. PICK j \in Jobs : j = target[t]
    BY <2>3
  <2>6. Service!Ask(j)
    BY <2>1, <2>2, <2>3, <2>4, <2>5 DEF Service!Ask
  <2>. QED
    BY <2>6 DEF Service!Next
<1>10. ASSUME NEW t \in Cancels, Branch(t) \/ MarkCancelled(t)
       PROVE  UNCHANGED Service!vars
  <2>1. /\ Holding' = Holding
        /\ UNCHANGED <<cancel_requested, queue, cur, saved, rest, overlap>>
        /\ \A u \in Cancels : thread'[u] = "append" <=> thread[u] = "append"
    BY <1>0, <1>10 DEF Branch, MarkCancelled, MoveTo, Holding, TypeOk
  <2>2. Line' = Line
    BY <1>0, <2>1, SameLine
  <2>3. target[t] \in Jobs /\ status[target[t]] # "absent"
    BY <1>0, <1>10 DEF Branch, MarkCancelled, TypeOk, Always
  <2>4. {j \in Jobs : status'[j] # "absent"} = {j \in Jobs : status[j] # "absent"}
    BY <1>0, <1>10, <2>3 DEF Branch, MarkCancelled, TypeOk
  <2>. QED
    BY <2>1, <2>2, <2>4 DEF Service!vars
<1>11. ASSUME NEW t \in Cancels, Snapshot(t) PROVE UNCHANGED Service!vars
  <2>1. /\ Holding' = Holding /\ ~SomeRebuild
        /\ UNCHANGED <<status, cancel_requested, queue, cur, saved, overlap>>
        /\ thread' = [thread EXCEPT ![t] = "clear"]
    BY <1>0, <1>a, <1>11 DEF Snapshot, MoveTo, Holding
  <2>2. \A u \in Cancels : thread[u] # "append" /\ thread'[u] # "append"
    BY <1>0, <2>1 DEF SomeRebuild, InRebuild, TypeOk
  <2>3. Line' = Line
    BY <2>1, <2>2, WholeLine DEF PuttingBack
  <2>. QED
    BY <2>1, <2>3 DEF Service!vars
<1>12. ASSUME NEW t \in Cancels, Clear(t) PROVE UNCHANGED Service!vars
  <2>1. /\ Holding' = Holding /\ queue' = <<>> /\ rest[t] = queue
        /\ UNCHANGED <<status, cancel_requested, cur, saved, rest, overlap>>
        /\ thread' = [thread EXCEPT ![t] = AfterItem(rest[t])]
        /\ queue \in Seq(Jobs)
    BY <1>0, <1>12 DEF Clear, MoveTo, Holding, Exclusive, TypeOk
  <2>2. \A u \in Cancels : thread[u] # "append"
    BY <1>0, <1>12 DEF Clear, Exclusive, InRebuild
  <2>3. Line = queue
    BY <2>2, WholeLine DEF PuttingBack
  <2>4. \A u \in Cancels : u # t => thread'[u] # "append"
    BY <1>0, <2>1, <2>2 DEF TypeOk
  <2>5. thread'[t] = AfterItem(rest[t])
    BY <1>0, <2>1 DEF TypeOk
  <2>6. CASE queue = <<>>
    <3>1. \A u \in Cancels : thread'[u] # "append"
      BY <2>1, <2>4, <2>5, <2>6 DEF AfterItem
    <3>2. Line' = Line
      BY <2>1, <2>3, <2>6, <3>1, WholeLine
    <3>. QED
      BY <2>1, <3>2 DEF Service!vars
  <2>7. CASE queue # <<>>
    <3>1. thread'[t] = "append"
      BY <2>1, <2>5, <2>7 DEF AfterItem
    <3>2. Line' = queue' \o rest'[t]
      BY <2>4, <3>1, SplitLineNext
    <3>3. Line' = Line
      BY <2>1, <2>3, <3>2, ConcatEmptySeq
    <3>. QED
      BY <2>1, <3>3 DEF Service!vars
  <2>. QED
    BY <2>6, <2>7
<1>13. ASSUME NEW t \in Cancels, PutBack(t)
       PROVE  Service!Next \/ UNCHANGED Service!vars
  <2> DEFINE r == rest[t]
  <2>1. /\ Holding' = Holding /\ r # <<>>
        /\ UNCHANGED <<status, cancel_requested, cur, saved, overlap>>
        /\ thread' = [thread EXCEPT ![t] = AfterItem(Tail(r))]
        /\ rest' = [rest EXCEPT ![t] = Tail(r)]
        /\ queue' = IF Head(r) = target[t] THEN queue ELSE Append(queue, Head(r))
        /\ queue \in Seq(Jobs) /\ r \in Seq(Jobs)
    BY <1>0, <1>13 DEF PutBack, MoveTo, Holding, TypeOk
  <2>2. \A u \in Cancels : PuttingBack(u) => u = t
    BY <1>0, <1>13 DEF PutBack, Exclusive, InRebuild, PuttingBack
  <2>3. Line = queue \o r
    BY <1>13, <2>2, SplitLine DEF PutBack, PuttingBack
  <2>4. \A u \in Cancels : u # t => thread'[u] # "append"
    BY <1>0, <2>1, <2>2 DEF TypeOk, PuttingBack
  <2>5. thread'[t] = AfterItem(Tail(r)) /\ rest'[t] = Tail(r)
    BY <1>0, <2>1 DEF TypeOk
  <2>6. queue' \in Seq(Jobs)
    BY <2>1, HeadTailProperties, AppendProperties
  <2>7. Line' = queue' \o Tail(r)
    <3>1. CASE Tail(r) = <<>>
      <4>1. Line' = queue'
        BY <2>4, <2>5, <3>1, WholeLine DEF AfterItem
      <4>. QED
        BY <2>6, <3>1, <4>1, ConcatEmptySeq
    <3>2. CASE Tail(r) # <<>>
      <4>1. thread'[t] = "append"
        BY <2>5, <3>2 DEF AfterItem
      <4>. QED
        BY <2>4, <2>5, <4>1, SplitLineNext
    <3>. QED
      BY <3>1, <3>2
  <2>8. CASE Head(r) # target[t]
    <3>1. Line' = Line
      BY <2>1, <2>3, <2>7, <2>8, MoveItem
    <3>. QED
      BY <2>1, <3>1 DEF Service!vars
  <2>9. CASE Head(r) = target[t]
    <3> DEFINE k == Len(queue) + 1
    <3>1. k \in 1..Len(Line) /\ Line[k] = target[t] /\ Line' = Service!Without(Line, k)
      BY <2>1, <2>3, <2>7, <2>9, DropItem
    <3>2. cancel_requested[target[t]] /\ target[t] \in Jobs
      BY <1>0, <1>13 DEF PutBack, Always, TypeOk
    <3>3. Service!Withdraw(k)
      BY <2>1, <3>1, <3>2 DEF Service!Withdraw
    <3>. QED
      BY <3>1, <3>3 DEF Service!Next
  <2>. QED
    BY <2>8, <2>9
<1>14. CASE UNCHANGED vars
  <2>1. UNCHANGED <<status, cancel_requested, queue, worker, cur, saved, thread, rest, overlap>>
    BY <1>14 DEF vars
  <2>2. Line' = Line /\ Holding' = Holding
    BY <1>0, <2>1, SameLine DEF Holding
  <2>. QED
    BY <2>1, <2>2 DEF Service!vars
<1>. QED
  BY <1>2, <1>3, <1>4, <1>5, <1>6, <1>7, <1>8, <1>9, <1>10, <1>11, <1>12, <1>13,
     <1>14 DEF Next, Worker, CancelStep

\* For every set of jobs and of cancel requests, the code implements the service:
\* jobs are served in order, one at a time and at most once, and none is dropped
\* unasked, until two users of the deque overlap (main.py 418-446, 694-911).
THEOREM QueueImplementsService == Spec => ImplementsService
<1>1. ASSUME Init PROVE Service!Init
  <2>1. /\ queue = <<>> /\ ~Holding /\ ~overlap /\ saved = [j \in Jobs |-> 0]
        /\ \A t \in Cancels : ~PuttingBack(t)
        /\ \A j \in Jobs : status[j] = "absent" /\ ~cancel_requested[j]
    BY <1>1 DEF Init, Holding, PuttingBack
  <2>2. Line = <<>>
    BY <2>1, WholeLine
  <2>3. overlap = FALSE
    BY <1>1 DEF Init
  <2>. QED
    BY <2>1, <2>2, <2>3 DEF Service!Init
<1>. QED
  BY <1>1, StepImplements, Invariance, PTL DEF Spec, ImplementsService, Service!Spec
=============================================================================
