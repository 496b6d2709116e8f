--------------------------- MODULE BulkScanProofs ---------------------------
(***************************************************************************)
(* Proofs about BulkScan, for every number of targets and permits and      *)
(* every set of cancel requests.                                           *)
(***************************************************************************)
EXTENDS BulkScan, SequenceTheorems, FiniteSetTheorems, TLAPS

-----------------------------------------------------------------------------
(* Counting targets *)

\* Sets of targets are finite, and one target more or less counts for one.
LEMMA CountTargets ==
  ASSUME NEW A, A \subseteq Targets
  PROVE  /\ Cardinality(A) \in 0..N
         /\ \A x \in Targets \ A : Cardinality(A \cup {x}) = Cardinality(A) + 1
         /\ \A x \in A : Cardinality(A \ {x}) = Cardinality(A) - 1
<1>1. IsFiniteSet(Targets) /\ Cardinality(Targets) = N
  BY NAssumption, FS_Interval DEF Targets
<1>2. /\ IsFiniteSet(A)
      /\ Cardinality(A) <= N
  BY <1>1, FS_Subset
<1>3. Cardinality(A) \in Nat
  BY <1>2, FS_CardinalityType
<1>4. Cardinality(A) \in 0..N
  BY <1>2, <1>3, NAssumption
<1>5. \A x \in Targets \ A : Cardinality(A \cup {x}) = Cardinality(A) + 1
  BY <1>2, FS_AddElement
<1>6. \A x \in A : Cardinality(A \ {x}) = Cardinality(A) - 1
  BY <1>2, FS_RemoveElement
<1>. QED
  BY <1>4, <1>5, <1>6

-----------------------------------------------------------------------------
(* The semaphore *)

\* Leaving passes the permit to the first who waits, or gives it back.
LEMMA LeaveEffect ==
  ASSUME TypeOk, Waiting, PermitsConserved,
         NEW i \in Targets, Inside(i), NEW state \in {"over", "raised"},
         Leave(i, state)
  PROVE  /\ task' \in [Targets -> {"absent", "new", "waiting", "granted", "inside",
                                   "analyze", "recount", "rethrow", "over", "raised"}]
         /\ task'[i] = state
         /\ \A k \in Targets : k # i =>
               task'[k] = task[k] \/ (task[k] = "waiting" /\ task'[k] = "granted")
         /\ permits' \in 0..Concurrency /\ waiters' \in Seq(Targets)
         /\ PermitsConserved' /\ Waiting'
<1> USE DEF TypeOk
<1> DEFINE H == {k \in Targets : Inside(k)}
           Hn == {k \in Targets : Inside(k)'}
<1>a. /\ H \subseteq Targets /\ i \in H /\ Hn \subseteq Targets
      /\ permits + Cardinality(H) = Concurrency
      /\ permits' + Cardinality(Hn) = Concurrency /\ (waiters' # <<>> => permits' = 0)
            => PermitsConserved'
  BY DEF PermitsConserved
<1>b. /\ task' = [task EXCEPT ![i] = state] => Hn = H \ {i}
      /\ \A h \in Targets : /\ task[h] = "waiting" /\ h # i
                           /\ task' = [task EXCEPT ![i] = state, ![h] = "granted"]
                          => h \notin H /\ Hn = (H \ {i}) \cup {h}
  BY DEF Inside
<1> HIDE DEF H, Hn
<1>0. /\ permits \in Nat /\ Cardinality(H) \in Nat /\ Concurrency \in Nat
      /\ Cardinality(H \ {i}) = Cardinality(H) - 1
  BY <1>a, CountTargets, ConcurrencyAssumption
<1>1. CASE waiters = <<>>
  <2>1. /\ permits' = permits + 1 /\ waiters' = waiters
        /\ task' = [task EXCEPT ![i] = state]
    BY <1>1 DEF Leave
  <2>2. Hn = H \ {i}
    BY <1>b, <2>1
  <2>3. permits' + Cardinality(Hn) = Concurrency /\ permits' \in 0..Concurrency
    <3>1. Cardinality(Hn) \in Nat
      BY <1>a, CountTargets
    <3>. QED
      BY <1>0, <1>a, <2>1, <2>2, <3>1
  <2>4. PermitsConserved'
    BY <1>1, <1>a, <2>1, <2>3
  <2>5. Waiting'
    BY <1>1, <2>1, EmptySeq DEF Waiting
  <2>. QED
    BY <2>1, <2>3, <2>4, <2>5
<1>2. CASE waiters # <<>>
  <2> DEFINE h == Head(waiters)
  <2>1. /\ h = waiters[1] /\ h \in Targets /\ Len(waiters) \in Nat \ {0}
        /\ Tail(waiters) \in Seq(Targets) /\ Len(Tail(waiters)) = Len(waiters) - 1
        /\ \A k \in 1..(Len(waiters) - 1) : Tail(waiters)[k] = waiters[k + 1]
    BY <1>2, HeadTailProperties, EmptySeq
  <2>2. /\ task' = [task EXCEPT ![i] = state, ![h] = "granted"]
        /\ waiters' = Tail(waiters) /\ permits' = permits /\ permits = 0
    BY <1>2 DEF Leave, PermitsConserved
  <2>3. task[h] = "waiting" /\ h # i
    BY <2>1 DEF Waiting, Inside
  <2>4. Hn = (H \ {i}) \cup {h}
    BY <1>b, <2>1, <2>2, <2>3
  <2>5. h \in Targets \ (H \ {i}) /\ H \ {i} \subseteq Targets
    BY <1>a, <1>b, <2>1, <2>2, <2>3
  <2>6. Cardinality(Hn) = Cardinality(H)
    <3>1. Cardinality((H \ {i}) \cup {h}) = Cardinality(H \ {i}) + 1
      BY <2>5, CountTargets
    <3>. QED
      BY <1>0, <2>4, <3>1
  <2>7. PermitsConserved'
    BY <1>a, <2>2, <2>6
  <2>8. Waiting'
    <3>1. ASSUME NEW k \in 1..Len(waiters')
          PROVE  /\ k + 1 \in 1..Len(waiters) /\ waiters'[k] = waiters[k + 1]
                 /\ waiters[k + 1] \in Targets /\ k + 1 # 1
      BY <2>1, <2>2
    <3>2. \A k \in 1..Len(waiters') : task[waiters'[k]] = "waiting" /\ waiters'[k] # h
                                      /\ waiters'[k] # i /\ waiters'[k] \in Targets
      <4>1. ASSUME NEW k \in 1..Len(waiters')
            PROVE  /\ waiters'[k] \in Targets /\ task[waiters'[k]] = "waiting"
                   /\ k + 1 \in 1..Len(waiters) /\ 1 \in 1..Len(waiters) /\ k + 1 # 1
        BY <2>1, <3>1 DEF Waiting
      <4>2. ASSUME NEW k \in 1..Len(waiters') PROVE waiters'[k] # h
        BY <2>1, <3>1, <4>1 DEF Waiting
      <4>3. task[i] # "waiting"
        BY DEF Inside
      <4>. QED
        BY <4>1, <4>2, <4>3
    <3>3. \A k \in 1..Len(waiters') : task'[waiters'[k]] = "waiting"
      BY <2>2, <3>2
    <3>4. \A k, l \in 1..Len(waiters') : waiters'[k] = waiters'[l] => k + 1 = l + 1
      BY <3>1 DEF Waiting
    <3>5. \A k, l \in 1..Len(waiters') : k + 1 = l + 1 => k = l
      BY <2>1, <2>2
    <3>. QED
      BY <3>3, <3>4, <3>5 DEF Waiting
  <2>. QED
    BY <1>0, <2>1, <2>2, <2>3, <2>7, <2>8
<1>. QED
  BY <1>1, <1>2

\* A step after which the same tasks hold a permit and the same wait.
LEMMA SemaphoreKept ==
  ASSUME PermitsConserved, Waiting, TypeOk, UNCHANGED semVars,
         \A k \in Targets : Inside(k)' <=> Inside(k),
         \A k \in Targets : task[k] = "waiting" => task'[k] = "waiting"
  PROVE  PermitsConserved' /\ Waiting'
<1>1. \A k \in 1..Len(waiters) : waiters[k] \in Targets
  BY DEF TypeOk
<1>2. {k \in Targets : Inside(k)'} = {k \in Targets : Inside(k)}
  OBVIOUS
<1>. QED
  BY <1>1, <1>2 DEF PermitsConserved, Waiting, semVars

TaskStates == {"absent", "new", "waiting", "granted", "inside", "analyze",
               "recount", "rethrow", "over", "raised"}

\* A recount leaves the semaphore.
LEMMA RecountEffect ==
  ASSUME TypeOk, Waiting, PermitsConserved, NEW i \in Targets, Recount(i)
  PROVE  /\ task' \in [Targets -> TaskStates]
         /\ \/ task[i] = "recount" /\ task'[i] = "over"
            \/ task[i] = "rethrow" /\ task'[i] = "raised"
         /\ \A k \in Targets : k # i =>
               task'[k] = task[k] \/ (task[k] = "waiting" /\ task'[k] = "granted")
         /\ permits' \in 0..Concurrency /\ waiters' \in Seq(Targets)
         /\ PermitsConserved' /\ Waiting'
<1>1. CASE task[i] = "recount"
  BY <1>1, LeaveEffect DEF Recount, Inside, TaskStates
<1>2. CASE task[i] = "rethrow"
  BY <1>2, LeaveEffect DEF Recount, Inside, TaskStates
<1>. QED
  BY <1>1, <1>2 DEF Recount

\* Every step keeps the permits, the queue of the semaphore and their types.
LEMMA SemaphoreStep ==
  IInv /\ [Next]_vars =>
    /\ PermitsConserved' /\ Waiting'
    /\ task' \in [Targets -> TaskStates]
    /\ permits' \in 0..Concurrency /\ waiters' \in Seq(Targets)
<1> DEFINE Goal == /\ PermitsConserved' /\ Waiting'
                   /\ task' \in [Targets -> TaskStates]
                   /\ permits' \in 0..Concurrency /\ waiters' \in Seq(Targets)
<1> SUFFICES ASSUME IInv, [Next]_vars PROVE Goal
  OBVIOUS
<1>0. /\ TypeOk /\ PermitsConserved /\ Waiting /\ ItemsFollow
      /\ task \in [Targets -> TaskStates]
      /\ permits \in 0..Concurrency /\ waiters \in Seq(Targets)
  BY DEF IInv, TypeOk, TaskStates
<1>1. ASSUME UNCHANGED <<task, permits, waiters>> PROVE Goal
  BY <1>0, <1>1, SemaphoreKept DEF Inside, semVars
<1>2. CASE Begin
  <2>1. /\ task' = [k \in Targets |-> "new"] /\ UNCHANGED semVars
        /\ \A k \in Targets : task[k] = "absent"
    BY <1>0, <1>2 DEF Begin, ItemsFollow
  <2>2. \A k \in Targets : Inside(k)' <=> Inside(k)
    BY <2>1 DEF Inside
  <2>3. PermitsConserved' /\ Waiting'
    BY <1>0, <2>1, <2>2, SemaphoreKept
  <2>. QED
    BY <1>0, <2>1, <2>3 DEF semVars, TaskStates
<1>3. ASSUME NEW i \in Targets, StartTask(i) PROVE Goal
  <2>1. task[i] = "new"
    BY <1>3 DEF StartTask
  <2>2. CASE permits > 0 /\ waiters = <<>>
    <3> DEFINE H == {k \in Targets : Inside(k)}
               Hn == {k \in Targets : Inside(k)'}
    <3>1. /\ permits' = permits - 1 /\ waiters' = waiters
          /\ task' = [task EXCEPT ![i] = "inside"]
      BY <1>3, <2>2 DEF StartTask
    <3>2. Hn = H \cup {i} /\ i \in Targets \ H /\ H \subseteq Targets /\ Hn \subseteq Targets
      BY <1>0, <2>1, <3>1 DEF Inside
    <3>3. permits + Cardinality(H) = Concurrency
          /\ (permits' + Cardinality(Hn) = Concurrency
                /\ (waiters' # <<>> => permits' = 0) => PermitsConserved')
      BY <1>0 DEF PermitsConserved
    <3> HIDE DEF H, Hn
    <3>4. /\ Cardinality(H) \in Nat
          /\ Cardinality(Hn) = Cardinality(H) + 1
      BY <3>2, CountTargets
    <3>5. permits' + Cardinality(Hn) = Concurrency
      BY <1>0, <3>1, <3>3, <3>4, ConcurrencyAssumption
    <3>6. PermitsConserved'
      BY <2>2, <3>1, <3>3, <3>5
    <3>7. Waiting'
      BY <2>2, <3>1, EmptySeq DEF Waiting
    <3>8. permits' \in 0..Concurrency
      BY <1>0, <2>2, <3>1, ConcurrencyAssumption
    <3>. QED
      BY <1>0, <3>1, <3>6, <3>7, <3>8 DEF TaskStates
  <2>3. CASE ~(permits > 0 /\ waiters = <<>>)
    <3>1. /\ permits' = permits /\ waiters' = Append(waiters, i)
          /\ task' = [task EXCEPT ![i] = "waiting"]
      BY <1>3, <2>3 DEF StartTask
    <3>2. {k \in Targets : Inside(k)'} = {k \in Targets : Inside(k)}
      BY <1>0, <2>1, <3>1 DEF Inside
    <3>3. permits = 0
      BY <1>0, <2>3, ConcurrencyAssumption DEF PermitsConserved
    <3>4. PermitsConserved'
      BY <1>0, <3>1, <3>2, <3>3 DEF PermitsConserved
    <3>5. /\ waiters' \in Seq(Targets) /\ Len(waiters') = Len(waiters) + 1
          /\ Len(waiters) \in Nat
          /\ \A k \in 1..Len(waiters) : waiters'[k] = waiters[k]
          /\ waiters'[Len(waiters) + 1] = i
      BY <1>0, <3>1, AppendProperties, LenProperties
    <3>6. \A k \in 1..Len(waiters) : waiters[k] # i /\ waiters[k] \in Targets
      BY <1>0, <2>1 DEF Waiting
    <3>7. 1..Len(waiters') = (1..Len(waiters)) \cup {Len(waiters) + 1}
      BY <3>5
    <3>8. \A k \in 1..Len(waiters') : task'[waiters'[k]] = "waiting"
      BY <1>0, <3>1, <3>5, <3>6, <3>7 DEF Waiting
    <3>9. ASSUME NEW k \in 1..Len(waiters'), NEW l \in 1..Len(waiters'),
                 waiters'[k] = waiters'[l]
          PROVE  k = l
      <4>1. CASE k \in 1..Len(waiters) /\ l \in 1..Len(waiters)
        BY <1>0, <3>5, <3>9, <4>1 DEF Waiting
      <4>2. CASE k = Len(waiters) + 1 \/ l = Len(waiters) + 1
        BY <3>5, <3>6, <3>7, <3>9, <4>2
      <4>. QED
        BY <3>7, <4>1, <4>2
    <3>. QED
      BY <1>0, <3>1, <3>4, <3>5, <3>8, <3>9 DEF Waiting, TaskStates
  <2>. QED
    BY <2>2, <2>3
<1>4. ASSUME NEW i \in Targets, EnterItem(i) PROVE Goal
  <2>1. Inside(i) /\ task[i] \in {"inside", "granted"}
    BY <1>4 DEF EnterItem, Inside
  <2>2. CASE Leave(i, "over")
    BY <1>0, <2>1, <2>2, LeaveEffect DEF TaskStates
  <2>3. CASE task' = [task EXCEPT ![i] = "analyze"] /\ UNCHANGED semVars
    <3>1. /\ \A k \in Targets : Inside(k)' <=> Inside(k)
          /\ \A k \in Targets : task[k] = "waiting" => task'[k] = "waiting"
      BY <1>0, <2>1, <2>3 DEF Inside
    <3>2. PermitsConserved' /\ Waiting'
      BY <1>0, <2>3, <3>1, SemaphoreKept
    <3>. QED
      BY <1>0, <2>3, <3>2 DEF semVars, TaskStates
  <2>. QED
    BY <1>4, <2>2, <2>3 DEF EnterItem
<1>5. ASSUME NEW i \in Targets, ItemCompleted(i) \/ ItemFailed(i) PROVE Goal
  <2>1. /\ task[i] = "analyze" /\ UNCHANGED semVars
        /\ task' = [task EXCEPT ![i] = "recount"] \/ task' = [task EXCEPT ![i] = "rethrow"]
    BY <1>5 DEF ItemCompleted, ItemFailed
  <2>2. /\ \A k \in Targets : Inside(k)' <=> Inside(k)
        /\ \A k \in Targets : task[k] = "waiting" => task'[k] = "waiting"
    BY <1>0, <2>1 DEF Inside
  <2>3. PermitsConserved' /\ Waiting'
    BY <1>0, <2>1, <2>2, SemaphoreKept
  <2>. QED
    BY <1>0, <2>1, <2>3 DEF semVars, TaskStates
<1>6. ASSUME NEW i \in Targets, Recount(i) PROVE Goal
  BY <1>0, <1>6, RecountEffect
<1>. QED
  BY <1>1, <1>2, <1>3, <1>4, <1>5, <1>6
     DEF Next, Loop, Gathered, GatherFailed, Conclude, RequestCancel, CancelStep,
         TestStatus, MarkCancelled, vars, semVars

-----------------------------------------------------------------------------
(* The inductive invariant *)

\* How a step of a task moves the tasks: its own as the step says, another
\* only from waiting to granted.
LEMMA Moves ==
  ASSUME IInv, NEW i \in Targets
  PROVE  /\ StartTask(i) =>
              /\ task[i] = "new" /\ task'[i] \in {"inside", "waiting"}
              /\ \A k \in Targets : k # i => task'[k] = task[k]
         /\ EnterItem(i) =>
              /\ task[i] \in {"inside", "granted"}
              /\ \/ task'[i] = "over" /\ cancel_requested /\ items' = items
                 \/ /\ task'[i] = "analyze" /\ ~cancel_requested
                    /\ items' = [items EXCEPT ![i] = "running"]
              /\ \A k \in Targets : k # i =>
                    task'[k] = task[k] \/ (task[k] = "waiting" /\ task'[k] = "granted")
<1> USE DEF IInv, TypeOk
<1>1. ASSUME StartTask(i)
      PROVE  /\ task[i] = "new" /\ task'[i] \in {"inside", "waiting"}
             /\ \A k \in Targets : k # i => task'[k] = task[k]
  BY <1>1 DEF StartTask
<1>2. ASSUME EnterItem(i)
      PROVE  /\ task[i] \in {"inside", "granted"}
             /\ \/ task'[i] = "over" /\ cancel_requested /\ items' = items
                \/ /\ task'[i] = "analyze" /\ ~cancel_requested
                   /\ items' = [items EXCEPT ![i] = "running"]
             /\ \A k \in Targets : k # i =>
                   task'[k] = task[k] \/ (task[k] = "waiting" /\ task'[k] = "granted")
  <2>1. Inside(i) /\ task[i] \in {"inside", "granted"}
    BY <1>2 DEF EnterItem, Inside
  <2>2. CASE cancel_requested /\ Leave(i, "over") /\ UNCHANGED items
    BY <2>1, <2>2, LeaveEffect
  <2>3. CASE /\ ~cancel_requested
             /\ items' = [items EXCEPT ![i] = "running"]
             /\ task' = [task EXCEPT ![i] = "analyze"]
    BY <2>1, <2>3
  <2>. QED
    BY <1>2, <2>1, <2>2, <2>3 DEF EnterItem
<1>. QED
  BY <1>1, <1>2

\* Items follow their tasks through every step.
LEMMA ItemsStep == IInv /\ [Next]_vars => ItemsFollow'
<1> SUFFICES ASSUME IInv, [Next]_vars PROVE ItemsFollow'
  OBVIOUS
<1>0. TypeOk /\ ItemsFollow /\ OutcomeFollows
  BY DEF IInv
<1> USE DEF TypeOk, itemVars
<1>1. CASE Begin
  <2>1. \A k \in Targets : task[k] = "absent" /\ task'[k] = "new" /\ items'[k] = "none"
    BY <1>0, <1>1 DEF Begin, ItemsFollow
  <2>. QED
    BY <1>1, <2>1 DEF Begin, ItemsFollow
<1>2. CASE Gathered \/ GatherFailed \/ Conclude
  BY <1>0, <1>2 DEF Gathered, GatherFailed, Conclude, ItemsFollow
<1>3. ASSUME NEW i \in Targets, StartTask(i) PROVE ItemsFollow'
  <2>1. UNCHANGED <<items, job, cancel_requested, mute>>
    BY <1>3 DEF StartTask
  <2>. QED
    BY <1>0, <1>3, <2>1, Moves DEF ItemsFollow
<1>4. ASSUME NEW i \in Targets, EnterItem(i) PROVE ItemsFollow'
  <2>1. UNCHANGED <<job, cancel_requested, mute>>
    BY <1>4 DEF EnterItem
  <2>2. \A k \in Targets : k # i => items'[k] = items[k]
    BY <1>0, <1>4, Moves
  <2>3. \A k \in Targets : k # i =>
           task'[k] = task[k] \/ (task[k] = "waiting" /\ task'[k] = "granted")
    BY <1>4, Moves
  <2>4. /\ task[i] \in {"inside", "granted"} /\ items[i] = "none"
        /\ \/ task'[i] = "over" /\ cancel_requested /\ items'[i] = "none"
           \/ task'[i] = "analyze" /\ items'[i] = "running"
    BY <1>0, <1>4, Moves DEF ItemsFollow
  <2>. QED
    BY <1>0, <2>1, <2>2, <2>3, <2>4 DEF ItemsFollow
<1>5. ASSUME NEW i \in Targets, ItemCompleted(i) PROVE ItemsFollow'
  BY <1>0, <1>5 DEF ItemCompleted, ItemsFollow, Finished
<1>6. ASSUME NEW i \in Targets, ItemFailed(i) PROVE ItemsFollow'
  BY <1>0, <1>6 DEF ItemFailed, ItemsFollow, Finished
<1>7. ASSUME NEW i \in Targets, Recount(i) PROVE ItemsFollow'
  <2>1. UNCHANGED <<items, job, cancel_requested, mute>>
    BY <1>7 DEF Recount
  <2>2. PermitsConserved /\ Waiting
    BY DEF IInv
  <2>. QED
    BY <1>0, <1>7, <2>1, <2>2, RecountEffect DEF ItemsFollow
<1>8. ASSUME NEW t \in Cancels, RequestCancel(t) PROVE ItemsFollow'
  BY <1>0, <1>8 DEF RequestCancel, ItemsFollow
<1>9. ASSUME NEW t \in Cancels, CancelStep(t) PROVE ItemsFollow'
  BY <1>0, <1>9 DEF CancelStep, TestStatus, MarkCancelled, ItemsFollow
<1>10. CASE UNCHANGED vars
  BY <1>0, <1>10 DEF vars, ItemsFollow
<1>. QED
  BY <1>1, <1>2, <1>3, <1>4, <1>5, <1>6, <1>7, <1>8, <1>9, <1>10 DEF Next, Loop

\* The outcome follows from the tasks in every step.
LEMMA OutcomeStep == IInv /\ [Next]_vars => OutcomeFollows'
<1> SUFFICES ASSUME IInv, [Next]_vars PROVE OutcomeFollows'
  OBVIOUS
<1>0. TypeOk /\ ItemsFollow /\ OutcomeFollows
  BY DEF IInv
<1> USE DEF TypeOk, itemVars, OutcomeFollows
<1>1. CASE Begin
  BY <1>0, <1>1 DEF Begin
<1>2. CASE Gathered
  BY <1>0, <1>2 DEF Gathered, ItemsFollow
<1>3. CASE GatherFailed
  BY <1>0, <1>3 DEF GatherFailed, ItemsFollow
<1>4. CASE Conclude
  BY <1>0, <1>4 DEF Conclude
<1>5. ASSUME NEW i \in Targets,
             StartTask(i) \/ EnterItem(i) \/ ItemCompleted(i) \/ ItemFailed(i) \/ Recount(i)
      PROVE  OutcomeFollows'
  <2>1. /\ task[i] \in {"new", "inside", "granted", "analyze", "recount", "rethrow"}
        /\ UNCHANGED <<status, job, cancel_requested, thread>>
    BY <1>5 DEF StartTask, EnterItem, ItemCompleted, ItemFailed, Recount
  <2>2. job \notin {"cancel", "complete"} /\ ~(job = "over" /\ ~mute)
    BY <1>0, <2>1
  <2>3. mute => mute'
    BY <1>5 DEF StartTask, EnterItem, ItemCompleted, ItemFailed, Recount
  <2>4. status = "completed" => \A k \in Targets : items'[k] \in Finished
    <3>1. ASSUME status = "completed" PROVE items' = items
      <4>1. items[i] \in Finished
        BY <1>0, <3>1
      <4>2. task[i] \in {"recount"}
        BY <1>0, <2>1, <4>1 DEF ItemsFollow, Finished
      <4>. QED
        BY <1>5, <4>2 DEF StartTask, EnterItem, ItemCompleted, ItemFailed, Recount
    <3>. QED
      BY <1>0, <3>1
  <2>. QED
    BY <1>0, <2>1, <2>2, <2>3, <2>4
<1>6. ASSUME NEW t \in Cancels, RequestCancel(t) PROVE OutcomeFollows'
  BY <1>0, <1>6 DEF RequestCancel
<1>7. ASSUME NEW t \in Cancels, CancelStep(t) PROVE OutcomeFollows'
  BY <1>0, <1>7 DEF CancelStep, TestStatus, MarkCancelled
<1>8. CASE UNCHANGED vars
  BY <1>0, <1>8 DEF vars
<1>. QED
  BY <1>1, <1>2, <1>3, <1>4, <1>5, <1>6, <1>7, <1>8 DEF Next, Loop

\* An entry more at the end of a list.
LEMMA Appended ==
  ASSUME NEW s \in Seq(Targets), NEW i \in Targets
  PROVE  /\ Append(s, i) \in Seq(Targets) /\ Len(Append(s, i)) = Len(s) + 1
         /\ {Append(s, i)[k] : k \in 1..Len(Append(s, i))} =
               {s[k] : k \in 1..Len(s)} \cup {i}
<1>1. /\ Append(s, i) \in Seq(Targets) /\ Len(Append(s, i)) = Len(s) + 1
      /\ Len(s) \in Nat
      /\ \A k \in 1..Len(s) : Append(s, i)[k] = s[k]
      /\ Append(s, i)[Len(s) + 1] = i
  BY AppendProperties, LenProperties
<1>2. 1..Len(Append(s, i)) = (1..Len(s)) \cup {Len(s) + 1}
  BY <1>1
<1>. QED
  BY <1>1, <1>2

\* An item that ends, and its entry, keep the list of results in step.
LEMMA OneMoreEnds ==
  ASSUME TypeOk, ResultsFollow, NEW i \in Targets \ EndedItems,
         EndedItems \subseteq Targets, EndedItems' = EndedItems \cup {i},
         results' = Append(results, i)
  PROVE  /\ Len(results') = Cardinality(EndedItems')
         /\ {results'[k] : k \in 1..Len(results')} = EndedItems'
<1>1. Cardinality(EndedItems \cup {i}) = Cardinality(EndedItems) + 1
  BY CountTargets
<1>2. results \in Seq(Targets)
  BY DEF TypeOk
<1>3. /\ Len(results') = Len(results) + 1
      /\ {results'[k] : k \in 1..Len(results')} =
            {results[k] : k \in 1..Len(results)} \cup {i}
  BY <1>2, Appended
<1>4. /\ Len(results) = Cardinality(EndedItems)
      /\ {results[k] : k \in 1..Len(results)} = EndedItems
  BY DEF ResultsFollow
<1>. QED
  BY <1>1, <1>3, <1>4

\* A step that ends no item keeps what follows from the ended ones.
LEMMA NothingEnds ==
  ASSUME TypeOk, ItemsFollow, ResultsFollow,
         UNCHANGED <<results, stored, completed, failed, vulnerable_targets, vulnerable>>,
         \A k \in Targets : items'[k] = items[k]
                            \/ (items[k] = "none" /\ items'[k] = "running")
  PROVE  /\ ResultsFollow'
         /\ CountersAgree /\ (\A k \in Targets : task'[k] \notin {"recount", "rethrow"} =>
                                 task[k] \notin {"recount", "rethrow"})
               => CountersAgree'
<1>1. /\ EndedItems' = EndedItems /\ FailedItems' = FailedItems
      /\ \A k \in Targets : items'[k] = "completed" <=> items[k] = "completed"
  BY DEF EndedItems, FailedItems, Finished
<1>2. ResultsFollow'
  BY <1>1 DEF ResultsFollow
<1>3. ASSUME CountersAgree,
             \A k \in Targets : task'[k] \notin {"recount", "rethrow"} =>
                                 task[k] \notin {"recount", "rethrow"}
      PROVE  CountersAgree'
  <2>1. SUFFICES ASSUME \A k \in Targets : task'[k] \notin {"recount", "rethrow"}
                 PROVE  CountersAgree'
    BY DEF CountersAgree
  <2>2. /\ completed = Cardinality(EndedItems) /\ failed = Cardinality(FailedItems)
        /\ vulnerable_targets = Cardinality(vulnerable)
        /\ Len(results) = completed
        /\ {results[k] : k \in 1..Len(results)} = EndedItems
    BY <1>3, <2>1 DEF CountersAgree, EndedItems, FailedItems
  <2>3. /\ completed' = Cardinality(EndedItems') /\ failed' = Cardinality(FailedItems')
        /\ vulnerable_targets' = Cardinality(vulnerable')
        /\ Len(results') = completed'
        /\ {results'[k] : k \in 1..Len(results')} = EndedItems'
    BY <1>1, <2>2
  <2>. QED
    BY <2>3 DEF CountersAgree, EndedItems, FailedItems
<1>. QED
  BY <1>2, <1>3

\* The lists and counters follow the items through every step.
LEMMA ResultsStep == IInv /\ [Next]_vars => ResultsFollow' /\ CountersAgree'
<1> SUFFICES ASSUME IInv, [Next]_vars PROVE ResultsFollow' /\ CountersAgree'
  OBVIOUS
<1>0. TypeOk /\ ItemsFollow /\ ResultsFollow /\ CountersAgree /\ PermitsConserved /\ Waiting
  BY DEF IInv
<1>t. /\ items \in [Targets -> {"none", "running"} \cup Finished]
      /\ task \in [Targets -> TaskStates]
      /\ results \in Seq(Targets) /\ stored \in [Targets -> Nat] /\ failed \in Nat
  BY <1>0 DEF TypeOk, TaskStates
<1>1. CASE Begin
  <2>1. \A k \in Targets : task[k] = "absent"
    BY <1>0, <1>1 DEF Begin, ItemsFollow
  <2>. QED
    BY <1>0, <1>1, <2>1, NothingEnds DEF Begin, itemVars, countVars
<1>2. CASE UNCHANGED <<itemVars, countVars, task>>
  BY <1>0, <1>2, NothingEnds DEF itemVars, countVars
<1>3. ASSUME NEW i \in Targets, StartTask(i) PROVE ResultsFollow' /\ CountersAgree'
  <2>1. \A k \in Targets : task'[k] \notin {"recount", "rethrow"} =>
                                 task[k] \notin {"recount", "rethrow"}
    BY <1>3, Moves
  <2>. QED
    BY <1>0, <1>3, <2>1, NothingEnds DEF StartTask, itemVars, countVars
<1>4. ASSUME NEW i \in Targets, EnterItem(i) PROVE ResultsFollow' /\ CountersAgree'
  <2>1. \A k \in Targets : task'[k] \notin {"recount", "rethrow"} =>
                                 task[k] \notin {"recount", "rethrow"}
    BY <1>4, Moves
  <2>2. items[i] = "none"
    BY <1>0, <1>4, Moves DEF ItemsFollow
  <2>3. \A k \in Targets : items'[k] = items[k]
                            \/ (items[k] = "none" /\ items'[k] = "running")
    BY <1>t, <1>4, <2>2, Moves
  <2>4. UNCHANGED <<results, stored, completed, failed, vulnerable_targets, vulnerable>>
    BY <1>4 DEF EnterItem, countVars
  <2>. QED
    BY <1>0, <2>1, <2>3, <2>4, NothingEnds
<1>5. ASSUME NEW i \in Targets, ItemCompleted(i) PROVE ResultsFollow' /\ CountersAgree'
  <2>1. /\ task[i] = "analyze" /\ items[i] = "running" /\ stored[i] = 0
        /\ task'[i] = "recount"
        /\ items' = [items EXCEPT ![i] = "completed"] /\ results' = Append(results, i)
        /\ stored' = [stored EXCEPT ![i] = @ + 1] /\ failed' = failed
    BY <1>0, <1>t, <1>5 DEF ItemCompleted, Verdicts, ItemsFollow, ResultsFollow, countVars
  <2>2. /\ i \in Targets \ EndedItems /\ EndedItems \subseteq Targets
        /\ EndedItems' = EndedItems \cup {i} /\ FailedItems' = FailedItems
    BY <1>t, <2>1 DEF EndedItems, FailedItems, Finished
  <2>3. /\ Len(results') = Cardinality(EndedItems')
        /\ {results'[k] : k \in 1..Len(results')} = EndedItems'
    BY <1>0, <1>t, <2>1, <2>2, OneMoreEnds
  <2>4. \A k \in Targets : stored'[k] = IF items'[k] = "completed" THEN 1 ELSE 0
    BY <1>0, <1>t, <2>1 DEF ResultsFollow
  <2>5. ResultsFollow'
    BY <1>0, <2>1, <2>2, <2>3, <2>4 DEF ResultsFollow
  <2>. QED
    BY <2>1, <2>5 DEF CountersAgree
<1>6. ASSUME NEW i \in Targets, ItemFailed(i) PROVE ResultsFollow' /\ CountersAgree'
  <2>1. task[i] = "analyze" /\ items[i] = "running" /\ stored' = stored
        /\ task'[i] \in {"recount", "rethrow"}
    BY <1>0, <1>t, <1>6 DEF ItemFailed, ItemsFollow
  <2>2. CountersAgree'
    BY <2>1 DEF CountersAgree
  <2>3. CASE UNCHANGED <<items, results, failed>>
    BY <1>0, <2>1, <2>2, <2>3 DEF ResultsFollow, EndedItems, FailedItems
  <2>4. CASE /\ items' = [items EXCEPT ![i] = "failed"]
             /\ results' = Append(results, i) /\ failed' = failed + 1
    <3>1. /\ i \in Targets \ EndedItems /\ EndedItems \subseteq Targets
          /\ i \in Targets \ FailedItems /\ FailedItems \subseteq Targets
          /\ EndedItems' = EndedItems \cup {i} /\ FailedItems' = FailedItems \cup {i}
      BY <1>t, <2>1, <2>4 DEF EndedItems, FailedItems, Finished
    <3>2. /\ Len(results') = Cardinality(EndedItems')
          /\ {results'[k] : k \in 1..Len(results')} = EndedItems'
      BY <1>0, <1>t, <2>4, <3>1, OneMoreEnds
    <3>3. \A k \in Targets : stored'[k] = IF items'[k] = "completed" THEN 1 ELSE 0
      BY <1>0, <1>t, <2>1, <2>4 DEF ResultsFollow
    <3>4. /\ Cardinality(FailedItems) \in Nat
          /\ Cardinality(FailedItems') = Cardinality(FailedItems) + 1
      BY <3>1, CountTargets
    <3>5. failed <= Cardinality(FailedItems)
      BY <1>0 DEF ResultsFollow
    <3>6. failed' <= Cardinality(FailedItems')
      BY <1>t, <2>4, <3>4, <3>5
    <3>7. ResultsFollow'
      BY <3>2, <3>3, <3>6 DEF ResultsFollow
    <3>. QED
      BY <2>2, <3>7
  <2>. QED
    BY <1>6, <2>3, <2>4 DEF ItemFailed
<1>7. ASSUME NEW i \in Targets, Recount(i) PROVE ResultsFollow' /\ CountersAgree'
  <2>1. /\ completed' = Cardinality(EndedItems) /\ failed' = Cardinality(FailedItems)
        /\ vulnerable_targets' = Cardinality(vulnerable)
        /\ UNCHANGED <<items, vulnerable, results, stored>>
    BY <1>7 DEF Recount, itemVars, EndedItems, FailedItems
  <2>2. EndedItems' = EndedItems /\ FailedItems' = FailedItems
    BY <2>1 DEF EndedItems, FailedItems
  <2>3. Cardinality(FailedItems) \in Nat
    BY CountTargets DEF FailedItems
  <2>4. ResultsFollow'
    BY <1>0, <2>1, <2>2, <2>3 DEF ResultsFollow
  <2>. QED
    BY <1>0, <2>1, <2>2, <2>4 DEF CountersAgree, ResultsFollow, EndedItems, FailedItems
<1>. QED
  BY <1>1, <1>2, <1>3, <1>4, <1>5, <1>6, <1>7
     DEF Next, Loop, Gathered, GatherFailed, Conclude, RequestCancel, CancelStep,
         TestStatus, MarkCancelled, vars, itemVars, countVars

\* Every variable keeps its type.
LEMMA TypeStep == IInv /\ [Next]_vars => TypeOk'
<1> SUFFICES ASSUME IInv, [Next]_vars PROVE TypeOk'
  OBVIOUS
<1>0. TypeOk /\ ItemsFollow /\ ResultsFollow
  BY DEF IInv
<1>1. /\ task' \in [Targets -> TaskStates]
      /\ permits' \in 0..Concurrency /\ waiters' \in Seq(Targets)
  BY SemaphoreStep
<1> DEFINE Counters == /\ completed \in 0..N /\ failed \in 0..N
                       /\ vulnerable_targets \in 0..N
           Rest == /\ status \in {"queued", "running", "completed", "failed", "cancelled"}
                   /\ cancel_requested \in BOOLEAN
                   /\ items \in [Targets -> {"none", "running"} \cup Finished]
                   /\ vulnerable \subseteq Targets
                   /\ results \in Seq(Targets)
                   /\ stored \in [Targets -> Nat]
                   /\ job \in {"created", "gather", "cancel", "complete", "over"}
                   /\ thread \in [Cancels -> {"idle", "test", "mark", "answered"}]
                   /\ mute \in BOOLEAN
<1>2. Counters /\ Rest
  BY <1>0 DEF TypeOk
<1>3. Rest'
  <2>1. CASE Begin \/ Gathered \/ GatherFailed \/ Conclude
    BY <1>2, <2>1 DEF Begin, Gathered, GatherFailed, Conclude, itemVars
  <2>2. ASSUME NEW i \in Targets, StartTask(i) \/ EnterItem(i) \/ Recount(i) PROVE Rest'
    BY <1>2, <2>2 DEF StartTask, EnterItem, Recount, itemVars
  <2>3. ASSUME NEW i \in Targets, ItemCompleted(i) PROVE Rest'
    BY <1>2, <2>3, Appended DEF ItemCompleted, Verdicts, itemVars, Finished
  <2>4. ASSUME NEW i \in Targets, ItemFailed(i) PROVE Rest'
    BY <1>2, <2>4, Appended DEF ItemFailed, itemVars, Finished
  <2>5. ASSUME NEW t \in Cancels, RequestCancel(t) \/ CancelStep(t) PROVE Rest'
    BY <1>2, <2>5 DEF RequestCancel, CancelStep, TestStatus, MarkCancelled, itemVars
  <2>6. CASE UNCHANGED vars
    BY <1>2, <2>6 DEF vars, itemVars
  <2>. QED
    BY <2>1, <2>2, <2>3, <2>4, <2>5, <2>6 DEF Next, Loop
<1>4. Counters'
  <2>1. CASE UNCHANGED countVars
    BY <1>2, <2>1 DEF countVars
  <2>2. ASSUME NEW i \in Targets, Recount(i) PROVE Counters'
    BY <1>2, <2>2, CountTargets DEF Recount
  <2>3. ASSUME NEW i \in Targets, ItemFailed(i) PROVE Counters'
    <3>1. CASE UNCHANGED failed
      BY <1>2, <2>3, <3>1 DEF ItemFailed
    <3>2. CASE failed' = failed + 1
      <4>1. i \notin FailedItems /\ FailedItems \subseteq Targets
        BY <1>0, <2>3 DEF FailedItems, ItemFailed, ItemsFollow
      <4>2. /\ Cardinality(FailedItems) \in 0..N
            /\ Cardinality(FailedItems \cup {i}) = Cardinality(FailedItems) + 1
        BY <4>1, CountTargets
      <4>3. Cardinality(FailedItems \cup {i}) \in 0..N
        BY <4>1, CountTargets
      <4>4. failed <= Cardinality(FailedItems)
        BY <1>0 DEF ResultsFollow
      <4>5. failed' \in 0..N
        BY <1>2, <3>2, <4>2, <4>3, <4>4, NAssumption
      <4>. QED
        BY <1>2, <2>3, <4>5 DEF ItemFailed
    <3>. QED
      BY <2>3, <3>1, <3>2 DEF ItemFailed
  <2>. QED
    BY <2>1, <2>2, <2>3
       DEF Next, Loop, Begin, Gathered, GatherFailed, Conclude, StartTask, EnterItem,
           ItemCompleted, RequestCancel, CancelStep, TestStatus, MarkCancelled, vars
<1>. QED
  BY <1>1, <1>3, <1>4 DEF TypeOk, TaskStates

\* The job as bulk_scan_start leaves it satisfies the invariant.
LEMMA InitInv == Init => IInv
<1> SUFFICES ASSUME Init PROVE IInv
  OBVIOUS
<1>1. /\ results \in Seq(Targets) /\ waiters \in Seq(Targets)
      /\ Len(results) = 0 /\ Len(waiters) = 0
  BY EmptySeq DEF Init
<1>2. /\ 1..Len(results) = {} /\ 1..Len(waiters) = {}
      /\ N \in Nat /\ permits = Concurrency /\ Concurrency \in Nat
      /\ permits \in 0..Concurrency /\ 0 \in 0..N /\ waiters = <<>>
  BY <1>1, NAssumption, ConcurrencyAssumption DEF Init
<1>3. TypeOk
  BY <1>1, <1>2 DEF TypeOk, Finished, Init
<1>4. /\ {i \in Targets : Inside(i)} = {} /\ EndedItems = {} /\ FailedItems = {}
      /\ vulnerable = {} /\ {results[k] : k \in 1..Len(results)} = {}
      /\ Cardinality({}) = 0
  BY <1>2, FS_EmptySet DEF Inside, EndedItems, FailedItems, Finished, Init
<1>5. PermitsConserved /\ Waiting
  <2>0. Cardinality({i \in Targets : Inside(i)}) = 0
    BY <1>4, Zenon
  <2>1. permits + Cardinality({i \in Targets : Inside(i)}) = Concurrency
    BY <1>2, <2>0
  <2>2. PermitsConserved
    BY <1>2, <2>1 DEF PermitsConserved
  <2>3. Waiting
    BY <1>2 DEF Waiting
  <2>. QED
    BY <2>2, <2>3
<1>6. ItemsFollow /\ OutcomeFollows
  BY DEF ItemsFollow, OutcomeFollows, Init
<1>7. ResultsFollow /\ CountersAgree
  <2>1. /\ completed = 0 /\ failed = 0 /\ vulnerable_targets = 0
        /\ \A i \in Targets : stored[i] = 0 /\ items[i] = "none"
    BY DEF Init
  <2>2. ResultsFollow
    BY <1>1, <1>4, <2>1 DEF ResultsFollow
  <2>3. CountersAgree
    BY <1>1, <1>4, <2>1 DEF CountersAgree, EndedItems, FailedItems
  <2>. QED
    BY <2>2, <2>3
<1>. QED
  BY <1>3, <1>5, <1>6, <1>7 DEF IInv

\* In every reachable state of a bulk scan, the permits, the queue of the
\* semaphore, the items, the counters and the outcome hang together.
THEOREM Invariance == Spec => []IInv
<1>1. IInv /\ [Next]_vars => IInv'
  BY SemaphoreStep, ItemsStep, OutcomeStep, ResultsStep, TypeStep DEF IInv
<1>. QED
  BY InitInv, <1>1, PTL DEF Spec

\* Every variable of a bulk scan keeps its type: no counter exceeds the number
\* of targets, no permit is invented.
THEOREM TypeCorrect == Spec => []TypeOk
<1>1. IInv => TypeOk
  BY DEF IInv
<1>. QED
  BY Invariance, <1>1, PTL

\* At most Concurrency targets are analyzed at a time, every path out of
\* scan_one returns its permit, and no permit lies idle while a task waits.
THEOREM PermitsAreConserved == Spec => []PermitsConserved
<1>1. IInv => PermitsConserved
  BY DEF IInv
<1>. QED
  BY Invariance, <1>1, PTL

\* Between two recounts, the counters polled by the dashboard agree with the
\* items and the results.
THEOREM CountersDoAgree == Spec => []CountersAgree
<1>1. IInv => CountersAgree
  BY DEF IInv
<1>. QED
  BY Invariance, <1>1, PTL

\* A job shown as completed has an outcome for every target, and a target
\* shown as completed has exactly one row.
THEOREM CompletedDoesCoverAll == Spec => []CompletedCoversAll
<1>1. IInv => CompletedCoversAll
  BY DEF IInv, CompletedCoversAll, OutcomeFollows, ResultsFollow
<1>. QED
  BY Invariance, <1>1, PTL

\* When the job is over and no exception was mute, no target runs any more.
THEOREM TheEndIsQuiet == Spec => []EndIsQuiet
<1>1. IInv => EndIsQuiet
  <2>1. SUFFICES ASSUME IInv, job = "over", ~mute, NEW i \in Targets
                 PROVE  task[i] = "over" /\ items[i] # "running"
    BY DEF EndIsQuiet
  <2>2. task[i] = "over"
    BY <2>1 DEF IInv, OutcomeFollows
  <2>3. items[i] \in Finished \/ items[i] = "none"
    BY <2>1, <2>2 DEF IInv, ItemsFollow
  <2>. QED
    BY <2>2, <2>3 DEF Finished
<1>. QED
  BY Invariance, <1>1, PTL

\* No interleaving of the coroutine with the cancel threads changes a settled
\* status without a cancel request.
THEOREM SettledIsKept == Spec => SettledChangesOnlyByCancel
<1>1. IInv /\ [Next]_vars => [Settled /\ status' # status => cancel_requested]_vars
  <2>1. SUFFICES ASSUME IInv, Next, Settled, status' # status
                 PROVE  cancel_requested
    OBVIOUS
  <2>2. OutcomeFollows
    BY <2>1 DEF IInv
  <2>3. CASE status = "cancelled"
    BY <2>2, <2>3 DEF OutcomeFollows
  <2>4. CASE status \in {"completed", "failed"}
    <3>1. job = "over"
      BY <2>2, <2>4 DEF OutcomeFollows
    <3>2. PICK t \in Cancels : MarkCancelled(t)
      BY <2>1, <3>1 DEF Next, Loop, Begin, Gathered, GatherFailed, Conclude, StartTask,
          EnterItem, ItemCompleted, ItemFailed, Recount, RequestCancel, CancelStep,
          TestStatus
    <3>. QED
      BY <2>2, <3>2 DEF OutcomeFollows, MarkCancelled
  <2>. QED
    BY <2>1, <2>3, <2>4 DEF Settled
<1>. QED
  BY Invariance, <1>1, PTL DEF Spec, SettledChangesOnlyByCancel

-----------------------------------------------------------------------------
(* The promise of BulkJob *)

\* All targets have ended: all are listed.
LEMMA AllListed ==
  ASSUME IInv, \A i \in Targets : items[i] \in Finished
  PROVE  Len(results) = N
<1>1. EndedItems = Targets
  BY DEF EndedItems
<1>2. Cardinality(Targets) = N
  BY NAssumption, FS_Interval DEF Targets
<1>. QED
  BY <1>1, <1>2 DEF IInv, ResultsFollow

\* A target in analysis is not listed, and its job has begun and not ended, or is
\* excused.
LEMMA OneToList ==
  ASSUME IInv, NEW i \in Targets, task[i] = "analyze"
  PROVE  /\ job # "created" /\ (Settled => cancel_requested \/ mute)
         /\ Len(Append(results, i)) = Len(results) + 1
<1>1. items[i] = "running" /\ job # "created"
  BY DEF IInv, ItemsFollow
<1>2. Settled => cancel_requested \/ mute
  BY <1>1 DEF IInv, OutcomeFollows, Settled, Finished
<1>3. results \in Seq(Targets)
  BY DEF IInv, TypeOk
<1>. QED
  BY <1>1, <1>2, <1>3, Appended

\* What is read is a job of BulkJob.
LEMMA ViewIsJob == IInv => View \in Job!Jobs
<1> SUFFICES ASSUME IInv PROVE View \in Job!Jobs
  OBVIOUS
<1>1. EndedItems \subseteq Targets /\ Len(results) = Cardinality(EndedItems)
  BY DEF IInv, ResultsFollow, EndedItems
<1>2. Len(results) \in 0..N
  BY <1>1, CountTargets
<1>. QED
  BY <1>2 DEF IInv, TypeOk, View, Settled, Job!Jobs

\* A job that differs from another as Begin says was reached by it.
LEMMA BeginReaches ==
  ASSUME NEW v \in Job!Jobs, NEW w \in Job!Jobs, ~v.began, w.began,
         ~w.ended, w.excused = v.excused, w.listed = v.listed
  PROVE  w \in Job!Begin(v)
<1>1. w = [v EXCEPT !.began = TRUE, !.ended = FALSE]
  BY DEF Job!Jobs
<1>. QED
  BY <1>1 DEF Job!Begin

\* A job that differs from another as Excuse says was reached by it.
LEMMA ExcuseReaches ==
  ASSUME NEW v \in Job!Jobs, NEW w \in Job!Jobs, w.excused,
         w.began = v.began, w.ended = v.ended, w.listed = v.listed
  PROVE  w \in Job!Excuse(v)
<1>1. w = [v EXCEPT !.excused = TRUE]
  BY DEF Job!Jobs
<1>. QED
  BY <1>1 DEF Job!Excuse

\* A job that differs from another as List says was reached by it.
LEMMA ListReaches ==
  ASSUME NEW v \in Job!Jobs, NEW w \in Job!Jobs, v.began,
         v.ended => v.excused, w.listed = v.listed + 1, w.began = v.began,
         w.ended = v.ended, w.excused = v.excused
  PROVE  w \in Job!List(v)
<1>1. w = [v EXCEPT !.listed = @ + 1]
  BY DEF Job!Jobs
<1>2. v.listed < N
  BY NAssumption DEF Job!Jobs
<1>. QED
  BY <1>1, <1>2 DEF Job!List

\* A job that differs from another as End says was reached by it.
LEMMA EndReaches ==
  ASSUME NEW v \in Job!Jobs, NEW w \in Job!Jobs,
         v.excused \/ (v.began /\ v.listed = N), w.ended,
         w.began = v.began, w.excused = v.excused, w.listed = v.listed
  PROVE  w \in Job!End(v)
<1>1. w = [v EXCEPT !.ended = TRUE]
  BY DEF Job!Jobs
<1>. QED
  BY <1>1 DEF Job!End

\* Every step of the code is a step of BulkJob or invisible to who polls.
LEMMA JobStep ==
  ASSUME IInv, [Next]_vars, View \in Job!Jobs, View' \in Job!Jobs
  PROVE  [View' \in Job!Steps(View)]_View
<1>0. ItemsFollow /\ OutcomeFollows
  BY DEF IInv
<1>t. View \in Job!Jobs /\ View' \in Job!Jobs
  OBVIOUS
<1>1. ASSUME Begin PROVE View' \in Job!Begin(View)
  <2>1. /\ ~View.began /\ View'.began /\ ~View'.ended
        /\ View'.excused = View.excused /\ View'.listed = View.listed
    BY <1>1 DEF Begin, View, Settled, itemVars
  <2>. QED
    BY <1>t, <2>1, BeginReaches
<1>2. ASSUME GatherFailed PROVE View' \in Job!End(View)
  <2>1. View.excused
    BY <1>0, <1>2 DEF GatherFailed, ItemsFollow, View
  <2>2. /\ View'.ended /\ View'.began = View.began
        /\ View'.excused = View.excused /\ View'.listed = View.listed
    BY <1>2 DEF GatherFailed, View, Settled, itemVars
  <2>. QED
    BY <1>t, <2>1, <2>2, EndReaches
<1>3. ASSUME Conclude PROVE View' \in Job!End(View)
  <2>1. /\ job = "cancel" => cancel_requested
        /\ job = "complete" => Len(results) = N
    BY <1>0, AllListed DEF OutcomeFollows
  <2>2. View.excused \/ (View.began /\ View.listed = N)
    BY <1>3, <2>1 DEF Conclude, View
  <2>3. /\ View'.ended /\ View'.began = View.began
        /\ View'.excused = View.excused /\ View'.listed = View.listed
    BY <1>3 DEF Conclude, View, Settled, itemVars
  <2>. QED
    BY <1>t, <2>2, <2>3, EndReaches
<1>4. ASSUME NEW i \in Targets, ItemCompleted(i) PROVE View' \in Job!List(View)
  <2>1. task[i] = "analyze"
    BY <1>4 DEF ItemCompleted
  <2>2. View.began /\ (View.ended => View.excused)
    BY <2>1, OneToList DEF View
  <2>3. /\ View'.listed = View.listed + 1 /\ View'.began = View.began
        /\ View'.ended = View.ended /\ View'.excused = View.excused
    BY <1>4, <2>1, OneToList DEF ItemCompleted, View, Settled
  <2>. QED
    BY <1>t, <2>2, <2>3, ListReaches
<1>5. ASSUME NEW i \in Targets, ItemFailed(i)
      PROVE  View' \in Job!List(View) \cup Job!Excuse(View)
  <2>1. /\ task[i] = "analyze" /\ View'.began = View.began
        /\ View'.ended = View.ended
    BY <1>5 DEF ItemFailed, View, Settled
  <2>2. View.began /\ (View.ended => View.excused)
    BY <2>1, OneToList DEF View
  <2>3. CASE results' = Append(results, i) /\ mute' = mute
    <3>1. View'.listed = View.listed + 1 /\ View'.excused = View.excused
      BY <1>5, <2>1, <2>3, OneToList DEF ItemFailed, View
    <3>. QED
      BY <1>t, <2>1, <2>2, <3>1, ListReaches
  <2>4. CASE results' = results /\ mute' = TRUE
    <3>1. View'.listed = View.listed /\ View'.excused
      BY <2>4 DEF View
    <3>. QED
      BY <1>t, <2>1, <3>1, ExcuseReaches
  <2>. QED
    BY <1>5, <2>3, <2>4 DEF ItemFailed
<1>6. ASSUME NEW t \in Cancels, RequestCancel(t) PROVE View' \in Job!Excuse(View)
  <2>1. /\ View'.excused /\ View'.began = View.began
        /\ View'.ended = View.ended /\ View'.listed = View.listed
    BY <1>6 DEF RequestCancel, View, Settled, itemVars
  <2>. QED
    BY <1>t, <2>1, ExcuseReaches
<1>7. ASSUME NEW t \in Cancels, MarkCancelled(t) PROVE View' \in Job!End(View)
  <2>1. View.excused
    BY <1>0, <1>7 DEF MarkCancelled, OutcomeFollows, View
  <2>2. /\ View'.ended /\ View'.began = View.began
        /\ View'.excused = View.excused /\ View'.listed = View.listed
    BY <1>7 DEF MarkCancelled, View, Settled, itemVars
  <2>. QED
    BY <1>t, <2>1, <2>2, EndReaches
<1>8. ASSUME Gathered \/ (\E t \in Cancels : TestStatus(t))
             \/ (\E i \in Targets : StartTask(i) \/ EnterItem(i) \/ Recount(i))
             \/ UNCHANGED vars
      PROVE  View' = View
  <2>1. /\ UNCHANGED <<status, cancel_requested, mute, results>>
        /\ (job' = "created") = (job = "created")
    BY <1>8 DEF Gathered, TestStatus, StartTask, EnterItem, Recount, vars, itemVars
  <2>2. (job' # "created") = (job # "created") /\ Settled' = Settled
    BY <2>1 DEF Settled
  <2>. QED
    BY <2>1, <2>2, Zenon DEF View
<1>. QED
  BY <1>1, <1>2, <1>3, <1>4, <1>5, <1>6, <1>7, <1>8
     DEF Next, Loop, CancelStep, Job!Steps

\* Who polls a bulk scan sees what BulkJob promises, for every number of targets
\* and permits and every set of cancel requests.
THEOREM BulkScanImplementsJob == Spec => ImplementsBulkJob
<1>1. ASSUME Init PROVE View = Job!Queued
  <2>1. Len(results) = 0
    BY <1>1, EmptySeq DEF Init
  <2>2. /\ (job # "created") = FALSE /\ Settled = FALSE
        /\ (cancel_requested \/ mute) = FALSE
    BY <1>1 DEF Init, Settled
  <2>. QED
    BY <2>1, <2>2, Zenon DEF View, Job!Queued
<1>2. IInv => View \in Job!Jobs
  BY ViewIsJob
<1>3. /\ IInv /\ [Next]_vars /\ View \in Job!Jobs /\ (View \in Job!Jobs)'
        => [View' \in Job!Steps(View)]_View
  BY JobStep
<1>. QED
  BY Invariance, <1>1, <1>2, <1>3, PTL DEF Spec, ImplementsBulkJob, Job!Spec
=============================================================================
