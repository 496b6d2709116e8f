-------------------------- MODULE UltraScanProofs --------------------------
(***************************************************************************)
(* Proofs about UltraScan, for every finite set of ports, every cap on the *)
(* tries and every number of sockets.                                      *)
(***************************************************************************)
EXTENDS UltraScan, FiniteSetTheorems, TLAPS

-----------------------------------------------------------------------------
(* The inductive invariant *)

\* A probe is told from the others by its port and its try; the superseded ones are
\* of earlier tries; one connect() returns at a time, and only while sending.
ListInv ==
    /\ \A p, q \in out :
          p.port = q.port /\ p.tryno = q.tryno /\ p.isPing = q.isPing => p = q
    /\ \A p \in out : p.isPing => ~p.retransmitted /\ p.tryno <= ping.seq
    /\ \A p \in out : ~p.isPing => p.tryno <= tries[p.port]
    /\ \A p \in out : ~p.isPing /\ p.retransmitted => p.tryno < tries[p.port]
    /\ \A x \in fresh : tries[x] = -1
    /\ \A p, q \in out : p.sd = "called" /\ q.sd = "called" => p = q
    /\ Calling => numSDs < MaxSockets /\ pc \in {"pings", "retransmits", "retries", "new"}

\* What the end of a port says of its state and its tries, and that a scan which is
\* over in time has ended every port.
EndInv ==
    /\ \A x \in Ports :
          /\ state[x] = "open" => x \in listening
          /\ fate[x] = "none" => state[x] = "default"
          /\ fate[x] = "answered" /\ x \in listening => state[x] \in {"open", "filtered"}
          /\ fate[x] = "given up" => tries[x] >= 1
          /\ pc \in {"done", "reported"} /\ ~late => fate[x] # "none"
    /\ pc = "reported" =>
          reported = IF late THEN {} ELSE {x \in Ports : state[x] = "open"}

\* No try and no wait is ahead of the limit; and while ports sit on the bench, none
\* has been tried more often than they: the detection of a rate limit delays the
\* first probe of a higher try until a pass has emptied the bench.
BenchInv ==
    /\ rld.max <= allowedTryno
    /\ \A x \in Ports : tries[x] <= allowedTryno
    /\ bench # {} =>
          /\ \A x \in Ports : tries[x] <= bench_tryno
          /\ \A r \in retry : r.tries < bench_tryno
          /\ pc \in {"pings", "retransmits"} => rld.max <= bench_tryno

IInv ==
    /\ TypeOk /\ Accounting /\ NoPortForgotten /\ TriesAllowed
    /\ ListInv /\ EndInv /\ BenchInv

-----------------------------------------------------------------------------
(* Probes and counts *)

\* What the records of the probe list hold.
LEMMA ProbeFields ==
  ASSUME NEW x \in Ports, NEW n \in Nat, NEW b \in BOOLEAN
  PROVE  /\ Probe(x, n, b) \in Probes
         /\ Probe(x, n, b).port = x /\ Probe(x, n, b).tryno = n
         /\ Probe(x, n, b).isPing = b /\ Probe(x, n, b).timedout = FALSE
         /\ Probe(x, n, b).retransmitted = FALSE /\ Probe(x, n, b).sd = "called"
BY DEF Probe, Probes

Opened(p, sd) == [p EXCEPT !.sd = sd]

LEMMA ChangedFields ==
  ASSUME NEW p \in Probes
  PROVE  /\ TimedOut(p) \in Probes /\ TimedOut(p).timedout = TRUE
         /\ TimedOut(p).sd = "closed" /\ TimedOut(p).retransmitted = p.retransmitted
         /\ TimedOut(p).port = p.port /\ TimedOut(p).tryno = p.tryno
         /\ TimedOut(p).isPing = p.isPing
         /\ Retransmitted(p) \in Probes /\ Retransmitted(p).retransmitted = TRUE
         /\ Retransmitted(p).timedout = p.timedout /\ Retransmitted(p).sd = p.sd
         /\ Retransmitted(p).port = p.port /\ Retransmitted(p).tryno = p.tryno
         /\ Retransmitted(p).isPing = p.isPing
         /\ \A sd \in {"watched", "unwatched"} :
              /\ Opened(p, sd) \in Probes /\ Opened(p, sd).sd = sd
              /\ Opened(p, sd).timedout = p.timedout
              /\ Opened(p, sd).retransmitted = p.retransmitted
              /\ Opened(p, sd).port = p.port /\ Opened(p, sd).tryno = p.tryno
              /\ Opened(p, sd).isPing = p.isPing
BY DEF TimedOut, Retransmitted, Opened, Probes

\* One element less, one more, and a part less, in numbers.
LEMMA CountOne ==
  ASSUME NEW S, IsFiniteSet(S), NEW e
  PROVE  /\ Count(S) \in Nat
         /\ IsFiniteSet(S \ {e}) /\ Count(S \ {e}) = Count(S) - One(e \in S)
         /\ IsFiniteSet(S \cup {e}) /\ (e \notin S => Count(S \cup {e}) = Count(S) + 1)
BY FS_CardinalityType, FS_AddElement, FS_RemoveElement DEF Count, One

LEMMA CountPart ==
  ASSUME NEW S, IsFiniteSet(S), NEW T, T \subseteq S
  PROVE  /\ IsFiniteSet(T) /\ Count(T) \in Nat
         /\ Count(S \ T) = Count(S) - Count(T)
         /\ Count(S) = 0 <=> S = {}
<1>1. IsFiniteSet(T)
  BY FS_Subset
<1>2. S \cap T = T
  OBVIOUS
<1>3. Count(T) \in Nat
  BY <1>1, FS_CardinalityType DEF Count
<1>4. Cardinality(S \ T) = Cardinality(S) - Cardinality(S \cap T)
  BY FS_Difference
<1>5. Count(S \ T) = Count(S) - Count(T)
  BY <1>2, <1>4 DEF Count
<1>6. Count(S) = 0 <=> S = {}
  BY FS_EmptySet DEF Count
<1>. QED
  BY <1>1, <1>3, <1>5, <1>6

LEMMA CountSum ==
  ASSUME NEW S, IsFiniteSet(S), NEW T, IsFiniteSet(T), S \cap T = {}
  PROVE  IsFiniteSet(S \cup T) /\ Count(S \cup T) = Count(S) + Count(T)
<1>1. Cardinality({}) = 0 /\ Cardinality(S) \in Nat /\ Cardinality(T) \in Nat
  BY FS_EmptySet, FS_CardinalityType
<1>2. /\ IsFiniteSet(S \cup T)
      /\ Cardinality(S \cup T) = Cardinality(S) + Cardinality(T) - Cardinality(S \cap T)
  BY FS_Union
<1>3. Cardinality(S \cap T) = 0
  BY <1>1
<1>. QED
  BY <1>1, <1>2, <1>3 DEF Count

-----------------------------------------------------------------------------
(* Type correctness *)

\* The parts of TypeOk the arithmetic needs.
LEMMA TypeInts ==
  TypeOk => /\ active \in Int /\ waiting \in Int /\ numSDs \in Int
            /\ max_successful_tryno \in Nat /\ bench_tryno \in Nat
            /\ tryno_cap \in Nat \ {0}
            /\ ping.port \in Ports \cup {NoPort} /\ ping.seq \in 0..MaxPings
            /\ ping.since \in 0..PingEvery /\ rld.max \in Nat
            /\ ping = [port |-> ping.port, since |-> ping.since, seq |-> ping.seq]
<1> SUFFICES ASSUME TypeOk
             PROVE  /\ active \in Int /\ waiting \in Int /\ numSDs \in Int
                    /\ max_successful_tryno \in Nat /\ bench_tryno \in Nat
                    /\ tryno_cap \in Nat \ {0}
                    /\ ping.port \in Ports \cup {NoPort} /\ ping.seq \in 0..MaxPings
                    /\ ping.since \in 0..PingEvery /\ rld.max \in Nat
                    /\ ping = [port |-> ping.port, since |-> ping.since, seq |-> ping.seq]
  OBVIOUS
<1>1. /\ active \in Int /\ waiting \in Int /\ numSDs \in Int
      /\ max_successful_tryno \in Nat /\ bench_tryno \in Nat
      /\ tryno_cap \in Caps
  BY Zenon DEF TypeOk
<1>2. ping \in [port : Ports \cup {NoPort}, since : 0..PingEvery, seq : 0..MaxPings]
  BY Zenon DEF TypeOk
<1>3. rld \in [at : {"off", "waiting", "over"}, max : Nat]
  BY Zenon DEF TypeOk
<1>. QED
  BY ONLY <1>1, <1>2, <1>3, LimitsAssumption

\* What a probe of the list and an entry of the retry stack are made of.
LEMMA ProbeTypes ==
  ASSUME TypeOk
  PROVE  /\ \A p \in out : /\ p \in Probes /\ p.port \in Ports /\ p.tryno \in Nat
                           /\ p.isPing \in BOOLEAN /\ p.timedout \in BOOLEAN
                           /\ p.retransmitted \in BOOLEAN
                           /\ p.sd \in {"called", "watched", "unwatched", "closed"}
         /\ \A r \in retry : /\ r.port \in Ports /\ r.tries \in Nat
                             /\ r = [port |-> r.port, tries |-> r.tries]
<1>1. out \subseteq Probes
  BY Zenon DEF TypeOk
<1>2. retry \subseteq [port : Ports, tries : Nat]
  BY Zenon DEF TypeOk
<1>. QED
  BY ONLY <1>1, <1>2 DEF Probes

LEMMA TypeInit == Init => TypeOk
<1> SUFFICES ASSUME Init PROVE TypeOk
  OBVIOUS
<1>1. IsFiniteSet(out)
  BY FS_EmptySet DEF Init
<1>2. rld \in [at : {"off", "waiting", "over"}, max : Nat]
  BY DEF Init
<1>3. ping \in [port : Ports \cup {NoPort}, since : 0..PingEvery, seq : 0..MaxPings]
  BY LimitsAssumption DEF Init
<1>4. tries \in [Ports -> Nat \cup {-1}]
  BY DEF Init
<1>5. /\ state \in [Ports -> {"default", "open", "closed", "filtered"}]
      /\ fate \in [Ports -> {"none", "answered", "given up", "failed"}]
  BY DEF Init
<1>6. /\ out \subseteq Probes /\ fresh \subseteq Ports /\ bench \subseteq Ports
      /\ retry \subseteq [port : Ports, tries : Nat] /\ reported \subseteq Ports
      /\ listening \subseteq Ports /\ tryno_cap \in Caps
      /\ pc \in {"pings", "retransmits", "retries", "new", "wait", "done", "reported"}
      /\ late \in BOOLEAN
  BY DEF Init
<1>7. /\ active \in Int /\ waiting \in Int /\ numSDs \in Int
      /\ bench_tryno \in Nat /\ max_successful_tryno \in Nat
  BY DEF Init
<1>. QED
  BY ONLY <1>1, <1>2, <1>3, <1>4, <1>5, <1>6, <1>7 DEF TypeOk

\* The effects on the list leave a finite list of probes and integer counters.
LEMMA TypeDestroy ==
  ASSUME TypeOk, NEW p \in out, destroyOutstandingProbe(p)
  PROVE  /\ out' \subseteq Probes /\ IsFiniteSet(out')
         /\ active' \in Int /\ waiting' \in Int /\ numSDs' \in Int
<1>1. /\ out \subseteq Probes /\ IsFiniteSet(out)
      /\ active \in Int /\ waiting \in Int /\ numSDs \in Int
  BY DEF TypeOk
<1>2. out' \subseteq Probes
  BY <1>1 DEF destroyOutstandingProbe
<1>3. IsFiniteSet(out')
  BY <1>1, FS_RemoveElement DEF destroyOutstandingProbe
<1>4. active' \in Int /\ waiting' \in Int /\ numSDs' \in Int
  BY <1>1 DEF destroyOutstandingProbe, One
<1>. QED
  BY <1>2, <1>3, <1>4

LEMMA TypeMark ==
  ASSUME TypeOk, NEW p \in out, markProbeTimedout(p)
  PROVE  /\ out' \subseteq Probes /\ IsFiniteSet(out')
         /\ active' \in Int /\ waiting' \in Int /\ numSDs' \in Int
<1>1. p \in Probes
  BY DEF TypeOk
<1>2. TimedOut(p) \in Probes
  BY <1>1, ChangedFields
<1>3. /\ out \subseteq Probes /\ IsFiniteSet(out)
      /\ active \in Int /\ waiting \in Int /\ numSDs \in Int
  BY DEF TypeOk
<1>4. out' \subseteq Probes
  BY <1>2, <1>3 DEF markProbeTimedout
<1>5. IsFiniteSet(out \ {p})
  BY <1>3, FS_RemoveElement
<1>6. IsFiniteSet(out')
  BY <1>5, FS_AddElement DEF markProbeTimedout
<1>7. active' \in Int /\ waiting' \in Int /\ numSDs' \in Int
  BY <1>3 DEF markProbeTimedout, One
<1>. QED
  BY <1>4, <1>6, <1>7

LEMMA TypeResult ==
  ASSUME TypeOk, NEW p \in out, NEW e \in Errnos, NEW d \in BOOLEAN,
         handleConnectResult(p, e, d)
  PROVE  /\ out' \subseteq Probes /\ IsFiniteSet(out')
         /\ active' \in Int /\ waiting' \in Int /\ numSDs' \in Int
         /\ state' \in [Ports -> {"default", "open", "closed", "filtered"}]
         /\ max_successful_tryno' \in Nat
         /\ ping' \in [port : Ports \cup {NoPort}, since : 0..PingEvery, seq : 0..MaxPings]
         /\ fate' \in [Ports -> {"none", "answered", "given up", "failed"}]
<1>1. p.port \in Ports /\ p.tryno \in Nat
  BY DEF TypeOk, Probes
<1>2. CASE markProbeTimedout(p) /\ UNCHANGED results
  BY <1>2, TypeMark DEF TypeOk, results
<1>3. CASE destroyOutstandingProbe(p) /\ UNCHANGED results
  BY <1>3, TypeDestroy DEF TypeOk, results
<1>4. ASSUME NEW new \in {"open", "closed", "filtered"}, ultrascan_port_probe_update(p, new)
      PROVE  /\ out' \subseteq Probes /\ IsFiniteSet(out')
             /\ active' \in Int /\ waiting' \in Int /\ numSDs' \in Int
             /\ state' \in [Ports -> {"default", "open", "closed", "filtered"}]
             /\ max_successful_tryno' \in Nat
             /\ ping' \in [port : Ports \cup {NoPort}, since : 0..PingEvery, seq : 0..MaxPings]
             /\ fate' \in [Ports -> {"none", "answered", "given up", "failed"}]
  <2>1. destroyOutstandingProbe(p) /\ PspecUpdate(p.port, new)
    BY <1>4 DEF ultrascan_port_probe_update
  <2>2. state' \in [Ports -> {"default", "open", "closed", "filtered"}]
    BY <2>1 DEF PspecUpdate, TypeOk
  <2>3. max_successful_tryno' \in Nat
    BY <1>1, <1>4 DEF ultrascan_port_probe_update, TypeOk
  <2>4. ping' \in [port : Ports \cup {NoPort}, since : 0..PingEvery, seq : 0..MaxPings]
    BY <1>1, <1>4 DEF ultrascan_port_probe_update, TypeOk
  <2>5. fate' \in [Ports -> {"none", "answered", "given up", "failed"}]
    BY <1>1, <1>4 DEF ultrascan_port_probe_update, TypeOk
  <2>. QED
    BY <2>1, <2>2, <2>3, <2>4, <2>5, TypeDestroy
<1>5. CASE /\ destroyOutstandingProbe(p)
           /\ fate' = IF p.isPing THEN fate ELSE [fate EXCEPT ![p.port] = "failed"]
           /\ UNCHANGED <<state, max_successful_tryno, ping>>
  BY <1>1, <1>5, TypeDestroy DEF TypeOk
<1>. QED
  BY <1>2, <1>3, <1>4, <1>5 DEF handleConnectResult

LEMMA TypeSweep ==
  ASSUME TypeOk, NEW aged \in SUBSET out, Sweep(aged)
  PROVE  /\ out' \subseteq Probes /\ IsFiniteSet(out')
         /\ active' \in Int /\ waiting' \in Int /\ numSDs' \in Int
         /\ bench' \subseteq Ports /\ bench_tryno' \in Nat
         /\ retry' \subseteq [port : Ports, tries : Nat]
         /\ fate' \in [Ports -> {"none", "answered", "given up", "failed"}]
<1> DEFINE marked == {p \in aged : ~p.timedout}
           given == {p \in out : Waits(p) /\ ~MayIncrease /\ p.tryno >= allowedTryno}
           moved == {p \in aged : Waits(p) /\ MayIncrease /\ p.tryno >= allowedTryno}
           gone == {p \in aged : p.timedout /\ (p.isPing \/ p.retransmitted)}
           late_ == {TimedOut(p) : p \in marked}
<1>1. /\ IsFiniteSet(out) /\ out \subseteq Probes
      /\ bench \subseteq Ports /\ bench_tryno \in Nat
      /\ retry \subseteq [port : Ports, tries : Nat]
      /\ active \in Int /\ waiting \in Int /\ numSDs \in Int
  BY DEF TypeOk
<1>2. /\ Count(marked) \in Nat /\ Count(given) \in Nat /\ Count(moved) \in Nat
      /\ Count({p \in marked : ~p.isPing}) \in Nat
      /\ Count({p \in marked : p.sd = "watched"}) \in Nat
      /\ IsFiniteSet(marked)
  <2>1. /\ marked \subseteq out /\ given \subseteq out /\ moved \subseteq out
        /\ {p \in marked : ~p.isPing} \subseteq out
        /\ {p \in marked : p.sd = "watched"} \subseteq out
    OBVIOUS
  <2>. QED
    BY <1>1, <2>1, CountPart
<1>3. late_ \subseteq Probes
  <2> SUFFICES ASSUME NEW p \in marked PROVE TimedOut(p) \in Probes
    OBVIOUS
  <2>1. p \in Probes
    BY <1>1
  <2>. QED
    BY <2>1, ChangedFields
<1>4. IsFiniteSet(late_)
  <2>1. late_ = {TimedOut(p) : p \in marked}
    OBVIOUS
  <2>. DEFINE f == [p \in marked |-> TimedOut(p)]
  <2>2. f \in Surjection(marked, late_)
    BY DEF Surjection
  <2>. QED
    BY <1>2, <2>2, FS_Surjection
<1>5. out' = (out \ (marked \cup given \cup moved \cup gone)) \cup late_
  BY DEF Sweep
<1>6. IsFiniteSet(out')
  BY <1>1, <1>4, <1>5, FS_Difference, FS_Union
<1>7. /\ active' = active - Count(marked)
      /\ waiting' = waiting + Count({p \in marked : ~p.isPing}) - Count(given) - Count(moved)
      /\ numSDs' = numSDs - Count({p \in marked : p.sd = "watched"})
  BY DEF Sweep
<1>12. active' \in Int /\ waiting' \in Int /\ numSDs' \in Int
  BY <1>1, <1>2, <1>7
<1>8. bench' \subseteq Ports
  BY <1>1 DEF Sweep, Benched, Probes
<1>9. bench_tryno' \in Nat
  <2>1. moved # {} => (CHOOSE p \in moved : TRUE) \in Probes
    BY <1>1
  <2>. QED
    BY <1>1, <2>1 DEF Sweep, Probes
<1>10. retry' \subseteq [port : Ports, tries : Nat]
  BY <1>1 DEF Sweep
<1>11. fate' \in [Ports -> {"none", "answered", "given up", "failed"}]
  BY DEF Sweep, TypeOk
<1>. QED
  BY <1>1, <1>3, <1>5, <1>6, <1>12, <1>8, <1>9, <1>10, <1>11

LEMMA TypeConnect ==
  ASSUME TypeOk, NEW p \in out, ConnectReturns(p) \/ do_one_select_round(p)
  PROVE  TypeOk'
<1>1. p \in Probes /\ IsFiniteSet(out) /\ out \subseteq Probes
  BY DEF TypeOk
<1>2. UNCHANGED <<host, pc, plan>>
  BY Zenon DEF ConnectReturns, do_one_select_round
<1>3. ASSUME NEW e \in Errnos, NEW d \in BOOLEAN, handleConnectResult(p, e, d)
      PROVE  TypeOk'
  <2>1. /\ out' \subseteq Probes /\ IsFiniteSet(out')
        /\ active' \in Int /\ waiting' \in Int /\ numSDs' \in Int
        /\ state' \in [Ports -> {"default", "open", "closed", "filtered"}]
        /\ max_successful_tryno' \in Nat
        /\ ping' \in [port : Ports \cup {NoPort}, since : 0..PingEvery, seq : 0..MaxPings]
        /\ fate' \in [Ports -> {"none", "answered", "given up", "failed"}]
    BY <1>3, TypeResult
  <2>2. pc' \in {"pings", "retransmits", "retries", "new", "wait", "done", "reported"}
    BY DEF ConnectReturns, do_one_select_round, TypeOk
  <2>. QED
    BY <1>2, <2>1, <2>2 DEF TypeOk, host, plan
<1>4. ASSUME NEW sd \in {"watched", "unwatched"},
             out' = (out \ {p}) \cup {Opened(p, sd)},
             numSDs' \in Int, UNCHANGED <<active, waiting, results>>
      PROVE  TypeOk'
  <2>1. Opened(p, sd) \in Probes
    BY <1>1, ChangedFields
  <2>2. IsFiniteSet(out \ {p})
    BY <1>1, FS_RemoveElement
  <2>3. IsFiniteSet(out')
    BY <1>4, <2>2, FS_AddElement
  <2>4. out' \subseteq Probes
    BY <1>1, <1>4, <2>1
  <2>. QED
    BY <1>2, <1>4, <2>3, <2>4 DEF TypeOk, host, plan, results
<1>5. numSDs + 1 \in Int /\ numSDs \in Int
  BY ONLY TypeOk, TypeInts
<1>. QED
  BY <1>3, <1>4, <1>5 DEF ConnectReturns, do_one_select_round, Opened, counts

\* A new probe is added.
LEMMA TypeAdd ==
  ASSUME TypeOk, NEW x \in Ports, NEW n \in Nat, NEW b \in BOOLEAN,
         NEW old, out' = (out \ old) \cup {Probe(x, n, b)}
  PROVE  out' \subseteq Probes /\ IsFiniteSet(out')
<1>1. IsFiniteSet(out) /\ out \subseteq Probes
  BY DEF TypeOk
<1>2. IsFiniteSet(out \ old)
  BY <1>1, FS_Difference
<1>3. IsFiniteSet(out')
  BY <1>2, FS_AddElement
<1>4. Probe(x, n, b) \in Probes
  BY ProbeFields
<1>. QED
  BY <1>1, <1>3, <1>4

LEMMA TypeSent ==
  TypeOk => Sent \in [port : Ports \cup {NoPort}, since : 0..PingEvery, seq : 0..MaxPings]
BY TypeInts, LimitsAssumption DEF Sent

LEMMA TypeTries ==
  ASSUME TypeOk, NEW x \in Ports, NEW n \in Nat
  PROVE  [tries EXCEPT ![x] = n] \in [Ports -> Nat \cup {-1}]
BY DEF TypeOk

LEMMA TypeRetransmit ==
  ASSUME TypeOk, NEW p \in out, Retransmit(p)
  PROVE  TypeOk'
<1>1. p \in Probes /\ IsFiniteSet(out) /\ out \subseteq Probes
  BY DEF TypeOk
<1>2. p.port \in Ports /\ p.tryno + 1 \in Nat
  BY <1>1 DEF Probes
<1>3. Retransmitted(p) \in Probes /\ Probe(p.port, p.tryno + 1, FALSE) \in Probes
  BY <1>1, <1>2, ChangedFields, ProbeFields
<1>4. out' = ((out \ {p}) \cup {Retransmitted(p)}) \cup {Probe(p.port, p.tryno + 1, FALSE)}
  BY DEF Retransmit
<1>5. IsFiniteSet((out \ {p}) \cup {Retransmitted(p)})
  BY <1>1, FS_RemoveElement, FS_AddElement
<1>6. out' \subseteq Probes /\ IsFiniteSet(out')
  BY <1>1, <1>3, <1>4, <1>5, FS_AddElement
<1>7. active' \in Int /\ waiting' \in Int
  BY TypeInts DEF Retransmit
<1>8. rld' \in [at : {"off", "waiting", "over"}, max : Nat]
  BY DEF Retransmit, TypeOk
<1>9. ping' = Sent /\ tries' = [tries EXCEPT ![p.port] = p.tryno + 1]
  BY DEF Retransmit
<1>10. UNCHANGED <<host, pc, fresh, bench, bench_tryno, retry, numSDs, state,
                   max_successful_tryno, fate>>
  BY DEF Retransmit
<1>. QED
  BY <1>2, <1>6, <1>7, <1>8, <1>9, <1>10, TypeSent, TypeTries DEF TypeOk, host

LEMMA TypeRetry ==
  ASSUME TypeOk, NEW r \in retry, sendNextRetryStackProbe(r)
  PROVE  TypeOk'
<1>1. r.port \in Ports /\ r.tries + 1 \in Nat
  BY ProbeTypes
<1>2. out' = (out \ {}) \cup {Probe(r.port, r.tries + 1, FALSE)}
  BY DEF sendNextRetryStackProbe
<1>3. out' \subseteq Probes /\ IsFiniteSet(out')
  BY <1>1, <1>2, TypeAdd
<1>7. active' \in Int
  BY TypeInts DEF sendNextRetryStackProbe
<1>4. retry' \subseteq [port : Ports, tries : Nat]
  BY DEF sendNextRetryStackProbe, TypeOk
<1>5. ping' = Sent /\ tries' = [tries EXCEPT ![r.port] = r.tries + 1]
  BY DEF sendNextRetryStackProbe
<1>6. UNCHANGED <<host, pc, fresh, bench, bench_tryno, rld, waiting, numSDs, state,
                   max_successful_tryno, fate>>
  BY DEF sendNextRetryStackProbe
<1>. QED
  BY <1>1, <1>3, <1>4, <1>5, <1>6, <1>7, TypeSent, TypeTries DEF TypeOk, host

LEMMA TypeNew ==
  ASSUME TypeOk, NEW x \in fresh, sendNextScanProbe(x)
  PROVE  TypeOk'
<1>1. x \in Ports /\ fresh' \subseteq Ports
  BY DEF TypeOk, sendNextScanProbe
<1>2. out' = (out \ {}) \cup {Probe(x, 0, FALSE)}
  BY DEF sendNextScanProbe
<1>3. out' \subseteq Probes /\ IsFiniteSet(out')
  BY <1>1, <1>2, TypeAdd
<1>4. active' \in Int
  BY TypeInts DEF sendNextScanProbe
<1>5. ping' = Sent /\ tries' = [tries EXCEPT ![x] = 0]
  BY DEF sendNextScanProbe
<1>6. UNCHANGED <<host, pc, bench, bench_tryno, retry, rld, waiting, numSDs, state,
                   max_successful_tryno, fate>>
  BY DEF sendNextScanProbe
<1>. QED
  BY <1>1, <1>3, <1>4, <1>5, <1>6, TypeSent, TypeTries DEF TypeOk, host

LEMMA TypePing ==
  ASSUME TypeOk, doAnyPings
  PROVE  TypeOk'
<1>1. /\ ping \in [port : Ports \cup {NoPort}, since : 0..PingEvery, seq : 0..MaxPings]
      /\ ping.port # NoPort /\ ping.seq < MaxPings
  BY DEF TypeOk, doAnyPings
<1>2. ping.port \in Ports /\ ping.seq + 1 \in Nat
  BY <1>1, LimitsAssumption
<1>3. out' = (out \ {}) \cup {Probe(ping.port, ping.seq + 1, TRUE)}
  BY DEF doAnyPings
<1>4. out' \subseteq Probes /\ IsFiniteSet(out')
  BY <1>2, <1>3, TypeAdd
<1>5. active' \in Int /\ pc' = "retransmits"
  BY TypeInts DEF doAnyPings
<1>6. ping' = [ping EXCEPT !.since = 0, !.seq = @ + 1]
  BY DEF doAnyPings
<1>9. ping' = [port |-> ping.port, since |-> 0, seq |-> ping.seq + 1]
  BY <1>6, TypeInts
<1>10. ping.seq + 1 \in 0..MaxPings /\ 0 \in 0..PingEvery
  BY <1>1, TypeInts, LimitsAssumption
<1>7. ping' \in [port : Ports \cup {NoPort}, since : 0..PingEvery, seq : 0..MaxPings]
  BY <1>9, <1>10, TypeInts
<1>8. UNCHANGED <<host, plan, waiting, numSDs, state, max_successful_tryno, fate>>
  BY DEF doAnyPings
<1>. QED
  BY <1>4, <1>5, <1>7, <1>8 DEF TypeOk, host, plan

LEMMA TypeProcess ==
  ASSUME TypeOk, NEW aged \in SUBSET out, processData(aged)
  PROVE  TypeOk'
<1>1. UNCHANGED <<host, state, max_successful_tryno, ping, rld, tries>>
  BY DEF processData
<1>2. pc' \in {"pings", "done"}
  BY DEF processData
<1>3. CASE UNCHANGED <<queues, counts, fate>>
  BY <1>1, <1>2, <1>3 DEF TypeOk, host, queues, counts
<1>4. CASE UNCHANGED fresh /\ Sweep(aged)
  BY <1>1, <1>2, <1>4, TypeSweep DEF TypeOk, host
<1>. QED
  BY <1>3, <1>4 DEF processData

LEMMA TypeNext == TypeOk /\ [Next]_vars => TypeOk'
<1> SUFFICES ASSUME TypeOk, [Next]_vars PROVE TypeOk'
  OBVIOUS
<1>1. CASE UNCHANGED vars
  BY <1>1 DEF TypeOk, vars, queues, counts, results
<1>2. ASSUME NEW p \in out, ConnectReturns(p) \/ do_one_select_round(p) PROVE TypeOk'
  BY <1>2, TypeConnect
<1>3. ASSUME NEW p \in out, StartRateLimitDetection(p) PROVE TypeOk'
  <2>1. p.tryno + 1 \in Nat
    BY ProbeTypes
  <2>2. rld' \in [at : {"off", "waiting", "over"}, max : Nat]
    BY <1>3, <2>1 DEF StartRateLimitDetection
  <2>. QED
    BY <1>3, <2>2 DEF StartRateLimitDetection, TypeOk, host, queues, counts, results
<1>4. ASSUME NEW p \in out, Retransmit(p) PROVE TypeOk'
  BY <1>4, TypeRetransmit
<1>5. ASSUME NEW r \in retry, sendNextRetryStackProbe(r) PROVE TypeOk'
  BY <1>5, TypeRetry
<1>6. ASSUME NEW x \in fresh, sendNextScanProbe(x) PROVE TypeOk'
  BY <1>6, TypeNew
<1>7. CASE NextCall
  BY <1>7 DEF NextCall, TypeOk, host, queues, counts, results
<1>8. CASE doAnyPings
  BY <1>8, TypePing
<1>9. CASE RldTimeOver
  <2>1. rld' \in [at : {"off", "waiting", "over"}, max : Nat]
    BY <1>9 DEF RldTimeOver, TypeOk
  <2>. QED
    BY <1>9, <2>1 DEF RldTimeOver, TypeOk, host, queues, counts, results
<1>10. CASE HostTimeout
  BY <1>10 DEF HostTimeout, TypeOk, queues, counts, results
<1>11. CASE Report
  BY <1>11 DEF Report, TypeOk, queues, counts, results
<1>12. ASSUME NEW aged \in SUBSET out, processData(aged) PROVE TypeOk'
  BY <1>12, TypeProcess
<1>. QED
  BY <1>1, <1>2, <1>3, <1>4, <1>5, <1>6, <1>7, <1>8, <1>9, <1>10, <1>11, <1>12 DEF Next

-----------------------------------------------------------------------------
(* The counters are the counts of the list *)

Up(S) == {p \in S : ~p.timedout}
Waiting(S) == {p \in S : Waits(p)}
Watched(S) == {p \in S : p.sd = "watched"}

LEMMA CountAdd ==
  ASSUME NEW S, IsFiniteSet(S), NEW q, q \notin S
  PROVE  /\ Count(Up(S \cup {q})) = Count(Up(S)) + One(~q.timedout)
         /\ Count(Waiting(S \cup {q})) = Count(Waiting(S)) + One(Waits(q))
         /\ Count(Watched(S \cup {q})) = Count(Watched(S)) + One(q.sd = "watched")
<1>1. /\ IsFiniteSet(Up(S)) /\ IsFiniteSet(Waiting(S)) /\ IsFiniteSet(Watched(S))
      /\ Count(Up(S)) \in Nat /\ Count(Waiting(S)) \in Nat /\ Count(Watched(S)) \in Nat
  <2>1. Up(S) \subseteq S /\ Waiting(S) \subseteq S /\ Watched(S) \subseteq S
    BY DEF Up, Waiting, Watched
  <2>. QED
    BY <2>1, CountPart
<1>2. q \notin Up(S) /\ q \notin Waiting(S) /\ q \notin Watched(S)
  BY DEF Up, Waiting, Watched
<1>3. Count(Up(S \cup {q})) = Count(Up(S)) + One(~q.timedout)
  <2>1. CASE q.timedout
    <3>1. Up(S \cup {q}) = Up(S)
      BY <2>1 DEF Up
    <3>. QED
      BY <1>1, <2>1, <3>1 DEF One
  <2>2. CASE ~q.timedout
    <3>1. Up(S \cup {q}) = Up(S) \cup {q}
      BY <2>2 DEF Up
    <3>2. Count(Up(S) \cup {q}) = Count(Up(S)) + 1
      BY <1>1, <1>2, CountOne
    <3>. QED
      BY <2>2, <3>1, <3>2 DEF One
  <2>. QED
    BY <2>1, <2>2
<1>4. Count(Waiting(S \cup {q})) = Count(Waiting(S)) + One(Waits(q))
  <2>1. CASE ~Waits(q)
    <3>1. Waiting(S \cup {q}) = Waiting(S)
      BY <2>1 DEF Waiting
    <3>. QED
      BY <1>1, <2>1, <3>1 DEF One
  <2>2. CASE Waits(q)
    <3>1. Waiting(S \cup {q}) = Waiting(S) \cup {q}
      BY <2>2 DEF Waiting
    <3>2. Count(Waiting(S) \cup {q}) = Count(Waiting(S)) + 1
      BY <1>1, <1>2, CountOne
    <3>. QED
      BY <2>2, <3>1, <3>2 DEF One
  <2>. QED
    BY <2>1, <2>2
<1>5. Count(Watched(S \cup {q})) = Count(Watched(S)) + One(q.sd = "watched")
  <2>1. CASE q.sd # "watched"
    <3>1. Watched(S \cup {q}) = Watched(S)
      BY <2>1 DEF Watched
    <3>. QED
      BY <1>1, <2>1, <3>1 DEF One
  <2>2. CASE q.sd = "watched"
    <3>1. Watched(S \cup {q}) = Watched(S) \cup {q}
      BY <2>2 DEF Watched
    <3>2. Count(Watched(S) \cup {q}) = Count(Watched(S)) + 1
      BY <1>1, <1>2, CountOne
    <3>. QED
      BY <2>2, <3>1, <3>2 DEF One
  <2>. QED
    BY <2>1, <2>2
<1>. QED
  BY <1>3, <1>4, <1>5

\* One probe leaves the list: it was the list without it, and then it came.
LEMMA CountRemove ==
  ASSUME NEW S, IsFiniteSet(S), NEW p \in S
  PROVE  /\ IsFiniteSet(S \ {p})
         /\ Count(Up(S \ {p})) = Count(Up(S)) - One(~p.timedout)
         /\ Count(Waiting(S \ {p})) = Count(Waiting(S)) - One(Waits(p))
         /\ Count(Watched(S \ {p})) = Count(Watched(S)) - One(p.sd = "watched")
<1>1. IsFiniteSet(S \ {p})
  BY FS_RemoveElement
<1> DEFINE R == S \ {p}
<1>2. S = R \cup {p} /\ p \notin R
  OBVIOUS
<1>3. /\ Count(Up(R)) \in Nat /\ Count(Waiting(R)) \in Nat /\ Count(Watched(R)) \in Nat
  <2>1. Up(R) \subseteq R /\ Waiting(R) \subseteq R /\ Watched(R) \subseteq R
    BY DEF Up, Waiting, Watched
  <2>. QED
    BY <1>1, <2>1, CountPart
<1> HIDE DEF R
<1>4. /\ Count(Up(S)) = Count(Up(R)) + One(~p.timedout)
      /\ Count(Waiting(S)) = Count(Waiting(R)) + One(Waits(p))
      /\ Count(Watched(S)) = Count(Watched(R)) + One(p.sd = "watched")
  <2>1. IsFiniteSet(R)
    BY <1>1 DEF R
  <2>. QED
    BY <1>2, <2>1, CountAdd
<1>5. /\ Count(Up(R)) = Count(Up(S)) - One(~p.timedout)
      /\ Count(Waiting(R)) = Count(Waiting(S)) - One(Waits(p))
      /\ Count(Watched(R)) = Count(Watched(S)) - One(p.sd = "watched")
  BY <1>3, <1>4 DEF One
<1>. QED
  BY <1>1, <1>5 DEF R

\* One probe takes the place of another.
LEMMA CountReplace ==
  ASSUME NEW S, IsFiniteSet(S), NEW p \in S, NEW q, q \notin S
  PROVE  LET T == (S \ {p}) \cup {q}
         IN  /\ IsFiniteSet(T)
             /\ Count(Up(T)) = Count(Up(S)) - One(~p.timedout) + One(~q.timedout)
             /\ Count(Waiting(T)) = Count(Waiting(S)) - One(Waits(p)) + One(Waits(q))
             /\ Count(Watched(T)) =
                   Count(Watched(S)) - One(p.sd = "watched") + One(q.sd = "watched")
<1>1. IsFiniteSet(S \ {p}) /\ q \notin S \ {p}
  BY CountRemove
<1>2. IsFiniteSet((S \ {p}) \cup {q})
  BY <1>1, FS_AddElement
<1>3. /\ Count(Up((S \ {p}) \cup {q})) = Count(Up(S \ {p})) + One(~q.timedout)
      /\ Count(Waiting((S \ {p}) \cup {q})) = Count(Waiting(S \ {p})) + One(Waits(q))
      /\ Count(Watched((S \ {p}) \cup {q})) = Count(Watched(S \ {p})) + One(q.sd = "watched")
  BY <1>1, CountAdd
<1>4. /\ Count(Up(S \ {p})) = Count(Up(S)) - One(~p.timedout)
      /\ Count(Waiting(S \ {p})) = Count(Waiting(S)) - One(Waits(p))
      /\ Count(Watched(S \ {p})) = Count(Watched(S)) - One(p.sd = "watched")
  BY CountRemove
<1>. QED
  BY <1>2, <1>3, <1>4

Counters ==
  /\ active = Count(Up(out)) /\ waiting = Count(Waiting(out))
  /\ numSDs = Count(Watched(out))

LEMMA CountersIff ==
  Accounting <=> /\ Counters /\ numSDs <= MaxSockets
                 /\ \A p \in out : /\ p.retransmitted => p.timedout
                                   /\ p.timedout <=> p.sd = "closed"
BY DEF Accounting, Counters, Up, Waiting, Watched

\* Another record of the same try is not in the list.
LEMMA NotListed ==
  ASSUME ListInv, NEW p \in out, NEW q, q # p,
         q.port = p.port, q.tryno = p.tryno, q.isPing = p.isPing
  PROVE  q \notin out
BY DEF ListInv

LEMMA AccountingAdd ==
  ASSUME TypeOk, Accounting, NEW x \in Ports, NEW n \in Nat, NEW b \in BOOLEAN,
         Probe(x, n, b) \notin out, out' = out \cup {Probe(x, n, b)},
         active' = active + 1, UNCHANGED <<waiting, numSDs>>
  PROVE  Accounting'
<1> DEFINE q == Probe(x, n, b)
<1>1. q.timedout = FALSE /\ q.retransmitted = FALSE /\ q.sd = "called"
  BY DEF Probe
<1>2. IsFiniteSet(out)
  BY DEF TypeOk
<1> HIDE DEF q
<1>3. /\ Count(Up(out')) = Count(Up(out)) + One(~q.timedout)
      /\ Count(Waiting(out')) = Count(Waiting(out)) + One(Waits(q))
      /\ Count(Watched(out')) = Count(Watched(out)) + One(q.sd = "watched")
  BY <1>2, CountAdd DEF q
<1>4. One(~q.timedout) = 1 /\ One(Waits(q)) = 0 /\ One(q.sd = "watched") = 0
  BY <1>1 DEF One, Waits
<1>5. active = Count(Up(out)) /\ waiting = Count(Waiting(out)) /\ numSDs = Count(Watched(out))
  BY DEF Accounting, Up, Waiting, Watched
<1>6. active' = Count(Up(out')) /\ waiting' = Count(Waiting(out')) /\ numSDs' = Count(Watched(out'))
  BY <1>3, <1>4, <1>5, TypeInts
<1>7. \A p \in out' : (p.retransmitted => p.timedout) /\ (p.timedout <=> p.sd = "closed")
  BY <1>1 DEF Accounting, q
<1>8. numSDs' <= MaxSockets
  BY DEF Accounting
<1>. QED
  BY <1>6, <1>7, <1>8 DEF Accounting, Up, Waiting, Watched

LEMMA AccountingDestroy ==
  ASSUME TypeOk, Accounting, NEW p \in out, destroyOutstandingProbe(p)
  PROVE  Accounting'
<1>1. IsFiniteSet(out)
  BY DEF TypeOk
<1>2. /\ Count(Up(out')) = Count(Up(out)) - One(~p.timedout)
      /\ Count(Waiting(out')) = Count(Waiting(out)) - One(Waits(p))
      /\ Count(Watched(out')) = Count(Watched(out)) - One(p.sd = "watched")
  BY <1>1, CountRemove DEF destroyOutstandingProbe
<1>3. active = Count(Up(out)) /\ waiting = Count(Waiting(out)) /\ numSDs = Count(Watched(out))
  BY DEF Accounting, Up, Waiting, Watched
<1>4. active' = Count(Up(out')) /\ waiting' = Count(Waiting(out')) /\ numSDs' = Count(Watched(out'))
  BY <1>2, <1>3 DEF destroyOutstandingProbe
<1>5. \A r \in out' : (r.retransmitted => r.timedout) /\ (r.timedout <=> r.sd = "closed")
  BY DEF Accounting, destroyOutstandingProbe
<1>6. numSDs' <= MaxSockets
  BY TypeInts, LimitsAssumption DEF Accounting, destroyOutstandingProbe, One
<1>. QED
  BY <1>4, <1>5, <1>6 DEF Accounting, Up, Waiting, Watched

LEMMA AccountingMark ==
  ASSUME TypeOk, Accounting, ListInv, NEW p \in out, ~p.timedout, markProbeTimedout(p)
  PROVE  Accounting'
<1> DEFINE q == TimedOut(p)
<1>1. /\ p \in Probes /\ IsFiniteSet(out)
      /\ p.isPing \in BOOLEAN /\ p.timedout = FALSE /\ p.retransmitted = FALSE
  BY ProbeTypes DEF TypeOk, Accounting
<1>2. /\ q.timedout = TRUE /\ q.sd = "closed" /\ q.retransmitted = FALSE
      /\ q.port = p.port /\ q.tryno = p.tryno /\ q.isPing = p.isPing
  BY <1>1, ChangedFields
<1>3. out' = (out \ {p}) \cup {q}
  BY DEF markProbeTimedout
<1>. HIDE DEF q
<1>4. q \notin out
  BY <1>1, <1>2, NotListed
<1>5. /\ Count(Up(out')) = Count(Up(out)) - One(~p.timedout) + One(~q.timedout)
      /\ Count(Waiting(out')) = Count(Waiting(out)) - One(Waits(p)) + One(Waits(q))
      /\ Count(Watched(out')) =
            Count(Watched(out)) - One(p.sd = "watched") + One(q.sd = "watched")
  BY <1>1, <1>3, <1>4, CountReplace
<1>6. active = Count(Up(out)) /\ waiting = Count(Waiting(out)) /\ numSDs = Count(Watched(out))
  BY DEF Accounting, Up, Waiting, Watched
<1>7. /\ One(~p.timedout) = 1 /\ One(~q.timedout) = 0
      /\ One(Waits(p)) = 0 /\ One(Waits(q)) = One(~p.isPing) /\ One(q.sd = "watched") = 0
      /\ One(p.sd = "watched") \in {0, 1} /\ One(~p.isPing) \in {0, 1}
  BY <1>1, <1>2 DEF One, Waits
<1>8. active' = Count(Up(out')) /\ waiting' = Count(Waiting(out')) /\ numSDs' = Count(Watched(out'))
  BY <1>5, <1>6, <1>7, TypeInts DEF markProbeTimedout
<1>9. \A r \in out' : (r.retransmitted => r.timedout) /\ (r.timedout <=> r.sd = "closed")
  BY <1>2, <1>3 DEF Accounting
<1>10. numSDs' <= MaxSockets
  BY <1>7, TypeInts, LimitsAssumption DEF Accounting, markProbeTimedout
<1>. QED
  BY <1>8, <1>9, <1>10 DEF Accounting, Up, Waiting, Watched

\* connect() is in progress, or its socket is left alone.
LEMMA AccountingOpened ==
  ASSUME TypeOk, Accounting, ListInv, NEW p \in out, p.sd = "called",
         NEW sd \in {"watched", "unwatched"}, out' = (out \ {p}) \cup {Opened(p, sd)},
         numSDs' = numSDs + One(sd = "watched"), UNCHANGED <<active, waiting>>
  PROVE  Accounting'
<1> DEFINE q == Opened(p, sd)
<1>1. /\ p \in Probes /\ IsFiniteSet(out)
      /\ p.isPing \in BOOLEAN /\ p.timedout = FALSE /\ p.retransmitted = FALSE
  BY ProbeTypes DEF TypeOk, Accounting
<1>2. /\ q.timedout = FALSE /\ q.sd = sd /\ q.retransmitted = FALSE
      /\ q.port = p.port /\ q.tryno = p.tryno /\ q.isPing = p.isPing
  BY <1>1 DEF Opened, Probes
<1>3. out' = (out \ {p}) \cup {q}
  OBVIOUS
<1>. HIDE DEF q
<1>4. q \notin out
  BY <1>1, <1>2, NotListed
<1>5. /\ Count(Up(out')) = Count(Up(out)) - One(~p.timedout) + One(~q.timedout)
      /\ Count(Waiting(out')) = Count(Waiting(out)) - One(Waits(p)) + One(Waits(q))
      /\ Count(Watched(out')) =
            Count(Watched(out)) - One(p.sd = "watched") + One(q.sd = "watched")
  BY <1>1, <1>3, <1>4, CountReplace
<1>6. active = Count(Up(out)) /\ waiting = Count(Waiting(out)) /\ numSDs = Count(Watched(out))
  BY DEF Accounting, Up, Waiting, Watched
<1>7. /\ One(~p.timedout) = 1 /\ One(~q.timedout) = 1
      /\ One(Waits(p)) = 0 /\ One(Waits(q)) = 0
      /\ One(p.sd = "watched") = 0 /\ One(q.sd = "watched") = One(sd = "watched")
      /\ One(sd = "watched") \in {0, 1}
  BY <1>1, <1>2 DEF One, Waits
<1>8. active' = Count(Up(out')) /\ waiting' = Count(Waiting(out')) /\ numSDs' = Count(Watched(out'))
  BY <1>5, <1>6, <1>7, TypeInts
<1>9. \A r \in out' : (r.retransmitted => r.timedout) /\ (r.timedout <=> r.sd = "closed")
  BY <1>2, <1>3 DEF Accounting
<1>10. numSDs' <= MaxSockets
  <2>1. numSDs < MaxSockets
    BY DEF ListInv, Calling
  <2>. QED
    BY <1>7, <2>1, TypeInts, LimitsAssumption
<1>. QED
  BY <1>8, <1>9, <1>10 DEF Accounting, Up, Waiting, Watched

LEMMA AccountingRetransmit ==
  ASSUME TypeOk, Accounting, ListInv, TriesAllowed, NEW p \in out, Retransmit(p)
  PROVE  Accounting'
<1> DEFINE q == Retransmitted(p)
           n == Probe(p.port, p.tryno + 1, FALSE)
<1>1. /\ p \in Probes /\ IsFiniteSet(out) /\ p.port \in Ports /\ p.tryno \in Nat
      /\ p.isPing = FALSE /\ p.timedout = TRUE /\ p.retransmitted = FALSE /\ p.sd = "closed"
      /\ p.tryno = tries[p.port]
  BY ProbeTypes DEF TypeOk, Accounting, Retransmit, Waits, TriesAllowed, Live
<1>2. /\ q.timedout = TRUE /\ q.sd = "closed" /\ q.retransmitted = TRUE
      /\ q.port = p.port /\ q.tryno = p.tryno /\ q.isPing = FALSE
  BY <1>1, ChangedFields
<1>3. /\ n.timedout = FALSE /\ n.sd = "called" /\ n.retransmitted = FALSE
      /\ n.port = p.port /\ n.tryno = p.tryno + 1 /\ n.isPing = FALSE
  BY DEF Probe
<1>4. /\ out' = ((out \ {p}) \cup {q}) \cup {n}
      /\ active' = active + 1 /\ waiting' = waiting - 1 /\ numSDs' = numSDs
  BY DEF Retransmit
<1>. HIDE DEF q, n
<1>5. q \notin out
  BY <1>1, <1>2, NotListed
<1>6. n \notin (out \ {p}) \cup {q}
  <2>1. \A r \in out : ~r.isPing => r.tryno <= tries[r.port]
    BY DEF ListInv
  <2>2. n # q
    BY <1>1, <1>2, <1>3
  <2>3. n \notin out
    BY <1>1, <1>3, <2>1
  <2>. QED
    BY <2>2, <2>3
<1>7. LET T == (out \ {p}) \cup {q}
      IN  /\ IsFiniteSet(T)
          /\ Count(Up(T)) = Count(Up(out)) - One(~p.timedout) + One(~q.timedout)
          /\ Count(Waiting(T)) = Count(Waiting(out)) - One(Waits(p)) + One(Waits(q))
          /\ Count(Watched(T)) =
                Count(Watched(out)) - One(p.sd = "watched") + One(q.sd = "watched")
  BY <1>1, <1>5, CountReplace
<1>8. LET T == (out \ {p}) \cup {q}
      IN  /\ Count(Up(out')) = Count(Up(T)) + One(~n.timedout)
          /\ Count(Waiting(out')) = Count(Waiting(T)) + One(Waits(n))
          /\ Count(Watched(out')) = Count(Watched(T)) + One(n.sd = "watched")
  BY <1>4, <1>6, <1>7, CountAdd
<1>9. active = Count(Up(out)) /\ waiting = Count(Waiting(out)) /\ numSDs = Count(Watched(out))
  BY DEF Accounting, Up, Waiting, Watched
<1>10. /\ One(~p.timedout) = 0 /\ One(~q.timedout) = 0 /\ One(~n.timedout) = 1
       /\ One(Waits(p)) = 1 /\ One(Waits(q)) = 0 /\ One(Waits(n)) = 0
       /\ One(p.sd = "watched") = 0 /\ One(q.sd = "watched") = 0 /\ One(n.sd = "watched") = 0
  BY <1>1, <1>2, <1>3 DEF One, Waits
<1>11. active' = Count(Up(out')) /\ waiting' = Count(Waiting(out')) /\ numSDs' = Count(Watched(out'))
  BY <1>4, <1>7, <1>8, <1>9, <1>10, TypeInts
<1>12. \A r \in out' : (r.retransmitted => r.timedout) /\ (r.timedout <=> r.sd = "closed")
  BY <1>2, <1>3, <1>4 DEF Accounting
<1>13. numSDs' <= MaxSockets
  BY <1>4 DEF Accounting
<1>. QED
  BY <1>11, <1>12, <1>13 DEF Accounting, Up, Waiting, Watched

\* Marking keeps the number of probes: their tries tell them apart.
LEMMA MarkedCount ==
  ASSUME TypeOk, ListInv, NEW M \in SUBSET out
  PROVE  /\ IsFiniteSet({TimedOut(p) : p \in M})
         /\ Count({TimedOut(p) : p \in M}) = Count(M)
<1> DEFINE D == {TimedOut(p) : p \in M}
           f == [p \in M |-> TimedOut(p)]
<1>1. IsFiniteSet(M)
  BY FS_Subset DEF TypeOk
<1>2. f \in Surjection(M, D)
  BY DEF Surjection
<1>3. ASSUME NEW p \in M, NEW q \in M, TimedOut(p) = TimedOut(q)
      PROVE  p = q
  <2>1. p \in Probes /\ q \in Probes
    BY ProbeTypes
  <2> DEFINE u == TimedOut(p)
             w == TimedOut(q)
  <2>2. /\ u.port = p.port /\ u.tryno = p.tryno /\ u.isPing = p.isPing
        /\ w.port = q.port /\ w.tryno = q.tryno /\ w.isPing = q.isPing
    BY <2>1, ChangedFields
  <2>3. u = w
    BY <1>3
  <2>. HIDE DEF u, w
  <2>4. p.port = q.port /\ p.tryno = q.tryno /\ p.isPing = q.isPing
    BY <2>2, <2>3
  <2>. QED
    BY <2>4 DEF ListInv
<1>4. \A p, q \in M : f[p] = f[q] => p = q
  BY <1>3
<1>7. f \in [M -> D]
  OBVIOUS
<1>. HIDE DEF f
<1>5. f \in Injection(M, D)
  BY <1>4, <1>7 DEF Injection, IsInjective
<1>6. IsFiniteSet(D) /\ (Cardinality(M) = Cardinality(D) <=> f \in Injection(M, D))
  BY <1>1, <1>2, FS_Surjection
<1>. QED
  BY <1>5, <1>6 DEF Count

LEMMA AccountingSweep ==
  ASSUME TypeOk, Accounting, ListInv, NEW aged \in SUBSET out, Sweep(aged)
  PROVE  Accounting'
<1> DEFINE marked == {p \in aged : ~p.timedout}
           given == {p \in out : Waits(p) /\ ~MayIncrease /\ p.tryno >= allowedTryno}
           moved == {p \in aged : Waits(p) /\ MayIncrease /\ p.tryno >= allowedTryno}
           gone == {p \in aged : p.timedout /\ (p.isPing \/ p.retransmitted)}
           tried == {p \in marked : ~p.isPing}
           opened == {p \in marked : p.sd = "watched"}
           over == {TimedOut(p) : p \in marked}
           late_ == {TimedOut(p) : p \in tried}
<1>1. /\ out' = (out \ (marked \cup given \cup moved \cup gone)) \cup over
      /\ active' = active - Count(marked)
      /\ waiting' = waiting + Count(tried) - Count(given) - Count(moved)
      /\ numSDs' = numSDs - Count(opened)
  BY DEF Sweep
<1>2. \A p \in out :
         /\ p \in Probes /\ p.isPing \in BOOLEAN /\ p.timedout \in BOOLEAN
         /\ p.retransmitted \in BOOLEAN
         /\ (p.retransmitted => p.timedout) /\ (p.timedout <=> p.sd = "closed")
  BY ProbeTypes DEF Accounting
<1>3. marked \subseteq out /\ tried \subseteq out /\ opened \subseteq out /\ gone \subseteq out
  OBVIOUS
<1>4. \A p \in marked : /\ TimedOut(p).timedout = TRUE /\ TimedOut(p).sd = "closed"
                        /\ TimedOut(p).retransmitted = FALSE /\ TimedOut(p).isPing = p.isPing
                        /\ TimedOut(p) \notin out
  <2> SUFFICES ASSUME NEW p \in marked
               PROVE  /\ TimedOut(p).timedout = TRUE /\ TimedOut(p).sd = "closed"
                      /\ TimedOut(p).retransmitted = FALSE /\ TimedOut(p).isPing = p.isPing
                      /\ TimedOut(p) \notin out
    OBVIOUS
  <2>1. p \in out /\ p.timedout = FALSE /\ p.retransmitted = FALSE
    BY <1>2
  <2> DEFINE q == TimedOut(p)
  <2>2. /\ q.timedout = TRUE /\ q.sd = "closed" /\ q.retransmitted = FALSE
        /\ q.isPing = p.isPing /\ q.port = p.port /\ q.tryno = p.tryno
    BY <1>2, <2>1, ChangedFields
  <2> HIDE DEF q
  <2>3. q \notin out
    BY <2>1, <2>2, NotListed
  <2>. QED
    BY <2>2, <2>3 DEF q
<1>5. IsFiniteSet(out) /\ IsFiniteSet(Up(out)) /\ IsFiniteSet(Waiting(out)) /\ IsFiniteSet(Watched(out))
  <2>1. Up(out) \subseteq out /\ Waiting(out) \subseteq out /\ Watched(out) \subseteq out
    BY DEF Up, Waiting, Watched
  <2>2. IsFiniteSet(out)
    BY DEF TypeOk
  <2>. QED
    BY <2>1, <2>2, CountPart
<1>6. active = Count(Up(out)) /\ waiting = Count(Waiting(out)) /\ numSDs = Count(Watched(out))
  BY DEF Accounting, Up, Waiting, Watched
<1>7. /\ Count(marked) \in Nat /\ Count(tried) \in Nat /\ Count(opened) \in Nat
      /\ Count(given) \in Nat /\ Count(moved) \in Nat
  <2>1. given \subseteq out /\ moved \subseteq out
    OBVIOUS
  <2>. QED
    BY <1>3, <1>5, <2>1, CountPart
<1>8. active' = Count(Up(out'))
  <2>1. Up(out') = Up(out) \ marked
    <3>1. \A p \in given \cup moved \cup gone : p.timedout
      BY DEF Waits
    <3>2. \A p \in over : p.timedout
      BY <1>4
    <3>. HIDE DEF given, moved, gone, over
    <3>. QED
      BY <1>1, <1>3, <3>1, <3>2 DEF Up
  <2>2. marked \subseteq Up(out)
    BY DEF Up
  <2>3. Count(Up(out) \ marked) = Count(Up(out)) - Count(marked)
    BY <1>5, <2>2, CountPart
  <2>. QED
    BY <1>1, <1>6, <2>1, <2>3
<1>9. numSDs' = Count(Watched(out'))
  <2>1. Watched(out') = Watched(out) \ opened
    <3>1. \A p \in given \cup moved \cup gone : p.sd # "watched"
      BY <1>2 DEF Waits
    <3>2. \A p \in over : p.sd # "watched"
      BY <1>4
    <3>3. \A p \in marked : p.sd = "watched" <=> p \in opened
      OBVIOUS
    <3>4. opened \subseteq marked
      OBVIOUS
    <3>. HIDE DEF given, moved, gone, over, marked, opened
    <3>. QED
      BY <1>1, <1>3, <3>1, <3>2, <3>3, <3>4 DEF Watched
  <2>2. opened \subseteq Watched(out)
    BY DEF Watched
  <2>3. Count(Watched(out) \ opened) = Count(Watched(out)) - Count(opened)
    BY <1>5, <2>2, CountPart
  <2>. QED
    BY <1>1, <1>6, <2>1, <2>3
<1>10. waiting' = Count(Waiting(out'))
  <2> DEFINE W == Waiting(out) \ (given \cup moved)
  <2>1. Waiting(out') = W \cup late_
    <3>1. \A p \in marked \cup gone : ~Waits(p)
      BY DEF Waits
    <3>2. late_ = {q \in over : Waits(q)}
      BY <1>4 DEF Waits
    <3>. HIDE DEF given, moved, gone, over, marked, late_
    <3>. QED
      BY <1>1, <3>1, <3>2 DEF Waiting
  <2>2. given \cup moved \subseteq Waiting(out) /\ given \cap moved = {}
    BY DEF Waiting
  <2>3. /\ IsFiniteSet(given) /\ IsFiniteSet(moved)
        /\ Count(given \cup moved) = Count(given) + Count(moved)
    <3>1. IsFiniteSet(given) /\ IsFiniteSet(moved)
      BY <1>5, <2>2, CountPart
    <3>. QED
      BY <2>2, <3>1, CountSum
  <2>4. IsFiniteSet(W) /\ Count(W) = Count(Waiting(out)) - Count(given \cup moved)
    <3>1. W \subseteq Waiting(out)
      OBVIOUS
    <3>2. IsFiniteSet(W)
      BY <1>5, <3>1, CountPart
    <3>. QED
      BY <1>5, <2>2, <3>2, CountPart
  <2>5. IsFiniteSet(late_) /\ Count(late_) = Count(tried)
    BY <1>3, MarkedCount
  <2>6. W \cap late_ = {}
    BY <1>4 DEF Waiting
  <2>7. Count(W \cup late_) = Count(W) + Count(late_)
    <3>. HIDE DEF W, late_
    <3>. QED
      BY <2>4, <2>5, <2>6, CountSum
  <2>8. waiting' = Count(W) + Count(late_)
    <3>. HIDE DEF W, late_, tried, given, moved
    <3>. QED
      BY <1>1, <1>6, <1>7, <2>3, <2>4, <2>5, TypeInts
  <2>. QED
    BY <2>1, <2>7, <2>8
<1>11. \A r \in out' : (r.retransmitted => r.timedout) /\ (r.timedout <=> r.sd = "closed")
  <2>1. \A r \in over : r.timedout /\ r.sd = "closed"
    BY <1>4
  <2>. HIDE DEF given, moved, gone, over, marked
  <2>. QED
    BY <1>1, <1>2, <2>1
<1>12. numSDs' <= MaxSockets
  <2>1. numSDs <= MaxSockets
    BY DEF Accounting
  <2>. HIDE DEF opened
  <2>. QED
    BY <1>1, <1>7, <2>1, TypeInts, LimitsAssumption
<1>. QED
  BY <1>8, <1>9, <1>10, <1>11, <1>12 DEF Accounting, Up, Waiting, Watched

-----------------------------------------------------------------------------
(* The tries in the list *)

\* Probes leave the list and probes of it time out.
LEMMA ListShrinks ==
  ASSUME TypeOk, Accounting, ListInv, NEW gone \in SUBSET out, NEW marked \in SUBSET gone,
         out' = (out \ gone) \cup {TimedOut(p) : p \in marked},
         \A p \in marked : ~p.timedout,
         ~Calling', ping'.seq = ping.seq, UNCHANGED <<fresh, tries>>
  PROVE  ListInv'
<1> DEFINE over == {TimedOut(p) : p \in marked}
<1>1. \A p \in marked : /\ TimedOut(p).port = p.port /\ TimedOut(p).tryno = p.tryno
                        /\ TimedOut(p).isPing = p.isPing /\ TimedOut(p).retransmitted = FALSE
                        /\ TimedOut(p).sd = "closed"
  <2> SUFFICES ASSUME NEW p \in marked
               PROVE  /\ TimedOut(p).port = p.port /\ TimedOut(p).tryno = p.tryno
                      /\ TimedOut(p).isPing = p.isPing /\ TimedOut(p).retransmitted = FALSE
                      /\ TimedOut(p).sd = "closed"
    OBVIOUS
  <2>1. p \in Probes /\ p.retransmitted = FALSE
    BY ProbeTypes DEF Accounting
  <2>. QED
    BY <2>1, ChangedFields
<1>2. \A r \in over : \E p \in marked : /\ r = TimedOut(p)
                                        /\ r.port = p.port /\ r.tryno = p.tryno
                                        /\ r.isPing = p.isPing /\ r.retransmitted = FALSE
                                        /\ r.sd = "closed"
  BY <1>1
<1>. HIDE DEF over
<1>3. \A r \in out' : r \in out \ gone \/ r \in over
  BY DEF over
<1>4. ASSUME NEW r \in out', NEW t \in out',
             r.port = t.port, r.tryno = t.tryno, r.isPing = t.isPing
      PROVE  r = t
  <2>1. CASE r \in out \ gone /\ t \in out \ gone
    BY <1>4, <2>1 DEF ListInv
  <2>2. CASE r \in out \ gone /\ t \in over
    BY <1>2, <1>4, <2>2 DEF ListInv
  <2>3. CASE r \in over /\ t \in out \ gone
    BY <1>2, <1>4, <2>3 DEF ListInv
  <2>4. CASE r \in over /\ t \in over
    BY <1>2, <1>4, <2>4 DEF ListInv
  <2>. QED
    BY <1>3, <2>1, <2>2, <2>3, <2>4
<1>5. \A r \in out' : r.isPing => ~r.retransmitted /\ r.tryno <= ping'.seq
  BY <1>2, <1>3 DEF ListInv
<1>6. \A r \in out' : ~r.isPing => r.tryno <= tries'[r.port]
  BY <1>2, <1>3 DEF ListInv
<1>7. \A r \in out' : ~r.isPing /\ r.retransmitted => r.tryno < tries'[r.port]
  BY <1>2, <1>3 DEF ListInv
<1>8. \A x \in fresh' : tries'[x] = -1
  BY DEF ListInv
<1>9. \A r, t \in out' : r.sd = "called" /\ t.sd = "called" => r = t
  BY DEF Calling
<1>. QED
  BY <1>4, <1>5, <1>6, <1>7, <1>8, <1>9 DEF ListInv

\* The one connect() that was awaited is in progress, or its socket is left alone.
LEMMA ListOpened ==
  ASSUME TypeOk, Accounting, ListInv, NEW p \in out, p.sd = "called",
         NEW sd \in {"watched", "unwatched"}, out' = (out \ {p}) \cup {Opened(p, sd)},
         UNCHANGED <<ping, fresh, tries>>
  PROVE  ListInv'
<1> DEFINE q == Opened(p, sd)
<1>1. p \in Probes /\ p.retransmitted = FALSE
  BY ProbeTypes DEF Accounting
<1>2. /\ q.port = p.port /\ q.tryno = p.tryno /\ q.isPing = p.isPing
      /\ q.retransmitted = FALSE /\ q.sd # "called"
  BY <1>1 DEF Opened, Probes
<1>3. out' = (out \ {p}) \cup {q}
  OBVIOUS
<1>. HIDE DEF q
<1>4. \A r, t \in out' :
         r.port = t.port /\ r.tryno = t.tryno /\ r.isPing = t.isPing => r = t
  BY <1>2, <1>3 DEF ListInv
<1>5. \A r \in out' : r.isPing => ~r.retransmitted /\ r.tryno <= ping'.seq
  BY <1>2, <1>3 DEF ListInv
<1>6. \A r \in out' : ~r.isPing => r.tryno <= tries'[r.port]
  BY <1>2, <1>3 DEF ListInv
<1>7. \A r \in out' : ~r.isPing /\ r.retransmitted => r.tryno < tries'[r.port]
  BY <1>2, <1>3 DEF ListInv
<1>8. \A x \in fresh' : tries'[x] = -1
  BY DEF ListInv
<1>9. \A r \in out' : r.sd # "called"
  BY <1>2, <1>3 DEF ListInv
<1>. QED
  BY <1>4, <1>5, <1>6, <1>7, <1>8, <1>9 DEF ListInv, Calling

\* A probe of a new try is added; whoever it supersedes is of an earlier one.
LEMMA ListAdd ==
  ASSUME TypeOk, Accounting, ListInv, ~Calling, numSDs < MaxSockets,
         NEW x \in Ports, NEW n \in Nat, n > tries[x], x \notin fresh',
         out' = out \cup {Probe(x, n, FALSE)},
         tries' = [tries EXCEPT ![x] = n], fresh' \subseteq fresh,
         ping'.seq = ping.seq, numSDs' = numSDs,
         pc' \in {"pings", "retransmits", "retries", "new"}
  PROVE  ListInv'
<1> DEFINE q == Probe(x, n, FALSE)
<1>1. /\ q.port = x /\ q.tryno = n /\ q.isPing = FALSE
      /\ q.retransmitted = FALSE /\ q.sd = "called"
  BY DEF Probe
<1>2. out' = out \cup {q}
  OBVIOUS
<1>. HIDE DEF q
<1>3. /\ \A y \in Ports : tries[y] \in Nat \cup {-1}
      /\ \A y \in Ports : tries'[y] = IF y = x THEN n ELSE tries[y]
      /\ fresh \subseteq Ports
  BY DEF TypeOk
<1>4. \A r \in out : r.port \in Ports /\ r.tryno \in Nat /\ (~r.isPing => r.tryno <= tries[r.port])
  BY ProbeTypes DEF ListInv
<1>5. \A r \in out : ~r.isPing /\ r.port = x => r.tryno < n
  BY <1>3, <1>4
<1>6. \A r, t \in out' :
         r.port = t.port /\ r.tryno = t.tryno /\ r.isPing = t.isPing => r = t
  <2>1. \A r \in out : ~(r.port = q.port /\ r.tryno = q.tryno /\ r.isPing = q.isPing)
    BY <1>1, <1>5
  <2>. QED
    BY <1>2, <2>1 DEF ListInv
<1>7. \A r \in out' : r.isPing => ~r.retransmitted /\ r.tryno <= ping'.seq
  BY <1>1, <1>2 DEF ListInv
<1>8. \A r \in out' : ~r.isPing => r.tryno <= tries'[r.port]
  <2>1. q.tryno <= tries'[q.port]
    BY <1>1, <1>3
  <2>2. ASSUME NEW r \in out, ~r.isPing PROVE r.tryno <= tries'[r.port]
    BY <1>3, <1>4, <1>5, <2>2
  <2>. QED
    BY <1>2, <2>1, <2>2
<1>9. \A r \in out' : ~r.isPing /\ r.retransmitted => r.tryno < tries'[r.port]
  BY <1>1, <1>2, <1>3, <1>4, <1>5 DEF ListInv
<1>10. \A y \in fresh' : tries'[y] = -1
  BY <1>3 DEF ListInv
<1>11. \A r, t \in out' : r.sd = "called" /\ t.sd = "called" => r = t
  BY <1>2 DEF Calling
<1>. QED
  BY <1>6, <1>7, <1>8, <1>9, <1>10, <1>11 DEF ListInv, Calling

LEMMA ListRetransmit ==
  ASSUME TypeOk, Accounting, ListInv, TriesAllowed, NEW p \in out, Retransmit(p)
  PROVE  ListInv'
<1> DEFINE q == Retransmitted(p)
           n == Probe(p.port, p.tryno + 1, FALSE)
<1>1. /\ p \in Probes /\ p.port \in Ports /\ p.tryno \in Nat
      /\ p.isPing = FALSE /\ p.timedout = TRUE /\ p.sd = "closed"
      /\ p.tryno = tries[p.port]
  BY ProbeTypes DEF Accounting, Retransmit, Waits, TriesAllowed, Live
<1>2. /\ q.port = p.port /\ q.tryno = p.tryno /\ q.isPing = FALSE /\ q.sd = "closed"
  BY <1>1, ChangedFields
<1>3. /\ n.port = p.port /\ n.tryno = p.tryno + 1 /\ n.isPing = FALSE
      /\ n.retransmitted = FALSE /\ n.sd = "called"
  BY DEF Probe
<1>4. out' = (out \ {p}) \cup {q, n}
  BY DEF Retransmit
<1>. HIDE DEF q, n
<1>5. /\ \A y \in Ports : tries[y] \in Nat \cup {-1}
      /\ \A y \in Ports : tries'[y] = IF y = p.port THEN p.tryno + 1 ELSE tries[y]
      /\ fresh \subseteq Ports /\ UNCHANGED <<fresh, numSDs, pc>>
      /\ ping'.seq = ping.seq
  BY TypeInts DEF TypeOk, Retransmit, Sent
<1>6. \A r \in out : r.port \in Ports /\ r.tryno \in Nat /\ (~r.isPing => r.tryno <= tries[r.port])
  BY ProbeTypes DEF ListInv
<1>7. ~Calling /\ pc = "retransmits" /\ numSDs < MaxSockets
  BY DEF Retransmit, sendOK
<1>8. \A r, t \in out' :
         r.port = t.port /\ r.tryno = t.tryno /\ r.isPing = t.isPing => r = t
  <2>1. \A r \in out : ~(r.port = n.port /\ r.tryno = n.tryno /\ r.isPing = n.isPing)
    BY <1>1, <1>3, <1>6
  <2>2. ~(q.tryno = n.tryno)
    BY <1>1, <1>2, <1>3
  <2>3. \A r \in out \ {p} : ~(r.port = q.port /\ r.tryno = q.tryno /\ r.isPing = q.isPing)
    BY <1>1, <1>2 DEF ListInv
  <2>. QED
    BY <1>4, <2>1, <2>2, <2>3 DEF ListInv
<1>9. \A r \in out' : r.isPing => ~r.retransmitted /\ r.tryno <= ping'.seq
  BY <1>2, <1>3, <1>4, <1>5 DEF ListInv
<1>10. \A r \in out' : ~r.isPing => r.tryno <= tries'[r.port]
  <2>1. q.tryno <= tries'[q.port] /\ n.tryno <= tries'[n.port]
    BY <1>1, <1>2, <1>3, <1>5
  <2>2. ASSUME NEW r \in out, ~r.isPing PROVE r.tryno <= tries'[r.port]
    BY <1>1, <1>5, <1>6, <2>2
  <2>. QED
    BY <1>4, <2>1, <2>2
<1>11. \A r \in out' : ~r.isPing /\ r.retransmitted => r.tryno < tries'[r.port]
  <2>1. q.tryno < tries'[q.port]
    BY <1>1, <1>2, <1>5
  <2>2. ASSUME NEW r \in out, ~r.isPing, r.retransmitted PROVE r.tryno < tries'[r.port]
    <3>1. r.tryno < tries[r.port]
      BY <2>2 DEF ListInv
    <3>. QED
      BY <1>1, <1>5, <1>6, <3>1
  <2>. QED
    BY <1>3, <1>4, <2>1, <2>2
<1>12. \A y \in fresh' : tries'[y] = -1
  <2>1. p.port \notin fresh
    BY <1>1 DEF ListInv
  <2>. QED
    BY <1>5, <2>1 DEF ListInv
<1>13. \A r, t \in out' : r.sd = "called" /\ t.sd = "called" => r = t
  BY <1>2, <1>4, <1>7 DEF Calling
<1>. QED
  BY <1>5, <1>7, <1>8, <1>9, <1>10, <1>11, <1>12, <1>13 DEF ListInv, Calling

LEMMA ListPing ==
  ASSUME TypeOk, Accounting, ListInv, doAnyPings
  PROVE  ListInv' /\ Probe(ping.port, ping.seq + 1, TRUE) \notin out
<1> DEFINE q == Probe(ping.port, ping.seq + 1, TRUE)
<1>1. q.port = ping.port /\ q.tryno = ping.seq + 1 /\ q.isPing = TRUE /\ q.retransmitted = FALSE
  BY DEF Probe
<1>2. out' = out \cup {q} /\ ping'.seq = ping.seq + 1 /\ UNCHANGED <<fresh, tries, numSDs>>
  BY TypeInts DEF doAnyPings, plan
<1>. HIDE DEF q
<1>3. \A r \in out : r.tryno \in Nat /\ r.isPing \in BOOLEAN
  BY ProbeTypes
<1>4. \A r \in out : r.isPing => r.tryno <= ping.seq
  BY DEF ListInv
<1>5. \A r \in out : ~(r.isPing = q.isPing /\ r.tryno = q.tryno)
  BY <1>1, <1>3, <1>4, TypeInts
<1>6. \A r, t \in out' :
         r.port = t.port /\ r.tryno = t.tryno /\ r.isPing = t.isPing => r = t
  BY <1>2, <1>5 DEF ListInv
<1>7. \A r \in out' : r.isPing => ~r.retransmitted /\ r.tryno <= ping'.seq
  <2>1. ASSUME NEW r \in out, r.isPing PROVE r.tryno <= ping'.seq
    BY <1>2, <1>3, <1>4, <2>1, TypeInts
  <2>2. q.tryno <= ping'.seq
    BY <1>1, <1>2, TypeInts
  <2>. QED
    BY <1>1, <1>2, <2>1, <2>2 DEF ListInv
<1>8. \A r \in out' : ~r.isPing => r.tryno <= tries'[r.port]
  BY <1>1, <1>2 DEF ListInv
<1>9. \A r \in out' : ~r.isPing /\ r.retransmitted => r.tryno < tries'[r.port]
  BY <1>1, <1>2 DEF ListInv
<1>10. \A y \in fresh' : tries'[y] = -1
  BY <1>2 DEF ListInv
<1>11. ~Calling /\ numSDs < MaxSockets /\ pc' = "retransmits"
  BY DEF doAnyPings, sendOK
<1>12. \A r, t \in out' : r.sd = "called" /\ t.sd = "called" => r = t
  BY <1>2, <1>11 DEF Calling
<1>. QED
  BY <1>2, <1>5, <1>6, <1>7, <1>8, <1>9, <1>10, <1>11, <1>12 DEF ListInv, Calling, q

-----------------------------------------------------------------------------
(* The limit and the tries in flight *)

LEMMA AllowedFacts ==
  ASSUME TypeOk
  PROVE  /\ allowedTryno \in Nat /\ 1 <= allowedTryno /\ allowedTryno <= tryno_cap
         /\ allowedTryno < tryno_cap => allowedTryno = max_successful_tryno + 1
BY TypeInts DEF allowedTryno

LEMMA AllowedGrows ==
  ASSUME TypeOk, max_successful_tryno' \in Nat,
         max_successful_tryno' >= max_successful_tryno, tryno_cap' = tryno_cap
  PROVE  allowedTryno' \in Nat /\ allowedTryno' >= allowedTryno
BY TypeInts DEF allowedTryno

OneLive == \A p, q \in out : Live(p) /\ Live(q) /\ p.port = q.port => p = q
LiveTries == \A p \in out : Live(p) => p.tryno = tries[p.port] /\ p.tryno <= allowedTryno

LEMMA FlightShrinks ==
  ASSUME TypeOk, OneLive, NEW gone \in SUBSET out, NEW marked \in SUBSET gone,
         out' = (out \ gone) \cup {TimedOut(p) : p \in marked}
  PROVE  /\ InFlight' = {r.port : r \in {q \in out \ (gone \ marked) : Live(q)}}
         /\ OneLive'
         /\ LiveTries /\ tries' = tries /\ allowedTryno' \in Nat /\ allowedTryno' >= allowedTryno
               => LiveTries'
<1> DEFINE over == {TimedOut(p) : p \in marked}
           kept == {q \in out \ (gone \ marked) : Live(q)}
<1>1. \A p \in marked : /\ TimedOut(p).port = p.port /\ TimedOut(p).tryno = p.tryno
                        /\ Live(TimedOut(p)) <=> Live(p)
  <2> SUFFICES ASSUME NEW p \in marked
               PROVE  /\ TimedOut(p).port = p.port /\ TimedOut(p).tryno = p.tryno
                      /\ Live(TimedOut(p)) <=> Live(p)
    OBVIOUS
  <2>1. p \in Probes
    BY ProbeTypes
  <2>. QED
    BY <2>1, ChangedFields DEF Live
<1>2. \A r \in over : \E p \in marked : /\ r = TimedOut(p) /\ r.port = p.port
                                        /\ r.tryno = p.tryno /\ (Live(r) <=> Live(p))
  BY <1>1
<1>3. \A p \in marked : \E r \in over : /\ r.port = p.port /\ (Live(r) <=> Live(p))
  BY <1>1
<1>4. out' = (out \ gone) \cup over
  OBVIOUS
<1>. HIDE DEF over
<1>5. InFlight' = {r.port : r \in {q \in out' : Live(q)}}
  BY DEF InFlight, Live
<1>6. ASSUME NEW r \in out', Live(r)
      PROVE  \E q \in kept : q.port = r.port /\ q.tryno = r.tryno
  BY <1>2, <1>4, <1>6
<1>7. ASSUME NEW q \in kept
      PROVE  \E r \in out' : Live(r) /\ r.port = q.port
  BY <1>3, <1>4
<1>8. InFlight' = {r.port : r \in kept}
  BY <1>5, <1>6, <1>7
<1>9. OneLive'
  <2> SUFFICES ASSUME NEW r \in out', NEW t \in out', Live(r), Live(t), r.port = t.port
               PROVE  r = t
    BY DEF OneLive, Live
  <2>1. CASE r \in out \ gone /\ t \in out \ gone
    BY <2>1 DEF OneLive
  <2>2. CASE r \in out \ gone /\ t \in over
    BY <1>2, <2>2 DEF OneLive
  <2>3. CASE r \in over /\ t \in out \ gone
    BY <1>2, <2>3 DEF OneLive
  <2>4. CASE r \in over /\ t \in over
    BY <1>2, <2>4 DEF OneLive
  <2>. QED
    BY <1>4, <2>1, <2>2, <2>3, <2>4
<1>10. ASSUME LiveTries, tries' = tries, allowedTryno' \in Nat, allowedTryno' >= allowedTryno
       PROVE  LiveTries'
  <2> SUFFICES ASSUME NEW r \in out', Live(r)
               PROVE  r.tryno = tries[r.port] /\ r.tryno <= allowedTryno'
    BY <1>10 DEF LiveTries, Live
  <2>1. PICK q \in kept : q.port = r.port /\ q.tryno = r.tryno
    BY <1>6
  <2>2. q.tryno = tries[q.port] /\ q.tryno <= allowedTryno /\ q.tryno \in Nat
    BY <1>10, ProbeTypes DEF LiveTries
  <2>3. allowedTryno \in Nat
    BY AllowedFacts
  <2>. QED
    BY <1>10, <2>1, <2>2, <2>3
<1>. QED
  BY <1>8, <1>9, <1>10

-----------------------------------------------------------------------------
(* The places of the ports *)

LEMMA ForgottenParts ==
  NoPortForgotten => OneLive
BY DEF NoPortForgotten, OneLive

LEMMA TriesParts ==
  TriesAllowed => LiveTries
BY DEF TriesAllowed, LiveTries

\* A step that leaves the current tries of the ports where they are.
LEMMA SameFlight ==
  ASSUME NoPortForgotten, TriesAllowed, BenchInv,
         InFlight' = InFlight, OneLive', LiveTries',
         UNCHANGED <<fresh, bench, bench_tryno, retry, tries, fate,
                     max_successful_tryno, tryno_cap>>,
         rld'.max = rld.max,
         pc' \in {"pings", "retransmits"} => pc \in {"pings", "retransmits"}
  PROVE  NoPortForgotten' /\ TriesAllowed' /\ BenchInv'
<1>1. allowedTryno' = allowedTryno
  BY DEF allowedTryno
<1>2. NoPortForgotten'
  BY DEF NoPortForgotten, OneLive, Stacked
<1>3. TriesAllowed'
  BY <1>1 DEF TriesAllowed, LiveTries
<1>4. BenchInv'
  BY <1>1 DEF BenchInv
<1>. QED
  BY <1>2, <1>3, <1>4

\* A step that leaves the list alone.
LEMMA SameList ==
  ASSUME TypeOk, NoPortForgotten, TriesAllowed, BenchInv, out' = out,
         UNCHANGED <<fresh, bench, bench_tryno, retry, tries, fate,
                     max_successful_tryno, tryno_cap>>,
         rld'.max = rld.max,
         pc' \in {"pings", "retransmits"} => pc \in {"pings", "retransmits"}
  PROVE  NoPortForgotten' /\ TriesAllowed' /\ BenchInv'
<1>1. InFlight' = InFlight
  BY DEF InFlight, Live
<1>2. OneLive'
  BY DEF NoPortForgotten, OneLive, Live
<1>3. LiveTries'
  BY DEF TriesAllowed, LiveTries, Live, allowedTryno
<1>. QED
  BY <1>1, <1>2, <1>3, SameFlight

\* The current try of a port is destroyed and the port has its end.
LEMMA PortEnds ==
  ASSUME TypeOk, NoPortForgotten, TriesAllowed, BenchInv,
         NEW p \in out, Live(p), out' = out \ {p},
         NEW end \in {"answered", "failed"}, fate' = [fate EXCEPT ![p.port] = end],
         max_successful_tryno' \in Nat, max_successful_tryno' >= max_successful_tryno,
         UNCHANGED <<pc, plan, tryno_cap>>
  PROVE  NoPortForgotten' /\ TriesAllowed' /\ BenchInv'
<1>1. p.port \in Ports /\ p.port \in InFlight
  BY ProbeTypes DEF InFlight
<1>2. /\ allowedTryno' \in Nat /\ allowedTryno' >= allowedTryno /\ allowedTryno \in Nat
  BY AllowedGrows, AllowedFacts
<1>3. UNCHANGED <<fresh, bench, bench_tryno, retry, rld, tries>> /\ Stacked' = Stacked
  BY DEF plan, Stacked
<1>4. /\ InFlight' = {r.port : r \in {q \in out \ {p} : Live(q)}}
      /\ OneLive' /\ LiveTries'
  <2>1. out' = (out \ {p}) \cup {TimedOut(r) : r \in {}}
    OBVIOUS
  <2>2. {p} \ {} = {p} /\ {p} \in SUBSET out /\ {} \in SUBSET {p}
    OBVIOUS
  <2>. QED
    BY <1>2, <1>3, <2>1, <2>2, FlightShrinks, ForgottenParts, TriesParts
<1>5. InFlight' = InFlight \ {p.port}
  BY <1>4 DEF NoPortForgotten, InFlight
<1>6. /\ fate \in [Ports -> {"none", "answered", "given up", "failed"}]
      /\ bench \subseteq Ports /\ bench_tryno \in Nat
      /\ tries \in [Ports -> Nat \cup {-1}]
  BY Zenon DEF TypeOk
<1>7. {x \in Ports : fate'[x] = "none"} = {x \in Ports : fate[x] = "none"} \ {p.port}
  BY <1>1, <1>6
<1>8. NoPortForgotten'
  <2>1. {x \in Ports : fate'[x] = "none"} = fresh' \cup InFlight' \cup bench' \cup Stacked'
    BY <1>1, <1>3, <1>5, <1>7 DEF NoPortForgotten
  <2>2. /\ fresh' \cap InFlight' = {} /\ fresh' \cap bench' = {} /\ fresh' \cap Stacked' = {}
        /\ InFlight' \cap bench' = {} /\ InFlight' \cap Stacked' = {} /\ bench' \cap Stacked' = {}
    BY <1>3, <1>5 DEF NoPortForgotten
  <2>3. \A r, t \in retry' : r.port = t.port => r = t
    BY <1>3 DEF NoPortForgotten
  <2>. QED
    BY <1>4, <2>1, <2>2, <2>3 DEF NoPortForgotten, OneLive
<1>9. \A n \in Nat \cup {-1} : /\ n <= allowedTryno => n <= allowedTryno'
                               /\ n < allowedTryno => n < allowedTryno'
  BY <1>2
<1>10. \A r \in retry : r.tries \in Nat
  BY ProbeTypes
<1>11. TriesAllowed'
  <2>1. \A x \in bench' : tries'[x] = bench_tryno' /\ bench_tryno' <= allowedTryno'
    BY <1>3, <1>6, <1>9 DEF TriesAllowed
  <2>2. \A r \in retry' : r.tries = tries'[r.port] /\ r.tries < allowedTryno'
    BY <1>3, <1>9, <1>10 DEF TriesAllowed
  <2>3. \A x \in Ports : tries'[x] <= tryno_cap'
    BY <1>3 DEF TriesAllowed
  <2>. QED
    BY <1>4, <2>1, <2>2, <2>3 DEF TriesAllowed, LiveTries
<1>12. BenchInv'
  <2>1. rld'.max <= allowedTryno'
    BY <1>3, <1>9, TypeInts DEF BenchInv
  <2>2. \A x \in Ports : tries'[x] <= allowedTryno'
    BY <1>3, <1>6, <1>9 DEF BenchInv
  <2>. QED
    BY <1>3, <2>1, <2>2 DEF BenchInv
<1>. QED
  BY <1>8, <1>11, <1>12

LEMMA EndSame ==
  ASSUME EndInv, UNCHANGED <<listening, state, fate, tries, pc, late, reported>>
  PROVE  EndInv'
BY DEF EndInv

\* What an answer says of a port: its first, so the state was the default.
LEMMA EndAnswered ==
  ASSUME TypeOk, NoPortForgotten, EndInv, NEW p \in out, Live(p),
         NEW new \in {"open", "closed", "filtered"}, PspecUpdate(p.port, new),
         new = "open" => p.port \in listening, new = "closed" => p.port \notin listening,
         fate' = [fate EXCEPT ![p.port] = "answered"],
         UNCHANGED <<listening, tries, pc, late, reported>>, pc \notin {"done", "reported"}
  PROVE  EndInv'
<1>1. /\ state \in [Ports -> {"default", "open", "closed", "filtered"}]
      /\ fate \in [Ports -> {"none", "answered", "given up", "failed"}]
  BY Zenon DEF TypeOk
<1>2. p.port \in Ports /\ fate[p.port] = "none"
  BY ProbeTypes DEF NoPortForgotten, InFlight
<1>3. state[p.port] = "default"
  BY <1>2 DEF EndInv
<1>4. /\ state'[p.port] = new /\ fate'[p.port] = "answered"
      /\ \A x \in Ports \ {p.port} : state'[x] = state[x] /\ fate'[x] = fate[x]
  BY <1>1, <1>2, <1>3 DEF PspecUpdate
<1>5. \A x \in Ports \ {p.port} :
         /\ state'[x] = "open" => x \in listening
         /\ fate'[x] = "none" => state'[x] = "default"
         /\ fate'[x] = "answered" /\ x \in listening => state'[x] \in {"open", "filtered"}
         /\ fate'[x] = "given up" => tries[x] >= 1
  BY <1>4 DEF EndInv
<1>. QED
  BY <1>4, <1>5 DEF EndInv

LEMMA EndFailed ==
  ASSUME TypeOk, EndInv, NEW x \in Ports, fate' = [fate EXCEPT ![x] = "failed"],
         UNCHANGED <<listening, state, tries, pc, late, reported>>,
         pc \notin {"done", "reported"}
  PROVE  EndInv'
<1>1. fate \in [Ports -> {"none", "answered", "given up", "failed"}]
  BY Zenon DEF TypeOk
<1>. QED
  BY <1>1 DEF EndInv

LEMMA ResultKeeps ==
  ASSUME IInv, NEW p \in out, ~p.timedout, NEW e \in Errnos, NEW d \in BOOLEAN,
         handleConnectResult(p, e, d), UNCHANGED <<host, pc, plan>>,
         \A r \in out \ {p} : r.sd # "called", pc \notin {"done", "reported"}
  PROVE  Accounting' /\ NoPortForgotten' /\ TriesAllowed' /\ ListInv' /\ EndInv' /\ BenchInv'
<1>1. /\ TypeOk /\ Accounting /\ NoPortForgotten /\ TriesAllowed
      /\ ListInv /\ EndInv /\ BenchInv /\ OneLive /\ LiveTries
  BY ForgottenParts, TriesParts DEF IInv
<1>2. UNCHANGED <<fresh, bench, bench_tryno, retry, rld, tries, listening, tryno_cap,
                  late, reported, pc>>
  BY DEF host, plan
<1>3. /\ p \in Probes /\ p.port \in Ports /\ p.isPing \in BOOLEAN
      /\ p.retransmitted = FALSE
  BY <1>1, ProbeTypes DEF Accounting
<1>4. ASSUME destroyOutstandingProbe(p), UNCHANGED ping \/ ping'.seq = ping.seq
      PROVE  Accounting' /\ ListInv'
  <2>1. out' = (out \ {p}) \cup {TimedOut(r) : r \in {}}
    BY <1>4 DEF destroyOutstandingProbe
  <2>2. ~Calling'
    BY <2>1 DEF Calling
  <2>3. {p} \in SUBSET out /\ {} \in SUBSET {p} /\ \A r \in {} : ~r.timedout
    OBVIOUS
  <2>4. ping'.seq = ping.seq
    BY <1>4
  <2>5. ListInv'
    BY <1>1, <1>2, <2>1, <2>2, <2>3, <2>4, ListShrinks
  <2>. QED
    BY <1>1, <1>4, <2>5, AccountingDestroy
<1>5. CASE markProbeTimedout(p) /\ UNCHANGED results
  <2>1. out' = (out \ {p}) \cup {TimedOut(r) : r \in {p}}
    BY <1>5 DEF markProbeTimedout
  <2>2. ~Calling'
    <3>1. TimedOut(p).sd # "called"
      BY <1>3, ChangedFields
    <3>. QED
      BY <2>1, <3>1 DEF Calling
  <2>3. {p} \in SUBSET out /\ {p} \in SUBSET {p} /\ \A r \in {p} : ~r.timedout
    OBVIOUS
  <2>4. /\ UNCHANGED <<ping, fate, state, max_successful_tryno>>
        /\ ping'.seq = ping.seq /\ rld'.max = rld.max
    BY <1>2, <1>5 DEF results
  <2>5. ListInv'
    BY <1>1, <1>2, <2>1, <2>2, <2>3, <2>4, ListShrinks
  <2>6. allowedTryno' = allowedTryno
    BY <1>2, <2>4 DEF allowedTryno
  <2>7. allowedTryno' \in Nat /\ allowedTryno' >= allowedTryno
    BY <1>1, <2>6, AllowedFacts
  <2>8. InFlight' = InFlight /\ OneLive' /\ LiveTries'
    <3>1. out \ ({p} \ {p}) = out
      OBVIOUS
    <3>. QED
      BY <1>1, <1>2, <2>1, <2>3, <2>7, <3>1, FlightShrinks DEF InFlight
  <2>9. NoPortForgotten' /\ TriesAllowed' /\ BenchInv'
    BY <1>1, <1>2, <2>4, <2>8, SameFlight
  <2>. QED
    BY <1>1, <1>2, <1>5, <2>4, <2>5, <2>9, AccountingMark, EndSame
<1>6. CASE p.isPing /\ destroyOutstandingProbe(p) /\ UNCHANGED results
  <2>1. /\ UNCHANGED <<ping, fate, state, max_successful_tryno>>
        /\ ping'.seq = ping.seq /\ rld'.max = rld.max
    BY <1>2, <1>6 DEF results
  <2>2. out' = (out \ {p}) \cup {TimedOut(r) : r \in {}}
    BY <1>6 DEF destroyOutstandingProbe
  <2>3. {p} \in SUBSET out /\ {} \in SUBSET {p}
    OBVIOUS
  <2>4. allowedTryno' = allowedTryno
    BY <1>2, <2>1 DEF allowedTryno
  <2>5. allowedTryno' \in Nat /\ allowedTryno' >= allowedTryno
    BY <1>1, <2>4, AllowedFacts
  <2>6. InFlight' = InFlight /\ OneLive' /\ LiveTries'
    <3>1. {q \in out \ ({p} \ {}) : Live(q)} = {q \in out : Live(q)}
      BY <1>6 DEF Live
    <3>. QED
      BY <1>1, <1>2, <2>2, <2>3, <2>5, <3>1, FlightShrinks DEF InFlight
  <2>7. NoPortForgotten' /\ TriesAllowed' /\ BenchInv'
    BY <1>1, <1>2, <2>1, <2>6, SameFlight
  <2>. QED
    BY <1>1, <1>2, <1>4, <1>6, <2>1, <2>7, EndSame
<1>7. ASSUME NEW new \in {"open", "closed", "filtered"}, ~p.isPing,
             new = "open" => p.port \in listening, new = "closed" => p.port \notin listening,
             ultrascan_port_probe_update(p, new)
      PROVE  Accounting' /\ NoPortForgotten' /\ TriesAllowed' /\ ListInv' /\ EndInv' /\ BenchInv'
  <2>1. Live(p) /\ out' = out \ {p} /\ destroyOutstandingProbe(p)
    BY <1>3, <1>7 DEF Live, ultrascan_port_probe_update, destroyOutstandingProbe
  <2>2. ping'.seq = ping.seq
    <3>1. ping' = ping \/ ping' = [ping EXCEPT !.port = p.port]
      BY <1>7 DEF ultrascan_port_probe_update
    <3>2. ping = [port |-> ping.port, since |-> ping.since, seq |-> ping.seq]
      BY <1>1, TypeInts
    <3>. QED
      BY <3>1, <3>2
  <2>3. fate' = [fate EXCEPT ![p.port] = "answered"] /\ PspecUpdate(p.port, new)
    BY <1>7 DEF ultrascan_port_probe_update
  <2>4. max_successful_tryno' \in Nat /\ max_successful_tryno' >= max_successful_tryno
    <3>1. p.tryno \in Nat /\ max_successful_tryno \in Nat
      BY <1>1, TypeInts, ProbeTypes
    <3>. QED
      BY <1>7, <3>1 DEF ultrascan_port_probe_update
  <2>5. NoPortForgotten' /\ TriesAllowed' /\ BenchInv'
    BY <1>1, <1>2, <2>1, <2>3, <2>4, PortEnds
  <2>6. EndInv'
    BY <1>1, <1>2, <1>7, <2>1, <2>3, EndAnswered
  <2>. QED
    BY <1>4, <2>1, <2>2, <2>5, <2>6
<1>8. CASE /\ ~p.isPing /\ destroyOutstandingProbe(p)
           /\ fate' = [fate EXCEPT ![p.port] = "failed"]
           /\ UNCHANGED <<state, max_successful_tryno, ping>>
  <2>1. Live(p) /\ out' = out \ {p}
    BY <1>3, <1>8 DEF Live, destroyOutstandingProbe
  <2>2. max_successful_tryno' \in Nat /\ max_successful_tryno' >= max_successful_tryno
    BY <1>1, <1>8, TypeInts
  <2>3. NoPortForgotten' /\ TriesAllowed' /\ BenchInv'
    BY <1>1, <1>2, <1>8, <2>1, <2>2, PortEnds
  <2>4. EndInv'
    BY <1>1, <1>2, <1>3, <1>8, EndFailed
  <2>. QED
    BY <1>4, <1>8, <2>3, <2>4
<1>. QED
  BY <1>3, <1>5, <1>6, <1>7, <1>8 DEF handleConnectResult, results

-----------------------------------------------------------------------------
(* Each action keeps the invariant *)

Kept == Accounting /\ NoPortForgotten /\ TriesAllowed /\ ListInv /\ EndInv /\ BenchInv

LEMMA ConnectKeeps ==
  ASSUME IInv, NEW p \in out, ConnectReturns(p)
  PROVE  Kept'
<1>1. /\ TypeOk /\ Accounting /\ NoPortForgotten /\ TriesAllowed
      /\ ListInv /\ EndInv /\ BenchInv /\ OneLive /\ LiveTries
  BY ForgottenParts, TriesParts DEF IInv
<1>2. p.sd = "called" /\ UNCHANGED <<host, pc, plan>>
  BY DEF ConnectReturns
<1>3. /\ p \in Probes /\ p.timedout = FALSE /\ p.retransmitted = FALSE
  BY <1>1, <1>2, ProbeTypes DEF Accounting
<1>4. (\A r \in out \ {p} : r.sd # "called") /\ pc \notin {"done", "reported"}
  BY <1>1, <1>2 DEF ListInv, Calling
<1>5. ASSUME NEW e \in Errnos, handleConnectResult(p, e, TRUE)
      PROVE  Kept'
  BY <1>2, <1>3, <1>4, <1>5, ResultKeeps DEF Kept
<1>6. ASSUME NEW sd \in {"watched", "unwatched"}, out' = (out \ {p}) \cup {Opened(p, sd)},
             numSDs' = numSDs + One(sd = "watched"), UNCHANGED <<active, waiting, results>>
      PROVE  Kept'
  <2>1. UNCHANGED <<fresh, bench, bench_tryno, retry, rld, tries, listening, tryno_cap,
                    late, reported, pc, ping, fate, state, max_successful_tryno>>
    BY <1>2, <1>6 DEF host, plan, results
  <2>2. Accounting' /\ ListInv'
    BY <1>1, <1>2, <1>6, <2>1, AccountingOpened, ListOpened
  <2> DEFINE q == Opened(p, sd)
  <2>3. q.port = p.port /\ q.tryno = p.tryno /\ (Live(q) <=> Live(p))
    BY <1>3 DEF Opened, Live, Probes
  <2>4. out' = (out \ {p}) \cup {q}
    BY <1>6
  <2>. HIDE DEF q
  <2>5. InFlight' = InFlight
    BY <2>3, <2>4 DEF InFlight, Live
  <2>6. OneLive'
    BY <1>1, <2>3, <2>4 DEF OneLive, Live
  <2>7. LiveTries'
    BY <1>1, <2>1, <2>3, <2>4 DEF LiveTries, Live, allowedTryno
  <2>8. NoPortForgotten' /\ TriesAllowed' /\ BenchInv'
    BY <1>1, <2>1, <2>5, <2>6, <2>7, SameFlight
  <2>. QED
    BY <1>1, <2>1, <2>2, <2>8, EndSame DEF Kept
<1>7. CASE /\ out' = (out \ {p}) \cup {[p EXCEPT !.sd = "watched"]}
           /\ numSDs' = numSDs + 1 /\ UNCHANGED <<active, waiting, results>>
  BY <1>6, <1>7 DEF Opened, One
<1>8. CASE /\ out' = (out \ {p}) \cup {[p EXCEPT !.sd = "unwatched"]}
           /\ UNCHANGED <<counts, results>>
  <2>1. numSDs' = numSDs + One("unwatched" = "watched")
    BY <1>1, <1>8, TypeInts DEF One, counts
  <2>. QED
    BY <1>6, <1>8, <2>1 DEF Opened, counts
<1>. QED
  BY <1>5, <1>7, <1>8 DEF ConnectReturns

LEMMA SelectKeeps ==
  ASSUME IInv, NEW p \in out, do_one_select_round(p)
  PROVE  Kept'
<1>1. p.sd = "watched" /\ pc = "wait" /\ UNCHANGED <<host, pc, plan>>
  BY DEF do_one_select_round
<1>2. ~p.timedout /\ \A r \in out \ {p} : r.sd # "called"
  BY <1>1 DEF IInv, Accounting, ListInv, Calling
<1>. QED
  BY <1>1, <1>2, ResultKeeps DEF do_one_select_round, Kept

LEMMA PingKeeps ==
  ASSUME IInv, doAnyPings
  PROVE  Kept'
<1>1. /\ TypeOk /\ Accounting /\ NoPortForgotten /\ TriesAllowed
      /\ ListInv /\ EndInv /\ BenchInv /\ OneLive /\ LiveTries
  BY ForgottenParts, TriesParts DEF IInv
<1>2. /\ ping.port \in Ports /\ ping.seq + 1 \in Nat
      /\ out' = out \cup {Probe(ping.port, ping.seq + 1, TRUE)}
      /\ active' = active + 1
      /\ UNCHANGED <<fresh, bench, bench_tryno, retry, rld, tries, listening, tryno_cap,
                     late, reported, waiting, numSDs, state, max_successful_tryno, fate>>
      /\ pc = "pings" /\ pc' = "retransmits"
  BY <1>1, TypeInts DEF doAnyPings, host, plan
<1>3. ListInv' /\ Probe(ping.port, ping.seq + 1, TRUE) \notin out
  BY <1>1, ListPing
<1>4. Accounting'
  BY <1>1, <1>2, <1>3, AccountingAdd
<1> DEFINE q == Probe(ping.port, ping.seq + 1, TRUE)
<1>5. ~Live(q)
  BY DEF Probe, Live
<1>6. out' = out \cup {q}
  BY <1>2
<1>. HIDE DEF q
<1>7. InFlight' = InFlight /\ OneLive' /\ LiveTries'
  BY <1>1, <1>2, <1>5, <1>6 DEF InFlight, OneLive, LiveTries, Live, allowedTryno
<1>8. NoPortForgotten' /\ TriesAllowed' /\ BenchInv'
  BY <1>1, <1>2, <1>7, SameFlight
<1>9. EndInv'
  BY <1>1, <1>2 DEF EndInv
<1>. QED
  BY <1>3, <1>4, <1>8, <1>9 DEF Kept

\* A port goes into flight with a new try, from the list, the stack or the plan.
LEMMA NewTry ==
  ASSUME IInv, NEW x \in Ports, fate[x] = "none", x \notin bench,
         NEW n \in Nat, n > tries[x], n <= allowedTryno,
         bench # {} => n <= bench_tryno,
         tries' = [tries EXCEPT ![x] = n],
         OneLive', \A r \in out' : Live(r) =>
             \/ r \in out /\ r.port # x
             \/ r.port = x /\ r.tryno = n,
         InFlight' \cup fresh' \cup Stacked' = InFlight \cup fresh \cup Stacked \cup {x},
         InFlight' \ {x} = InFlight \ {x}, x \in InFlight',
         fresh' = fresh \ {x}, retry' \subseteq retry, x \notin Stacked',
         UNCHANGED <<bench, bench_tryno, fate, max_successful_tryno, tryno_cap, pc,
                     state, listening, late, reported>>,
         rld'.max = rld.max
  PROVE  NoPortForgotten' /\ TriesAllowed' /\ BenchInv' /\ EndInv'
<1>1. /\ TypeOk /\ NoPortForgotten /\ TriesAllowed /\ ListInv /\ EndInv /\ BenchInv
      /\ LiveTries
  BY TriesParts DEF IInv
<1>2. /\ \A y \in Ports : tries[y] \in Nat \cup {-1}
      /\ \A y \in Ports : tries'[y] = IF y = x THEN n ELSE tries[y]
      /\ bench \subseteq Ports /\ fresh \subseteq Ports
  BY <1>1 DEF TypeOk
<1>3. allowedTryno' = allowedTryno /\ allowedTryno \in Nat /\ allowedTryno <= tryno_cap
  BY <1>1, AllowedFacts DEF allowedTryno
<1>4. Stacked' \subseteq Stacked
  BY DEF Stacked
<1>5. NoPortForgotten'
  <2>1. {y \in Ports : fate'[y] = "none"} = fresh' \cup InFlight' \cup bench' \cup Stacked'
    BY <1>1, <1>2 DEF NoPortForgotten
  <2>2. /\ fresh' \cap InFlight' = {} /\ fresh' \cap bench' = {} /\ fresh' \cap Stacked' = {}
        /\ InFlight' \cap bench' = {} /\ InFlight' \cap Stacked' = {} /\ bench' \cap Stacked' = {}
    BY <1>1, <1>4 DEF NoPortForgotten
  <2>3. \A r, t \in retry' : r.port = t.port => r = t
    BY <1>1 DEF NoPortForgotten
  <2>. QED
    BY <2>1, <2>2, <2>3 DEF NoPortForgotten, OneLive
<1>6. \A r \in retry' : r.port # x /\ r.port \in Ports
  BY <1>1, ProbeTypes DEF Stacked
<1>7. TriesAllowed'
  <2>1. \A r \in out' : Live(r) => r.tryno = tries'[r.port] /\ r.tryno <= allowedTryno'
    <3> SUFFICES ASSUME NEW r \in out', Live(r)
                 PROVE  r.tryno = tries'[r.port] /\ r.tryno <= allowedTryno'
      OBVIOUS
    <3>1. CASE r \in out /\ r.port # x
      <4>1. r.port \in Ports /\ r.tryno = tries[r.port] /\ r.tryno <= allowedTryno
        BY <1>1, <3>1, ProbeTypes DEF LiveTries
      <4>. QED
        BY <1>2, <1>3, <3>1, <4>1
    <3>2. CASE r.port = x /\ r.tryno = n
      BY <1>2, <1>3, <3>2
    <3>. QED
      BY <3>1, <3>2
  <2>2. \A y \in bench' : tries'[y] = bench_tryno' /\ bench_tryno' <= allowedTryno'
    BY <1>1, <1>2, <1>3 DEF TriesAllowed
  <2>3. \A r \in retry' : r.tries = tries'[r.port] /\ r.tries < allowedTryno'
    BY <1>1, <1>2, <1>3, <1>6 DEF TriesAllowed
  <2>4. \A y \in Ports : tries'[y] <= tryno_cap'
    <3>1. n <= tryno_cap
      BY <1>1, <1>3, TypeInts
    <3>. QED
      BY <1>1, <1>2, <3>1 DEF TriesAllowed
  <2>. QED
    BY <2>1, <2>2, <2>3, <2>4 DEF TriesAllowed, Live
<1>8. BenchInv'
  <2>1. rld'.max <= allowedTryno'
    BY <1>1, <1>3 DEF BenchInv
  <2>2. \A y \in Ports : tries'[y] <= allowedTryno'
    BY <1>1, <1>2, <1>3 DEF BenchInv
  <2>3. bench' # {} => \A y \in Ports : tries'[y] <= bench_tryno'
    BY <1>1, <1>2 DEF BenchInv
  <2>4. bench' # {} => /\ \A r \in retry' : r.tries < bench_tryno'
                       /\ pc' \in {"pings", "retransmits"} => rld'.max <= bench_tryno'
    BY <1>1 DEF BenchInv
  <2>. QED
    BY <2>1, <2>2, <2>3, <2>4 DEF BenchInv
<1>9. EndInv'
  BY <1>1, <1>2 DEF EndInv
<1>. QED
  BY <1>5, <1>7, <1>8, <1>9

LEMMA RetransmitKeeps ==
  ASSUME IInv, NEW p \in out, Retransmit(p)
  PROVE  Kept'
<1>1. /\ TypeOk /\ Accounting /\ NoPortForgotten /\ TriesAllowed
      /\ ListInv /\ EndInv /\ BenchInv /\ OneLive /\ LiveTries
  BY ForgottenParts, TriesParts DEF IInv
<1> DEFINE x == p.port
           n == p.tryno + 1
           q == Retransmitted(p)
           new == Probe(x, n, FALSE)
<1>2. /\ p \in Probes /\ x \in Ports /\ p.tryno \in Nat /\ n \in Nat /\ Live(p)
      /\ p.tryno = tries[x] /\ allowedTryno > p.tryno /\ x \in InFlight
  BY <1>1, ProbeTypes DEF Retransmit, Waits, LiveTries, Live, InFlight
<1>3. /\ q.port = x /\ ~Live(q)
  BY <1>2, ChangedFields DEF Live
<1>4. /\ new.port = x /\ new.tryno = n /\ Live(new)
  BY DEF Probe, Live
<1>5. /\ out' = (out \ {p}) \cup {q, new} /\ tries' = [tries EXCEPT ![x] = n]
      /\ UNCHANGED <<fresh, retry, bench, bench_tryno, fate, max_successful_tryno, tryno_cap,
                     pc, state, listening, late, reported>>
      /\ pc = "retransmits"
  BY DEF Retransmit, host
<1>6. rld'.max = rld.max
  BY <1>1 DEF Retransmit, TypeOk
<1>7. fate[x] = "none" /\ x \notin bench /\ x \notin fresh /\ x \notin Stacked
  BY <1>1, <1>2 DEF NoPortForgotten
<1>8. n > tries[x] /\ n <= allowedTryno
  BY <1>1, <1>2, AllowedFacts
<1>9. bench # {} => n <= bench_tryno
  <2> SUFFICES ASSUME bench # {} PROVE n <= bench_tryno
    OBVIOUS
  <2>1. CASE n <= rld.max
    <3>1. rld.max <= bench_tryno
      BY <1>1, <1>5 DEF BenchInv
    <3>. QED
      BY <1>1, <1>2, <2>1, <3>1, TypeInts
  <2>2. CASE Count(Ports) = 1
    <3>1. \E y : Ports = {y}
      BY <2>2, PortsAssumption, FS_Singleton DEF Count
    <3>2. bench \subseteq Ports
      BY <1>1 DEF TypeOk
    <3>. QED
      BY <1>2, <1>7, <3>1, <3>2
  <2>. QED
    BY <2>1, <2>2 DEF Retransmit
<1>. HIDE DEF q, new
<1>10. \A r \in out : Live(r) /\ r.port = x => r = p
  BY <1>1, <1>2 DEF OneLive
<1>11. \A r \in out' : Live(r) => \/ r \in out /\ r.port # x
                                  \/ r = new
  BY <1>3, <1>5, <1>10
<1>12. OneLive'
  BY <1>1, <1>4, <1>11 DEF OneLive, Live
<1>13. /\ InFlight' = InFlight
  BY <1>2, <1>3, <1>4, <1>5, <1>11 DEF InFlight, Live
<1>14. /\ NoPortForgotten' /\ TriesAllowed' /\ BenchInv' /\ EndInv'
  <2>1. Stacked' = Stacked
    BY <1>5 DEF Stacked
  <2>2. fresh' = fresh \ {x} /\ retry' \subseteq retry
    BY <1>5, <1>7
  <2>3. \A r \in out' : Live(r) => \/ r \in out /\ r.port # x
                                   \/ r.port = x /\ r.tryno = n
    BY <1>4, <1>11
  <2>4. x \notin Stacked' /\ x \in InFlight' /\ InFlight' \ {x} = InFlight \ {x}
    BY <1>2, <1>7, <1>13, <2>1
  <2>5. InFlight' \cup fresh' \cup Stacked' = InFlight \cup fresh \cup Stacked \cup {x}
    BY <1>2, <1>5, <1>13, <2>1
  <2>. HIDE DEF x, n
  <2>. QED
    BY <1>2, <1>5, <1>6, <1>7, <1>8, <1>9, <1>12, <2>2, <2>3, <2>4, <2>5, NewTry
<1>15. Accounting' /\ ListInv'
  BY <1>1, AccountingRetransmit, ListRetransmit
<1>. QED
  BY <1>14, <1>15 DEF Kept

\* A new probe of a port that is not in flight.
LEMMA FlightAdds ==
  ASSUME TypeOk, OneLive, NEW x \in Ports, x \notin InFlight, NEW n \in Nat,
         out' = out \cup {Probe(x, n, FALSE)}
  PROVE  /\ OneLive' /\ InFlight' = InFlight \cup {x}
         /\ \A r \in out' : Live(r) => \/ r \in out /\ r.port # x
                                       \/ r.port = x /\ r.tryno = n
<1> DEFINE q == Probe(x, n, FALSE)
<1>1. q.port = x /\ q.tryno = n /\ Live(q)
  BY DEF Probe, Live
<1>2. out' = out \cup {q}
  OBVIOUS
<1>. HIDE DEF q
<1>3. \A r \in out : Live(r) => r.port # x
  BY DEF InFlight
<1>4. InFlight' = InFlight \cup {x}
  BY <1>1, <1>2 DEF InFlight, Live
<1>5. OneLive'
  BY <1>1, <1>2, <1>3 DEF OneLive, Live
<1>. QED
  BY <1>1, <1>2, <1>3, <1>4, <1>5

LEMMA RetryKeeps ==
  ASSUME IInv, NEW r \in retry, sendNextRetryStackProbe(r)
  PROVE  Kept'
<1>1. /\ TypeOk /\ Accounting /\ NoPortForgotten /\ TriesAllowed
      /\ ListInv /\ EndInv /\ BenchInv /\ OneLive /\ LiveTries
  BY ForgottenParts, TriesParts DEF IInv
<1> DEFINE x == r.port
           n == r.tries + 1
<1>2. /\ x \in Ports /\ r.tries \in Nat /\ n \in Nat /\ x \in Stacked
      /\ r.tries = tries[x] /\ r.tries < allowedTryno
  BY <1>1, ProbeTypes DEF Stacked, TriesAllowed
<1>3. /\ out' = out \cup {Probe(x, n, FALSE)} /\ tries' = [tries EXCEPT ![x] = n]
      /\ retry' = retry \ {r} /\ active' = active + 1
      /\ UNCHANGED <<fresh, bench, bench_tryno, fate, max_successful_tryno, tryno_cap,
                     pc, state, listening, late, reported, rld, waiting, numSDs>>
      /\ pc = "retries" /\ ~Calling /\ numSDs < MaxSockets
  BY DEF sendNextRetryStackProbe, host, sendOK
<1>4. ping'.seq = ping.seq
  BY <1>1, TypeInts DEF sendNextRetryStackProbe, Sent
<1>5. fate[x] = "none" /\ x \notin bench /\ x \notin fresh /\ x \notin InFlight
  BY <1>1, <1>2 DEF NoPortForgotten
<1>6. n > tries[x] /\ n <= allowedTryno
  BY <1>1, <1>2, AllowedFacts
<1>7. bench # {} => n <= bench_tryno
  BY <1>1, <1>2, TypeInts DEF BenchInv
<1>8. Stacked' = Stacked \ {x}
  BY <1>1, <1>3 DEF Stacked, NoPortForgotten
<1>. HIDE DEF x, n
<1>9. /\ OneLive' /\ InFlight' = InFlight \cup {x}
      /\ \A t \in out' : Live(t) => \/ t \in out /\ t.port # x
                                    \/ t.port = x /\ t.tryno = n
  BY <1>1, <1>2, <1>3, <1>5, FlightAdds
<1>10. /\ NoPortForgotten' /\ TriesAllowed' /\ BenchInv' /\ EndInv'
  <2>1. fresh' = fresh \ {x} /\ retry' \subseteq retry /\ rld'.max = rld.max
    BY <1>3, <1>5
  <2>2. /\ x \notin Stacked' /\ x \in InFlight' /\ InFlight' \ {x} = InFlight \ {x}
        /\ InFlight' \cup fresh' \cup Stacked' = InFlight \cup fresh \cup Stacked \cup {x}
    BY <1>2, <1>3, <1>5, <1>8, <1>9
  <2>. QED
    BY <1>2, <1>3, <1>5, <1>6, <1>7, <1>9, <2>1, <2>2, NewTry
<1>11. ListInv'
  BY <1>1, <1>2, <1>3, <1>4, <1>5, <1>6, ListAdd
<1>12. Probe(x, n, FALSE) \notin out
  <2> DEFINE q == Probe(x, n, FALSE)
  <2>1. q.port = x /\ q.tryno = n /\ ~q.isPing
    BY DEF Probe
  <2>2. \A t \in out : ~t.isPing => t.tryno <= tries[t.port] /\ t.tryno \in Nat
    BY <1>1, ProbeTypes DEF ListInv
  <2>. HIDE DEF q
  <2>3. q \notin out
    BY <1>2, <1>6, <2>1, <2>2
  <2>. QED
    BY <2>3 DEF q
<1>13. Accounting'
  BY <1>1, <1>2, <1>3, <1>12, AccountingAdd
<1>. QED
  BY <1>10, <1>11, <1>13 DEF Kept

LEMMA NewKeeps ==
  ASSUME IInv, NEW x \in fresh, sendNextScanProbe(x)
  PROVE  Kept'
<1>1. /\ TypeOk /\ Accounting /\ NoPortForgotten /\ TriesAllowed
      /\ ListInv /\ EndInv /\ BenchInv /\ OneLive /\ LiveTries
  BY ForgottenParts, TriesParts DEF IInv
<1>2. x \in Ports /\ 0 \in Nat /\ tries[x] = -1
  BY <1>1 DEF TypeOk, ListInv
<1>3. /\ out' = out \cup {Probe(x, 0, FALSE)} /\ tries' = [tries EXCEPT ![x] = 0]
      /\ fresh' = fresh \ {x} /\ active' = active + 1
      /\ UNCHANGED <<retry, bench, bench_tryno, fate, max_successful_tryno, tryno_cap,
                     pc, state, listening, late, reported, rld, waiting, numSDs>>
      /\ pc = "new" /\ ~Calling /\ numSDs < MaxSockets
  BY DEF sendNextScanProbe, host, sendOK
<1>4. ping'.seq = ping.seq
  BY <1>1, TypeInts DEF sendNextScanProbe, Sent
<1>5. fate[x] = "none" /\ x \notin bench /\ x \notin Stacked /\ x \notin InFlight
  BY <1>1, <1>2 DEF NoPortForgotten
<1>6. 0 > tries[x] /\ 0 <= allowedTryno
  BY <1>1, <1>2, AllowedFacts
<1>7. bench # {} => 0 <= bench_tryno
  BY <1>1, TypeInts
<1>8. Stacked' = Stacked
  BY <1>3 DEF Stacked
<1>9. /\ OneLive' /\ InFlight' = InFlight \cup {x}
      /\ \A t \in out' : Live(t) => \/ t \in out /\ t.port # x
                                    \/ t.port = x /\ t.tryno = 0
  BY <1>1, <1>2, <1>3, <1>5, FlightAdds
<1>10. /\ NoPortForgotten' /\ TriesAllowed' /\ BenchInv' /\ EndInv'
  <2>1. retry' \subseteq retry /\ rld'.max = rld.max
    BY <1>3
  <2>2. /\ x \notin Stacked' /\ x \in InFlight' /\ InFlight' \ {x} = InFlight \ {x}
        /\ InFlight' \cup fresh' \cup Stacked' = InFlight \cup fresh \cup Stacked \cup {x}
    BY <1>3, <1>5, <1>8, <1>9
  <2>. QED
    BY <1>2, <1>3, <1>5, <1>6, <1>7, <1>9, <2>1, <2>2, NewTry
<1>11. ListInv'
  BY <1>1, <1>2, <1>3, <1>4, <1>5, <1>6, ListAdd
<1>12. Probe(x, 0, FALSE) \notin out
  <2> DEFINE q == Probe(x, 0, FALSE)
  <2>1. q.port = x /\ q.tryno = 0 /\ ~q.isPing
    BY DEF Probe
  <2>2. \A t \in out : ~t.isPing => t.tryno <= tries[t.port] /\ t.tryno \in Nat
    BY <1>1, ProbeTypes DEF ListInv
  <2>. HIDE DEF q
  <2>3. q \notin out
    BY <1>2, <2>1, <2>2
  <2>. QED
    BY <2>3 DEF q
<1>13. Accounting'
  BY <1>1, <1>2, <1>3, <1>12, AccountingAdd
<1>. QED
  BY <1>10, <1>11, <1>13 DEF Kept

-----------------------------------------------------------------------------
(* The pass over the list *)

\* Nothing in flight, benched or planned: every port has its end.
LEMMA CompletedEnds ==
  ASSUME TypeOk', Accounting', NoPortForgotten', completed'
  PROVE  \A x \in Ports : fate'[x] # "none"
<1>1. /\ out' \subseteq Probes /\ IsFiniteSet(out')
  BY DEF TypeOk
<1>2. Up(out') = {} /\ Waiting(out') = {}
  <2>1. Count(Up(out')) = 0 /\ Count(Waiting(out')) = 0
    BY DEF Accounting, completed, Up, Waiting, Waits
  <2>2. Up(out') \subseteq out' /\ Waiting(out') \subseteq out'
    BY DEF Up, Waiting
  <2>3. IsFiniteSet(Up(out')) /\ IsFiniteSet(Waiting(out'))
    BY <1>1, <2>2, CountPart
  <2>4. Cardinality(Up(out')) = 0 /\ Cardinality(Waiting(out')) = 0
    BY <2>1 DEF Count
  <2>. QED
    BY <2>3, <2>4, FS_EmptySet
<1>3. \A p \in out' : ~Live(p)
  BY <1>2 DEF Up, Waiting, Waits, Live
<1>4. InFlight' = {}
  BY <1>3 DEF InFlight, Live
<1>5. fresh' = {} /\ bench' = {} /\ Stacked' = {}
  BY DEF completed, Stacked
<1>. QED
  BY <1>4, <1>5 DEF NoPortForgotten

LEMMA SweepKeeps ==
  ASSUME IInv, TypeOk', NEW aged \in SUBSET out, Sweep(aged), pc = "wait",
         pc' = IF completed' THEN "done" ELSE "pings",
         UNCHANGED <<fresh, host, state, max_successful_tryno, ping, rld, tries>>
  PROVE  Kept'
<1>1. /\ TypeOk /\ Accounting /\ NoPortForgotten /\ TriesAllowed
      /\ ListInv /\ EndInv /\ BenchInv /\ OneLive /\ LiveTries
  BY ForgottenParts, TriesParts DEF IInv
<1> DEFINE marked == {p \in aged : ~p.timedout}
           given == {p \in out : Waits(p) /\ ~MayIncrease /\ p.tryno >= allowedTryno}
           moved == {p \in aged : Waits(p) /\ MayIncrease /\ p.tryno >= allowedTryno}
           gone == {p \in aged : p.timedout /\ (p.isPing \/ p.retransmitted)}
           all == marked \cup given \cup moved \cup gone
           G == {p.port : p \in given}
           M == {p.port : p \in moved}
           Bd == IF Dismissed THEN bench ELSE {}
           Bs == IF ~Dismissed /\ allowedTryno > bench_tryno THEN bench ELSE {}
<1>2. /\ out' = (out \ all) \cup {TimedOut(p) : p \in marked}
      /\ bench' = Benched \cup M
      /\ bench_tryno' = IF Benched # {} THEN bench_tryno
                        ELSE IF moved # {} THEN (CHOOSE p \in moved : TRUE).tryno ELSE 0
      /\ retry' = IF ~Dismissed /\ allowedTryno > bench_tryno
                  THEN retry \cup [port : bench, tries : {bench_tryno}] ELSE retry
      /\ fate' = [x \in Ports |-> IF x \in G \cup Bd THEN "given up" ELSE fate[x]]
  BY DEF Sweep
<1>3. /\ UNCHANGED <<fresh, listening, tryno_cap, late, reported, state,
                     max_successful_tryno, ping, rld, tries>>
      /\ allowedTryno' = allowedTryno
      /\ allowedTryno \in Nat /\ 1 <= allowedTryno /\ allowedTryno <= tryno_cap
  BY <1>1, AllowedFacts DEF host, allowedTryno
<1>4. Accounting'
  BY <1>1, AccountingSweep
<1>5. marked \in SUBSET all /\ all \in SUBSET out /\ \A p \in marked : ~p.timedout
  OBVIOUS
<1>6. ListInv'
  <2>1. ~Calling
    BY <1>1 DEF ListInv
  <2>2. \A p \in marked : TimedOut(p).sd # "called"
    <3> SUFFICES ASSUME NEW p \in marked PROVE TimedOut(p).sd # "called"
      OBVIOUS
    <3>1. p \in Probes
      BY <1>1, ProbeTypes
    <3>. QED
      BY <3>1, ChangedFields
  <2>. HIDE DEF all, marked
  <2>3. ~Calling'
    BY <1>2, <2>1, <2>2 DEF Calling
  <2>. QED
    BY <1>1, <1>2, <1>3, <1>5, <2>3, ListShrinks
<1>7. \A p \in given \cup moved : /\ p \in out /\ Live(p) /\ p.port \in Ports
                                  /\ p.tryno = allowedTryno /\ tries[p.port] = allowedTryno
  <2> SUFFICES ASSUME NEW p \in given \cup moved
               PROVE  /\ p \in out /\ Live(p) /\ p.port \in Ports
                      /\ p.tryno = allowedTryno /\ tries[p.port] = allowedTryno
    OBVIOUS
  <2>1. p \in out /\ Live(p) /\ p.tryno >= allowedTryno
    BY DEF Waits, Live
  <2>. QED
    BY <1>1, <1>3, <2>1, ProbeTypes DEF LiveTries
<1>8. OneLive' /\ LiveTries' /\ InFlight' = InFlight \ (G \cup M)
  <2>1. /\ InFlight' = {r.port : r \in {q \in out \ (all \ marked) : Live(q)}}
        /\ OneLive' /\ LiveTries'
    <3>. HIDE DEF all, marked
    <3>1. /\ LiveTries /\ tries' = tries
          /\ allowedTryno' \in Nat /\ allowedTryno' >= allowedTryno
      BY <1>1, <1>3
    <3>2. out' = (out \ all) \cup {TimedOut(p) : p \in marked}
      BY <1>2
    <3>3. marked \in SUBSET all /\ all \in SUBSET out
      BY <1>5
    <3>. QED
      BY ONLY <1>1, <3>1, <3>2, <3>3, FlightShrinks
  <2>2. {q \in out \ (all \ marked) : Live(q)} = {q \in out \ (given \cup moved) : Live(q)}
    BY DEF Live, Waits
  <2>. HIDE DEF all, marked, given, moved
  <2>3. {r.port : r \in {q \in out \ (given \cup moved) : Live(q)}} = InFlight \ (G \cup M)
    BY <1>1, <1>7 DEF InFlight, OneLive
  <2>. QED
    BY <2>1, <2>2, <2>3
<1>9. /\ G \subseteq InFlight /\ M \subseteq InFlight
      /\ G = {} \/ M = {}
  BY <1>7 DEF InFlight
<1>10. /\ Bd \cup Bs \cup Benched = bench
       /\ Bd \cap Bs = {} /\ Bd \cap Benched = {} /\ Bs \cap Benched = {}
  BY DEF Benched
<1>11. Stacked' = Stacked \cup Bs
  <2>1. CASE ~Dismissed /\ allowedTryno > bench_tryno
    <3>1. retry' = retry \cup [port : bench, tries : {bench_tryno}]
      BY <1>2, <2>1
    <3>2. {r.port : r \in [port : bench, tries : {bench_tryno}]} = bench
      <4>1. \A r \in [port : bench, tries : {bench_tryno}] : r.port \in bench
        OBVIOUS
      <4>2. ASSUME NEW y \in bench
            PROVE  \E r \in [port : bench, tries : {bench_tryno}] : r.port = y
        <5>1. /\ [port |-> y, tries |-> bench_tryno] \in [port : bench, tries : {bench_tryno}]
              /\ [port |-> y, tries |-> bench_tryno].port = y
          OBVIOUS
        <5>. QED
          BY <5>1
      <4>. QED
        BY <4>1, <4>2
    <3>. QED
      BY <2>1, <3>1, <3>2 DEF Stacked
  <2>2. CASE ~(~Dismissed /\ allowedTryno > bench_tryno)
    BY <1>2, <2>2 DEF Stacked
  <2>. QED
    BY <2>1, <2>2
<1>12. bench \subseteq Ports /\ bench_tryno \in Nat
  BY <1>1 DEF TypeOk
<1>13. \A r \in retry' : \/ r \in retry
                         \/ /\ r.port \in bench /\ r.tries = bench_tryno /\ bench_tryno < allowedTryno
                            /\ r = [port |-> r.port, tries |-> bench_tryno]
  <2>1. CASE ~Dismissed /\ allowedTryno > bench_tryno
    <3>1. retry' = retry \cup [port : bench, tries : {bench_tryno}]
      BY <1>2, <2>1
    <3>2. \A r \in [port : bench, tries : {bench_tryno}] :
             /\ r.port \in bench /\ r.tries = bench_tryno
             /\ r = [port |-> r.port, tries |-> bench_tryno]
      OBVIOUS
    <3>3. bench_tryno < allowedTryno
      BY <1>3, <1>12, <2>1
    <3>. QED
      BY <3>1, <3>2, <3>3
  <2>2. CASE ~(~Dismissed /\ allowedTryno > bench_tryno)
    BY <1>2, <2>2
  <2>. QED
    BY <2>1, <2>2
<1>14. bench' # {} => bench_tryno' = allowedTryno
  <2>1. CASE Benched # {}
    <3>1. ~(allowedTryno > bench_tryno) /\ bench # {}
      BY <2>1 DEF Benched
    <3>2. bench_tryno <= allowedTryno
      BY <1>1, <3>1 DEF TriesAllowed
    <3>3. bench_tryno' = bench_tryno
      BY <1>2, <2>1
    <3>. QED
      BY ONLY <1>3, <1>12, <3>1, <3>2, <3>3
  <2>2. CASE Benched = {} /\ moved # {}
    <3>. HIDE DEF moved
    <3>1. (CHOOSE p \in moved : TRUE) \in moved
      BY <2>2
    <3>. QED
      BY <1>2, <1>7, <2>2, <3>1
  <2>3. CASE Benched = {} /\ moved = {}
    BY <1>2, <2>3
  <2>. QED
    BY <2>1, <2>2, <2>3
<1>15. \A y \in bench' : tries[y] = allowedTryno
  <2>1. \A y \in M : tries[y] = allowedTryno
    BY <1>7
  <2>2. \A y \in Benched : tries[y] = allowedTryno
    <3>1. Benched # {} => Benched = bench /\ ~(allowedTryno > bench_tryno)
      BY DEF Benched
    <3>2. \A y \in bench : tries[y] = bench_tryno /\ bench_tryno <= allowedTryno
      BY <1>1 DEF TriesAllowed
    <3>. QED
      BY <1>3, <1>12, <3>1, <3>2
  <2>. QED
    BY <1>2, <2>1, <2>2
<1>16. \A y \in G \cup Bd : y \in Ports /\ fate[y] = "none" /\ tries[y] = allowedTryno
  <2>1. \A y \in G : y \in Ports /\ fate[y] = "none" /\ tries[y] = allowedTryno
    BY <1>1, <1>7, <1>9 DEF NoPortForgotten
  <2>2. \A y \in Bd : y \in Ports /\ fate[y] = "none" /\ tries[y] = allowedTryno
    <3>1. \A y \in Bd : y \in bench /\ allowedTryno = bench_tryno
      BY DEF Dismissed
    <3>. QED
      BY <1>1, <1>12, <3>1 DEF NoPortForgotten, TriesAllowed
  <2>. QED
    BY <2>1, <2>2
<1>. HIDE DEF given, moved, gone, marked, all, G, M, Bd, Bs
<1>17. {y \in Ports : fate'[y] = "none"} = {y \in Ports : fate[y] = "none"} \ (G \cup Bd)
  BY <1>2
<1>18. NoPortForgotten'
  <2>1. {y \in Ports : fate'[y] = "none"} = fresh' \cup InFlight' \cup bench' \cup Stacked'
    BY <1>1, <1>2, <1>3, <1>8, <1>9, <1>10, <1>11, <1>17 DEF NoPortForgotten
  <2>2. /\ fresh' \cap InFlight' = {} /\ fresh' \cap bench' = {} /\ fresh' \cap Stacked' = {}
        /\ InFlight' \cap bench' = {} /\ InFlight' \cap Stacked' = {} /\ bench' \cap Stacked' = {}
    BY <1>1, <1>2, <1>3, <1>8, <1>9, <1>10, <1>11 DEF NoPortForgotten
  <2>3. \A r, t \in retry' : r.port = t.port => r = t
    <3>1. \A r \in retry : r.port \notin bench
      BY <1>1 DEF NoPortForgotten, Stacked
    <3>. QED
      BY <1>1, <1>13, <3>1 DEF NoPortForgotten
  <2>. QED
    BY <1>8, <2>1, <2>2, <2>3 DEF NoPortForgotten, OneLive
<1>19. TriesAllowed'
  <2>1. \A r \in retry' : r.tries = tries[r.port] /\ r.tries < allowedTryno
    BY <1>1, <1>13 DEF TriesAllowed
  <2>2. \A y \in bench' : tries'[y] = bench_tryno' /\ bench_tryno' <= allowedTryno'
    BY <1>3, <1>14, <1>15
  <2>3. \A y \in Ports : tries'[y] <= tryno_cap'
    BY <1>1, <1>3 DEF TriesAllowed
  <2>. QED
    BY <1>3, <1>8, <2>1, <2>2, <2>3 DEF TriesAllowed, LiveTries
<1>20. BenchInv'
  <2>1. \A r \in retry' : r.tries < allowedTryno
    BY <1>1, <1>13 DEF TriesAllowed
  <2>. QED
    BY <1>1, <1>3, <1>14, <2>1 DEF BenchInv
<1>21. EndInv'
  <2>1. \A y \in Ports :
           /\ state'[y] = "open" => y \in listening'
           /\ fate'[y] = "none" => state'[y] = "default"
           /\ fate'[y] = "answered" /\ y \in listening' => state'[y] \in {"open", "filtered"}
           /\ fate'[y] = "given up" => tries'[y] >= 1
    BY <1>1, <1>2, <1>3, <1>16 DEF EndInv
  <2>2. pc' \in {"done", "reported"} => \A y \in Ports : fate'[y] # "none"
    BY <1>4, <1>18, CompletedEnds
  <2>. QED
    BY <2>1, <2>2 DEF EndInv
<1>. QED
  BY <1>4, <1>6, <1>18, <1>19, <1>20, <1>21 DEF Kept

LEMMA ProcessKeeps ==
  ASSUME IInv, TypeOk', NEW aged \in SUBSET out, processData(aged)
  PROVE  Kept'
<1>1. /\ TypeOk /\ Accounting /\ NoPortForgotten /\ TriesAllowed
      /\ ListInv /\ EndInv /\ BenchInv
  BY DEF IInv
<1>2. /\ UNCHANGED <<listening, tryno_cap, late, reported, state, max_successful_tryno,
                     ping, rld, tries>>
      /\ UNCHANGED host /\ pc = "wait"
  BY DEF processData, host
<1>3. CASE (completed \/ late) /\ pc' = "done" /\ UNCHANGED <<queues, counts, fate>>
  <2>1. UNCHANGED <<fresh, out, bench, bench_tryno, retry, active, waiting, numSDs, fate>>
    BY <1>3 DEF queues, counts
  <2>2. Accounting'
    BY <1>1, <2>1 DEF Accounting, Waits
  <2>3. ListInv'
    <3>1. ~Calling /\ ~Calling'
      BY <1>1, <1>2, <2>1 DEF ListInv, Calling
    <3>. QED
      BY <1>1, <1>2, <2>1, <3>1 DEF ListInv
  <2>4. NoPortForgotten' /\ TriesAllowed' /\ BenchInv'
    BY <1>1, <1>2, <1>3, <2>1, SameList
  <2>5. ~late => \A x \in Ports : fate'[x] # "none"
    <3>1. ~late => completed'
      BY <1>3, <2>1 DEF completed
    <3>. QED
      BY <2>2, <2>4, <3>1, CompletedEnds
  <2>6. EndInv'
    BY <1>1, <1>2, <1>3, <2>1, <2>5 DEF EndInv
  <2>. QED
    BY <2>2, <2>3, <2>4, <2>6 DEF Kept
<1>4. CASE UNCHANGED fresh /\ Sweep(aged) /\ pc' = IF completed' THEN "done" ELSE "pings"
  BY <1>2, <1>4, SweepKeeps
<1>. QED
  BY <1>3, <1>4 DEF processData

\* The steps that leave the list and the plan alone.
LEMMA QuietKeeps ==
  ASSUME IInv,
         UNCHANGED <<listening, tryno_cap, queues, counts, results, tries>>,
         rld'.max = rld.max,
         pc' \in {"pings", "retransmits"} => pc \in {"pings", "retransmits"},
         Calling => pc' \in {"pings", "retransmits", "retries", "new"},
         pc' \in {"done", "reported"} /\ ~late' => pc \in {"done", "reported"} /\ ~late,
         pc' = "reported" =>
            reported' = IF late' THEN {} ELSE {x \in Ports : state[x] = "open"}
  PROVE  Kept'
<1>1. /\ TypeOk /\ Accounting /\ NoPortForgotten /\ TriesAllowed
      /\ ListInv /\ EndInv /\ BenchInv
  BY DEF IInv
<1>2. /\ UNCHANGED <<fresh, out, bench, bench_tryno, retry, active, waiting, numSDs,
                     state, max_successful_tryno, ping, fate>>
      /\ UNCHANGED <<listening, tryno_cap, tries>>
  BY DEF queues, counts, results
<1>3. Accounting'
  BY <1>1, <1>2 DEF Accounting, Waits
<1>4. ListInv'
  <2>1. Calling' <=> Calling
    BY <1>2 DEF Calling
  <2>. QED
    BY <1>1, <1>2, <2>1 DEF ListInv
<1>5. NoPortForgotten' /\ TriesAllowed' /\ BenchInv'
  BY <1>1, <1>2, SameList
<1>6. EndInv'
  BY <1>1, <1>2 DEF EndInv
<1>. QED
  BY <1>3, <1>4, <1>5, <1>6 DEF Kept

LEMMA IInvInit == Init => IInv
<1> SUFFICES ASSUME Init PROVE IInv
  OBVIOUS
<1>1. TypeOk
  BY TypeInit
<1>2. /\ out = {} /\ bench = {} /\ retry = {} /\ fresh = Ports /\ pc = "pings"
      /\ active = 0 /\ waiting = 0 /\ numSDs = 0 /\ rld.max = 0
      /\ \A x \in Ports : state[x] = "default" /\ fate[x] = "none" /\ tries[x] = -1
  BY DEF Init
<1>3. Accounting
  <2>1. Count({}) = 0
    BY FS_EmptySet DEF Count
  <2>2. Up(out) = {} /\ Waiting(out) = {} /\ Watched(out) = {}
    BY <1>2 DEF Up, Waiting, Watched
  <2>. QED
    BY <1>2, <2>1, <2>2, LimitsAssumption, CountersIff DEF Counters
<1>4. NoPortForgotten
  BY <1>2 DEF NoPortForgotten, InFlight, Stacked
<1>5. tryno_cap \in Nat \ {0} /\ allowedTryno \in Nat
  BY <1>1, TypeInts, AllowedFacts
<1>6. TriesAllowed
  BY <1>2, <1>5 DEF TriesAllowed
<1>7. ListInv
  BY <1>2 DEF ListInv, Calling
<1>8. EndInv
  BY <1>2 DEF EndInv
<1>9. BenchInv
  BY <1>2, <1>5 DEF BenchInv
<1>. QED
  BY <1>1, <1>3, <1>4, <1>6, <1>7, <1>8, <1>9 DEF IInv

LEMMA IInvNext == IInv /\ [Next]_vars => IInv'
<1> SUFFICES ASSUME IInv, [Next]_vars PROVE IInv'
  OBVIOUS
<1>1. TypeOk'
  BY TypeNext DEF IInv
<1>2. ListInv /\ EndInv /\ TypeOk
  BY DEF IInv
<1>3. CASE UNCHANGED vars
  <2>1. UNCHANGED <<listening, tryno_cap, queues, counts, results, tries, rld, pc,
                    late, reported>>
    BY <1>3 DEF vars
  <2>2. UNCHANGED state
    BY <2>1 DEF results
  <2>. QED
    BY <1>1, <1>2, <2>1, <2>2, QuietKeeps DEF IInv, Kept, ListInv, EndInv
<1>4. ASSUME NEW p \in out, ConnectReturns(p) PROVE IInv'
  BY <1>1, <1>4, ConnectKeeps DEF IInv, Kept
<1>5. ASSUME NEW p \in out, do_one_select_round(p) PROVE IInv'
  BY <1>1, <1>5, SelectKeeps DEF IInv, Kept
<1>6. ASSUME NEW p \in out, StartRateLimitDetection(p) PROVE IInv'
  <2>1. /\ UNCHANGED <<host, queues, counts, results, tries>>
        /\ ~Calling /\ pc = "retransmits" /\ pc' = "retries"
        /\ allowedTryno > p.tryno
        /\ rld' = [at |-> "waiting", max |-> p.tryno + 1]
    BY <1>6 DEF StartRateLimitDetection
  <2>2. /\ UNCHANGED <<fresh, out, bench, bench_tryno, retry, active, waiting, numSDs,
                       state, max_successful_tryno, ping, fate>>
        /\ UNCHANGED <<listening, tryno_cap, late, reported, tries>>
    BY <2>1 DEF host, queues, counts, results
  <2>3. Accounting'
    BY <2>2 DEF IInv, Accounting, Waits
  <2>4. ListInv'
    <3>1. ~Calling'
      BY <2>1, <2>2 DEF Calling
    <3>. QED
      BY <1>2, <2>2, <3>1 DEF ListInv
  <2>5. allowedTryno' = allowedTryno
    BY <2>2 DEF allowedTryno
  <2>6. NoPortForgotten' /\ TriesAllowed'
    BY <2>2, <2>5 DEF IInv, NoPortForgotten, InFlight, Stacked, TriesAllowed, Live
  <2>7. BenchInv'
    <3>1. rld'.max <= allowedTryno
      BY <1>2, <2>1, ProbeTypes, AllowedFacts
    <3>. QED
      BY <2>1, <2>2, <2>5, <3>1 DEF IInv, BenchInv
  <2>8. EndInv'
    BY <1>2, <2>1, <2>2 DEF EndInv
  <2>. QED
    BY <1>1, <2>3, <2>4, <2>6, <2>7, <2>8 DEF IInv
<1>7. ASSUME NEW p \in out, Retransmit(p) PROVE IInv'
  BY <1>1, <1>7, RetransmitKeeps DEF IInv, Kept
<1>8. ASSUME NEW r \in retry, sendNextRetryStackProbe(r) PROVE IInv'
  BY <1>1, <1>8, RetryKeeps DEF IInv, Kept
<1>9. ASSUME NEW x \in fresh, sendNextScanProbe(x) PROVE IInv'
  BY <1>1, <1>9, NewKeeps DEF IInv, Kept
<1>10. CASE NextCall
  <2>1. /\ UNCHANGED <<listening, tryno_cap, late, reported, queues, counts, results,
                       rld, tries>>
        /\ ~Calling
        /\ \/ pc = "pings" /\ pc' = "retransmits"
           \/ pc' \in {"retries", "new", "wait"}
    BY <1>10 DEF NextCall, host
  <2>. QED
    BY <1>1, <2>1, QuietKeeps DEF IInv, Kept
<1>11. CASE doAnyPings
  BY <1>1, <1>11, PingKeeps DEF IInv, Kept
<1>12. CASE RldTimeOver
  <2>1. /\ UNCHANGED <<listening, tryno_cap, late, reported, pc, queues, counts, results, tries>>
        /\ rld'.max = rld.max
    BY <1>2, <1>12 DEF RldTimeOver, TypeOk, host
  <2>2. UNCHANGED state
    BY <2>1 DEF results
  <2>. QED
    BY <1>1, <1>2, <2>1, <2>2, QuietKeeps DEF IInv, Kept, ListInv, EndInv
<1>13. CASE HostTimeout
  <2>1. /\ UNCHANGED <<listening, tryno_cap, pc, queues, counts, results, rld, tries>>
        /\ pc # "reported" /\ late'
    BY <1>13 DEF HostTimeout
  <2>. QED
    BY <1>1, <1>2, <2>1, QuietKeeps DEF IInv, Kept, ListInv
<1>14. CASE Report
  <2>1. /\ UNCHANGED <<listening, tryno_cap, queues, counts, results, rld, late, tries>>
        /\ pc = "done" /\ pc' = "reported"
        /\ reported' = IF late THEN {} ELSE {x \in Ports : state[x] = "open"}
    BY <1>14 DEF Report
  <2>2. ~Calling
    BY <1>2, <2>1 DEF ListInv
  <2>. QED
    BY <1>1, <2>1, <2>2, QuietKeeps DEF IInv, Kept
<1>15. ASSUME NEW aged \in SUBSET out, processData(aged) PROVE IInv'
  BY <1>1, <1>15, ProcessKeeps DEF IInv, Kept
<1>. QED
  BY <1>3, <1>4, <1>5, <1>6, <1>7, <1>8, <1>9, <1>10, <1>11, <1>12, <1>13, <1>14, <1>15
     DEF Next

-----------------------------------------------------------------------------
(* Who is given up, and what is missed *)

LEMMA SweepGivesUp ==
  ASSUME IInv, NEW aged \in SUBSET out, Sweep(aged), NEW x \in Ports,
         fate'[x] = "given up", fate[x] # "given up"
  PROVE  tries[x] = allowedTryno /\ ~MayIncrease
<1>1. TypeOk /\ TriesAllowed /\ LiveTries
  BY TriesParts DEF IInv
<1>2. \/ \E p \in out : p.port = x /\ Waits(p) /\ ~MayIncrease /\ p.tryno >= allowedTryno
      \/ Dismissed /\ x \in bench
  BY DEF Sweep
<1>3. allowedTryno \in Nat
  BY <1>1, AllowedFacts
<1>4. ASSUME NEW p \in out, p.port = x, Waits(p), ~MayIncrease, p.tryno >= allowedTryno
      PROVE  tries[x] = allowedTryno
  <2>1. Live(p) /\ p.tryno \in Nat
    BY <1>1, <1>4, ProbeTypes DEF Waits, Live
  <2>2. p.tryno = tries[x] /\ p.tryno <= allowedTryno
    BY <1>1, <1>4, <2>1 DEF LiveTries
  <2>. QED
    BY ONLY <1>3, <1>4, <2>1, <2>2
<1>5. CASE Dismissed /\ x \in bench
  BY <1>1, <1>5 DEF Dismissed, TriesAllowed
<1>6. ~MayIncrease
  BY <1>2 DEF Dismissed
<1>. QED
  BY <1>2, <1>4, <1>5, <1>6

LEMMA ResultGivesUp ==
  ASSUME TypeOk, NEW p \in out, NEW e \in Errnos, NEW d \in BOOLEAN,
         handleConnectResult(p, e, d), NEW x \in Ports, fate'[x] = "given up"
  PROVE  fate[x] = "given up"
<1>1. fate \in [Ports -> {"none", "answered", "given up", "failed"}] /\ p.port \in Ports
  BY ProbeTypes DEF TypeOk
<1>2. \/ fate' = fate
      \/ fate' = [fate EXCEPT ![p.port] = "answered"]
      \/ fate' = [fate EXCEPT ![p.port] = "failed"]
  BY DEF handleConnectResult, results, ultrascan_port_probe_update
<1>. QED
  BY <1>1, <1>2

GivenUpLast ==
  \A x \in Ports : fate'[x] = "given up" /\ fate[x] # "given up" =>
     /\ tries[x] = allowedTryno
     /\ \/ allowedTryno = tryno_cap
        \/ \A y \in Ports : fate[y] # "none" \/ tries[y] = allowedTryno \/ y \in Stacked

LEMMA StepGivesUp == IInv /\ [Next]_vars => GivenUpLast
<1> SUFFICES ASSUME IInv, [Next]_vars, NEW x \in Ports,
                    fate'[x] = "given up", fate[x] # "given up"
             PROVE  /\ tries[x] = allowedTryno
                    /\ \/ allowedTryno = tryno_cap
                       \/ \A y \in Ports : \/ fate[y] # "none"
                                           \/ tries[y] = allowedTryno \/ y \in Stacked
  BY DEF GivenUpLast
<1>1. /\ TypeOk /\ NoPortForgotten /\ TriesAllowed /\ BenchInv /\ LiveTries
  BY TriesParts DEF IInv
<1>2. \E aged \in SUBSET out : Sweep(aged)
  <2>1. ASSUME NEW p \in out, ConnectReturns(p) \/ do_one_select_round(p)
        PROVE  FALSE
    <3>1. CASE UNCHANGED results
      BY <3>1 DEF results
    <3>2. ASSUME NEW e \in Errnos, NEW d \in BOOLEAN, handleConnectResult(p, e, d)
          PROVE  FALSE
      BY <1>1, <3>2, ResultGivesUp
    <3>. QED
      BY <2>1, <3>1, <3>2 DEF ConnectReturns, do_one_select_round
  <2>2. fate' # fate
    OBVIOUS
  <2>3. ASSUME NEW p \in out, StartRateLimitDetection(p) \/ Retransmit(p)
        PROVE  FALSE
    BY <2>2, <2>3 DEF StartRateLimitDetection, Retransmit, results
  <2>4. ASSUME NEW r \in retry, sendNextRetryStackProbe(r) PROVE FALSE
    BY <2>2, <2>4 DEF sendNextRetryStackProbe
  <2>5. ASSUME NEW y \in fresh, sendNextScanProbe(y) PROVE FALSE
    BY <2>2, <2>5 DEF sendNextScanProbe
  <2>6. ~NextCall /\ ~doAnyPings /\ ~RldTimeOver /\ ~HostTimeout /\ ~Report
    BY <2>2 DEF NextCall, doAnyPings, RldTimeOver, HostTimeout, Report, results
  <2>7. ~(UNCHANGED vars)
    BY <2>2 DEF vars, results
  <2>8. PICK aged \in SUBSET out : processData(aged)
    BY <2>1, <2>3, <2>4, <2>5, <2>6, <2>7 DEF Next
  <2>. QED
    BY <2>2, <2>8 DEF processData
<1>3. tries[x] = allowedTryno /\ ~MayIncrease
  BY <1>2, SweepGivesUp
<1>4. allowedTryno \in Nat /\ allowedTryno <= tryno_cap
  BY <1>1, AllowedFacts
<1>5. CASE ~(max_successful_tryno + 1 <= tryno_cap)
  <2>1. max_successful_tryno \in Nat /\ tryno_cap \in Nat
    BY <1>1, TypeInts
  <2>2. allowedTryno = tryno_cap
    BY ONLY <1>5, <2>1 DEF allowedTryno
  <2>. QED
    BY <1>3, <2>2
<1>7. \/ ~(max_successful_tryno + 1 <= tryno_cap)
      \/ /\ fresh = {}
         /\ \A p \in out : ~(Live(p) /\ p.tryno < allowedTryno)
  BY <1>3 DEF MayIncrease
<1>6. CASE /\ fresh = {}
           /\ \A p \in out : ~(Live(p) /\ p.tryno < allowedTryno)
  <2>1. ASSUME NEW y \in Ports, fate[y] = "none", y \notin Stacked
        PROVE  tries[y] = allowedTryno
    <3>1. y \in InFlight \/ y \in bench
      BY <1>1, <1>6, <2>1 DEF NoPortForgotten
    <3>2. CASE y \in InFlight
      <4>1. PICK p \in out : Live(p) /\ p.port = y
        BY <3>2 DEF InFlight
      <4>2. p.tryno = tries[y] /\ p.tryno <= allowedTryno /\ ~(p.tryno < allowedTryno)
        BY <1>1, <1>6, <4>1 DEF LiveTries
      <4>3. p.tryno \in Nat
        BY <1>1, ProbeTypes
      <4>. QED
        BY ONLY <1>4, <4>2, <4>3
    <3>3. CASE y \in bench
      <4>1. allowedTryno <= bench_tryno /\ bench_tryno <= allowedTryno
        BY <1>1, <1>3, <3>3 DEF BenchInv, TriesAllowed
      <4>2. tries[y] = bench_tryno /\ bench_tryno \in Nat
        BY <1>1, <3>3, TypeInts DEF TriesAllowed
      <4>. QED
        BY ONLY <1>4, <4>1, <4>2
    <3>. QED
      BY <3>1, <3>2, <3>3
  <2>. QED
    BY <1>3, <2>1
<1>. QED
  BY <1>5, <1>6, <1>7

LEMMA EndSaysWhatIsMissed == TypeOk /\ EndInv => MissedOnlyByLosses
<1> SUFFICES ASSUME TypeOk, EndInv, pc = "reported"
             PROVE  /\ reported \subseteq listening
                    /\ \A x \in listening \ reported :
                          \/ late \/ fate[x] = "failed" \/ state[x] = "filtered"
                          \/ fate[x] = "given up" /\ tries[x] >= 1
  BY DEF MissedOnlyByLosses
<1>1. /\ listening \subseteq Ports
      /\ fate \in [Ports -> {"none", "answered", "given up", "failed"}]
  BY DEF TypeOk
<1>. QED
  BY <1>1 DEF EndInv

-----------------------------------------------------------------------------
(* The theorems *)

\* The inductive invariant holds of every run of the scan.
THEOREM Invariance == Spec => []IInv
BY IInvInit, IInvNext, PTL DEF Spec

\* The state of the engine keeps its shape (scan_engine.h 243-560).
THEOREM TypeCorrect == Spec => []TypeOk
<1>1. IInv => TypeOk
  BY DEF IInv
<1>. QED
  BY <1>1, Invariance, PTL

\* The counters are the counts of the probe list, whatever is marked, destroyed,
\* retransmitted and benched (1552-1577, 1672-1693, scan_engine_connect.cc 189-206).
THEOREM CountersAreCounts == Spec => []Accounting
<1>1. IInv => Accounting
  BY DEF IInv
<1>. QED
  BY <1>1, Invariance, PTL

\* A port without an end is in one place and a port with an end in none (1919-1961,
\* 2212-2233, 2370-2405, 2644-2676).
THEOREM EachPortInOnePlace == Spec => []NoPortForgotten
<1>1. IInv => NoPortForgotten
  BY DEF IInv
<1>. QED
  BY <1>1, Invariance, PTL

\* No port is tried beyond the limit of its host or the cap, wherever its probe waits
\* while the limit moves (675-716, 1953, 2671).
THEOREM NoTryBeyondTheLimit == Spec => []TriesAllowed
<1>1. IInv => TriesAllowed
  BY DEF IInv
<1>. QED
  BY <1>1, Invariance, PTL

\* A port is given up at the limit only, and below the cap only when the other ports
\* have reached it or are on the retry stack (675-716, 2650-2666).
THEOREM GivenUpAtTheLimit == Spec => GivesUpLast
<1>1. IInv /\ [Next]_vars => [GivenUpLast]_vars
  BY StepGivesUp
<1>2. Spec => [][GivenUpLast]_vars
  BY <1>1, Invariance, PTL DEF Spec
<1>. QED
  BY <1>2 DEF GivesUpLast, GivenUpLast

\* The report names open ports only and misses one for four reasons only (2650-2666,
\* scan_engine_connect.cc 218-377, nmap.cc 2313-2345).
THEOREM ReportMissesLittle == Spec => []MissedOnlyByLosses
<1>1. IInv => MissedOnlyByLosses
  BY EndSaysWhatIsMissed DEF IInv
<1>. QED
  BY <1>1, Invariance, PTL
=============================================================================
