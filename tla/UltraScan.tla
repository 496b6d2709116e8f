----------------------------- MODULE UltraScan -----------------------------
(***************************************************************************)
(* ultra_scan of nmap/scan_engine.cc for the one scan the scanner orders:  *)
(* one host, connect() probes, -Pn -T3 and a host timeout.  A timed-out    *)
(* probe waits in the list for its retransmission; one that may not be     *)
(* retried yet goes to the bench; the bench goes to the retry stack when   *)
(* an answer to a retransmission shows that more tries help.               *)
(*                                                                         *)
(* Time is left free: a probe may be older than its timeout in any pass,   *)
(* and the congestion window and the scan delay may refuse any probe.  So  *)
(* is the order in the probe list, the bench and the retry stack.          *)
(*                                                                         *)
(* A_x is A with the mistake x in it; no specification uses it.            *)
(***************************************************************************)
EXTENDS Integers, FiniteSets

CONSTANTS
    Ports,
    NoPort,
    Caps,        \* the limits of tries that may be set: 10 unless one is given
    MaxSockets,  \* maxSocketsAllowed
    PingEvery,   \* probes between two pings: 10
    MaxPings     \* bound: pings of a scan

ASSUME PortsAssumption == IsFiniteSet(Ports) /\ NoPort \notin Ports
ASSUME LimitsAssumption ==
    /\ Caps \subseteq Nat \ {0} /\ MaxSockets \in Nat \ {0}
    /\ PingEvery \in Nat \ {0} /\ MaxPings \in Nat

VARIABLES
    listening,  \* the open ports of the host
    tryno_cap,  \* the limit of tries
    pc,         \* the call of ultra_scan's loop it is in
    fresh,      \* the ports next_portidx has not passed
    out,        \* probes_outstanding
    active,     \* num_probes_active, of the host and of the group
    waiting,    \* num_probes_waiting_retransmit
    numSDs,     \* the watched sockets
    bench, bench_tryno,
    retry,      \* retry_stack with retry_stack_tries
    max_successful_tryno,
    rld,        \* rate-limit detection: rld_waiting and its time, max_tryno_sent
    ping,       \* pingprobe, probes sent since the last ping, its sequence number
    state,      \* the port states; "default" is filtered
    late,       \* the host timeout is over
    reported,   \* the open ports that are printed
    tries,      \* history: the number of the last try of each port
    fate        \* history: how each port ended

queues == <<fresh, out, bench, bench_tryno, retry>>
counts == <<active, waiting, numSDs>>
results == <<state, max_successful_tryno, ping, fate>>
vars == <<listening, tryno_cap, pc, queues, counts, results, rld, late, reported, tries>>

Errnos == {"accepted", "refused", "unreachable", "timed out", "other"}
Probes == [port : Ports, tryno : Nat, isPing : BOOLEAN, timedout : BOOLEAN,
           retransmitted : BOOLEAN, sd : {"called", "watched", "unwatched", "closed"}]

TypeOk ==
    /\ listening \subseteq Ports /\ tryno_cap \in Caps
    /\ pc \in {"pings", "retransmits", "retries", "new", "wait", "done", "reported"}
    /\ fresh \subseteq Ports /\ out \subseteq Probes /\ IsFiniteSet(out)
    /\ active \in Int /\ waiting \in Int /\ numSDs \in Int
    /\ bench \subseteq Ports /\ bench_tryno \in Nat
    /\ retry \subseteq [port : Ports, tries : Nat]
    /\ max_successful_tryno \in Nat
    /\ rld \in [at : {"off", "waiting", "over"}, max : Nat]
    /\ ping \in [port : Ports \cup {NoPort}, since : 0..PingEvery, seq : 0..MaxPings]
    /\ state \in [Ports -> {"default", "open", "closed", "filtered"}]
    /\ late \in BOOLEAN /\ reported \subseteq Ports
    /\ tries \in [Ports -> Nat \cup {-1}]
    /\ fate \in [Ports -> {"none", "answered", "given up", "failed"}]

Init ==
    /\ listening \in SUBSET Ports /\ tryno_cap \in Caps
    /\ pc = "pings" /\ fresh = Ports /\ out = {}
    /\ active = 0 /\ waiting = 0 /\ numSDs = 0
    /\ bench = {} /\ bench_tryno = 0 /\ retry = {}
    /\ max_successful_tryno = 0
    /\ rld = [at |-> "off", max |-> 0]
    /\ ping = [port |-> NoPort, since |-> 0, seq |-> 0]
    /\ state = [x \in Ports |-> "default"]
    /\ late = FALSE /\ reported = {}
    /\ tries = [x \in Ports |-> -1] /\ fate = [x \in Ports |-> "none"]

-----------------------------------------------------------------------------
(* what a probe is and what the engine decides from *)

Count(S) == Cardinality(S)
One(b) == IF b THEN 1 ELSE 0

\* It waits for its retransmission.
Waits(p) == p.timedout /\ ~p.retransmitted /\ ~p.isPing
\* It is the current try of its port.
Live(p) == ~p.retransmitted /\ ~p.isPing

\* No second try before one helped; no cap.
allowedTryno_once == max_successful_tryno
allowedTryno_uncapped == max_successful_tryno + 1
allowedTryno ==
    LET maxval == max_successful_tryno + 1 IN IF maxval > tryno_cap THEN tryno_cap ELSE maxval

\* A probe that waits for its retransmission counts for nothing.
MayIncrease_idle ==
    max_successful_tryno + 1 <= tryno_cap /\ (active # 0 \/ fresh # {})
\* The limit may rise while a probe is in flight or still to come.
MayIncrease ==
    /\ max_successful_tryno + 1 <= tryno_cap
    /\ \/ active # 0 \/ fresh # {}
       \/ \E p \in out : Live(p) /\ p.tryno < allowedTryno

completed == active = 0 /\ waiting = 0 /\ bench = {} /\ retry = {} /\ fresh = {}

\* GroupScanStats::sendOK and HostScanStats::sendOK, as far as they are not free.
sendOK ==
    /\ ~late /\ ~completed
    /\ numSDs < MaxSockets
    /\ \/ rld.at = "over"
       \/ rld.at = "off" /\ (fresh # {} \/ waiting # 0 \/ retry # {})

Calling == \E p \in out : p.sd = "called"

-----------------------------------------------------------------------------
(* the effects on the probe list and its counters *)

Probe(x, n, b) == [port |-> x, tryno |-> n, isPing |-> b, timedout |-> FALSE,
                   retransmitted |-> FALSE, sd |-> "called"]

destroyOutstandingProbe(p) ==
    /\ out' = out \ {p}
    /\ active' = active - One(~p.timedout)
    /\ waiting' = waiting - One(Waits(p))
    /\ numSDs' = numSDs - One(p.sd = "watched")

TimedOut(p) == [p EXCEPT !.timedout = TRUE, !.sd = "closed"]

\* A ping is waited for too.
markProbeTimedout_ping(p) ==
    /\ out' = (out \ {p}) \cup {TimedOut(p)}
    /\ active' = active - 1
    /\ waiting' = waiting + 1
    /\ numSDs' = numSDs - One(p.sd = "watched")
\* A ping is not retransmitted.
markProbeTimedout(p) ==
    /\ out' = (out \ {p}) \cup {TimedOut(p)}
    /\ active' = active - 1
    /\ waiting' = waiting + One(~p.isPing)
    /\ numSDs' = numSDs - One(p.sd = "watched")

\* An open port stays open, a closed one is not made filtered.
PspecUpdate(x, new) ==
    state' = [state EXCEPT ![x] =
        IF @ = "open" \/ (@ = "closed" /\ new = "filtered") THEN @ ELSE new]

\* An ICMP error raises no limit and gives no ping probe.
ultrascan_port_probe_update(p, new) ==
    /\ PspecUpdate(p.port, new)
    /\ max_successful_tryno' =
          IF new # "filtered" /\ p.tryno > max_successful_tryno THEN p.tryno
          ELSE max_successful_tryno
    /\ ping' = IF new # "filtered" /\ ping.port = NoPort THEN [ping EXCEPT !.port = p.port]
               ELSE ping
    /\ fate' = [fate EXCEPT ![p.port] = "answered"]
    /\ destroyOutstandingProbe(p)

\* An answer to a ping is no news of its port; who connects to itself retries.
handleConnectResult(p, errno, destroy_probe) ==
    \/ errno = "timed out" /\ markProbeTimedout(p) /\ UNCHANGED results
    \/ /\ errno \in {"accepted", "refused", "unreachable"} /\ p.isPing
       /\ destroyOutstandingProbe(p) /\ UNCHANGED results
    \/ /\ errno = "accepted" /\ ~p.isPing
       /\ IF p.port \in listening THEN ultrascan_port_probe_update(p, "open")
          ELSE markProbeTimedout(p) /\ UNCHANGED results
    \/ /\ errno = "refused" /\ ~p.isPing /\ p.port \notin listening
       /\ ultrascan_port_probe_update(p, "closed")
    \/ /\ errno = "unreachable" /\ ~p.isPing
       /\ ultrascan_port_probe_update(p, "filtered")
    \/ /\ errno = "other" /\ destroy_probe
       /\ destroyOutstandingProbe(p)
       /\ fate' = IF p.isPing THEN fate ELSE [fate EXCEPT ![p.port] = "failed"]
       /\ UNCHANGED <<state, max_successful_tryno, ping>>

host == <<listening, tryno_cap, late, reported>>
plan == <<fresh, bench, bench_tryno, retry, rld, tries>>

\* sendConnectScanProbe, from the return of connect(): in progress, or settled.
ConnectReturns(p) ==
    /\ p.sd = "called"
    /\ \/ /\ out' = (out \ {p}) \cup {[p EXCEPT !.sd = "watched"]}
          /\ numSDs' = numSDs + 1
          /\ UNCHANGED <<active, waiting, results>>
       \/ \E errno \in Errnos : handleConnectResult(p, errno, TRUE)
       \* accepted, but getsockname fails
       \/ /\ ~p.isPing /\ p.port \in listening
          /\ out' = (out \ {p}) \cup {[p EXCEPT !.sd = "unwatched"]}
          /\ UNCHANGED <<counts, results>>
    /\ UNCHANGED <<host, pc, plan>>

-----------------------------------------------------------------------------
(* the calls of the loop *)

\* What is not sent now may be sent in a later round.
NextCall ==
    /\ ~Calling
    /\ \/ pc = "pings" /\ pc' = "retransmits"
       \/ pc = "retransmits" /\ pc' = "retries"
       \/ pc = "retries" /\ pc' = "new"
       \/ pc = "new" /\ pc' = "wait"
    /\ UNCHANGED <<host, queues, counts, results, rld, tries>>

Sent == [ping EXCEPT !.since = IF @ < PingEvery THEN @ + 1 ELSE @]

doAnyPings ==
    /\ pc = "pings" /\ ~Calling
    /\ ping.port # NoPort /\ rld.at = "off"
    /\ ping.since >= PingEvery /\ ping.seq < MaxPings
    /\ sendOK
    /\ out' = out \cup {Probe(ping.port, ping.seq + 1, TRUE)}
    /\ active' = active + 1
    /\ ping' = [ping EXCEPT !.since = 0, !.seq = @ + 1]
    /\ pc' = "retransmits"
    /\ UNCHANGED <<host, plan, waiting, numSDs, state, max_successful_tryno, fate>>

\* The first probe of a higher try waits for a second first, unless alone.
StartRateLimitDetection(p) ==
    /\ pc = "retransmits" /\ ~Calling /\ sendOK
    /\ Waits(p) /\ allowedTryno > p.tryno
    /\ p.tryno + 1 > rld.max /\ Count(Ports) > 1
    /\ rld' = [at |-> "waiting", max |-> p.tryno + 1]
    /\ pc' = "retries"
    /\ UNCHANGED <<host, queues, counts, results, tries>>

\* The old probe goes on waiting.
Retransmitted_not(p) == p
Retransmitted(p) == [p EXCEPT !.retransmitted = TRUE]

Retransmit(p) ==
    /\ pc = "retransmits" /\ ~Calling /\ sendOK
    /\ Waits(p) /\ allowedTryno > p.tryno
    /\ p.tryno + 1 <= rld.max \/ Count(Ports) = 1
    /\ rld' = [rld EXCEPT !.at = "off"]
    /\ out' = (out \ {p}) \cup {Retransmitted(p), Probe(p.port, p.tryno + 1, FALSE)}
    /\ active' = active + 1 /\ waiting' = waiting - 1
    /\ tries' = [tries EXCEPT ![p.port] = p.tryno + 1]
    /\ ping' = Sent
    /\ UNCHANGED <<host, pc, fresh, bench, bench_tryno, retry, numSDs, state,
                   max_successful_tryno, fate>>

RldTimeOver ==
    /\ rld.at = "waiting" /\ rld' = [rld EXCEPT !.at = "over"]
    /\ UNCHANGED <<host, pc, queues, counts, results, tries>>

sendNextRetryStackProbe(r) ==
    /\ pc = "retries" /\ ~Calling /\ sendOK
    /\ retry' = retry \ {r}
    /\ out' = out \cup {Probe(r.port, r.tries + 1, FALSE)}
    /\ active' = active + 1
    /\ tries' = [tries EXCEPT ![r.port] = r.tries + 1]
    /\ ping' = Sent
    /\ UNCHANGED <<host, pc, fresh, bench, bench_tryno, rld, waiting, numSDs, state,
                   max_successful_tryno, fate>>

sendNextScanProbe(x) ==
    /\ pc = "new" /\ ~Calling /\ sendOK
    /\ fresh' = fresh \ {x}
    /\ out' = out \cup {Probe(x, 0, FALSE)}
    /\ active' = active + 1
    /\ tries' = [tries EXCEPT ![x] = 0]
    /\ ping' = Sent
    /\ UNCHANGED <<host, pc, bench, bench_tryno, retry, rld, waiting, numSDs, state,
                   max_successful_tryno, fate>>

\* A socket is ready; waitForResponses goes on while it finds one.
do_one_select_round(p) ==
    /\ pc = "wait" /\ p.sd = "watched"
    /\ \E errno \in Errnos : handleConnectResult(p, errno, FALSE)
    /\ UNCHANGED <<host, pc, plan>>

\* The bench of a pass: dismissed, sent to the retry stack, or kept.
Dismissed_never == allowedTryno < bench_tryno /\ ~MayIncrease
Dismissed == allowedTryno = bench_tryno /\ ~MayIncrease
Benched == IF Dismissed \/ allowedTryno > bench_tryno THEN {} ELSE bench

\* One pass over the list, with the limit and the counters at its start; aged are
\* the probes older than the timeout.  A probe it marks it leaves for the next.
Sweep(aged) ==
    LET marked == {p \in aged : ~p.timedout}
        given == {p \in out : Waits(p) /\ ~MayIncrease /\ p.tryno >= allowedTryno}
        moved == {p \in aged : Waits(p) /\ MayIncrease /\ p.tryno >= allowedTryno}
        gone == {p \in aged : p.timedout /\ (p.isPing \/ p.retransmitted)}
        end == {p.port : p \in given} \cup (IF Dismissed THEN bench ELSE {})
    IN  /\ out' = (out \ (marked \cup given \cup moved \cup gone))
                     \cup {TimedOut(p) : p \in marked}
        /\ active' = active - Count(marked)
        /\ waiting' = waiting + Count({p \in marked : ~p.isPing})
                         - Count(given) - Count(moved)
        /\ numSDs' = numSDs - Count({p \in marked : p.sd = "watched"})
        /\ bench' = Benched \cup {p.port : p \in moved}
        /\ bench_tryno' = IF Benched # {} THEN bench_tryno
                          ELSE IF moved # {} THEN (CHOOSE p \in moved : TRUE).tryno ELSE 0
        /\ retry' = IF ~Dismissed /\ allowedTryno > bench_tryno
                    THEN retry \cup [port : bench, tries : {bench_tryno}] ELSE retry
        /\ fate' = [x \in Ports |-> IF x \in end THEN "given up" ELSE fate[x]]

\* removeCompletedHosts before and after.
processData(aged) ==
    /\ pc = "wait"
    /\ IF completed \/ late THEN pc' = "done" /\ UNCHANGED <<queues, counts, fate>>
       ELSE /\ UNCHANGED fresh /\ Sweep(aged)
            /\ pc' = IF completed' THEN "done" ELSE "pings"
    /\ UNCHANGED <<host, state, max_successful_tryno, ping, rld, tries>>

\* The clock of the host started with its first probe.
HostTimeout ==
    /\ fresh # Ports /\ pc # "reported" /\ ~late /\ late' = TRUE
    /\ UNCHANGED <<listening, tryno_cap, pc, queues, counts, results, rld, reported, tries>>

\* nmap_main prints the ports, or that it skips the host.
Report ==
    /\ pc = "done" /\ pc' = "reported"
    /\ reported' = IF late THEN {} ELSE {x \in Ports : state[x] = "open"}
    /\ UNCHANGED <<listening, tryno_cap, queues, counts, results, rld, late, tries>>

Next ==
    \/ \E p \in out : \/ ConnectReturns(p) \/ do_one_select_round(p)
                      \/ StartRateLimitDetection(p) \/ Retransmit(p)
    \/ \E r \in retry : sendNextRetryStackProbe(r)
    \/ \E x \in fresh : sendNextScanProbe(x)
    \/ NextCall \/ doAnyPings \/ RldTimeOver \/ HostTimeout \/ Report
    \/ \E aged \in SUBSET out : processData(aged)

Spec == Init /\ [][Next]_vars

\* The process runs, connect() returns, a second passes; every probe ages within
\* the longest timeout, and the sends are bounded; and an idle host is sent to: its
\* window never closes (low_cwnd) and its scan delay is at most a second.
FairSpec ==
    /\ Spec
    /\ WF_vars(\E p \in out : ConnectReturns(p)) /\ WF_vars(NextCall)
    /\ WF_vars(RldTimeOver) /\ WF_vars(Report)
    /\ SF_vars(processData(out))
    /\ SF_vars(active = 0 /\ \E p \in out : StartRateLimitDetection(p) \/ Retransmit(p))
    /\ SF_vars(active = 0 /\ \E r \in retry : sendNextRetryStackProbe(r))
    /\ SF_vars(active = 0 /\ \E x \in fresh : sendNextScanProbe(x))

-----------------------------------------------------------------------------
(* properties *)

InFlight == {p.port : p \in {q \in out : Live(q)}}
Stacked == {r.port : r \in retry}

\* The counters that end the scan, open the window and ration the sockets are the
\* counts of the list they stand for, whatever is marked, benched, retransmitted
\* and destroyed in whatever order, so that the assertions on them hold (1552-1577,
\* 1672-1693, 2401, scan_engine_connect.cc 189-206); and a probe holds its socket
\* until it times out (1686-1692).
Accounting ==
    /\ active = Count({p \in out : ~p.timedout})
    /\ waiting = Count({p \in out : Waits(p)})
    /\ numSDs = Count({p \in out : p.sd = "watched"}) /\ numSDs <= MaxSockets
    /\ \A p \in out : (p.retransmitted => p.timedout) /\ (p.timedout <=> p.sd = "closed")

\* A port without an end is in exactly one place, once: not yet sent, in the list
\* with one live try, on the bench, or on the retry stack; and a port with an end
\* is in none, so that it is neither tried again nor ended twice (1919-1961,
\* 2212-2233, 2370-2405, 2644-2676).
NoPortForgotten ==
    /\ {x \in Ports : fate[x] = "none"} = fresh \cup InFlight \cup bench \cup Stacked
    /\ fresh \cap InFlight = {} /\ fresh \cap bench = {} /\ fresh \cap Stacked = {}
    /\ InFlight \cap bench = {} /\ InFlight \cap Stacked = {} /\ bench \cap Stacked = {}
    /\ \A p, q \in out : Live(p) /\ Live(q) /\ p.port = q.port => p = q
    /\ \A r, t \in retry : r.port = t.port => r = t

\* No port is tried beyond the limit, although it moves while probes wait, on
\* the bench and on the stack too: all the benched ones had the same number of
\* tries and those of the stack may be tried again (the assertions of 1953, 2671).
TriesAllowed ==
    /\ \A p \in out : Live(p) => p.tryno = tries[p.port] /\ p.tryno <= allowedTryno
    /\ \A x \in bench : tries[x] = bench_tryno /\ bench_tryno <= allowedTryno
    /\ \A r \in retry : r.tries = tries[r.port] /\ r.tries < allowedTryno
    /\ \A x \in Ports : tries[x] <= tryno_cap

\* A port is given up at the limit of its host only, and, below the cap, only when
\* every other port without an end has reached the limit or is on the retry stack
\* (675-716, 2650-2666).  Those of the stack may raise it still: see the README.
GivesUpLast ==
    [][\A x \in Ports : fate'[x] = "given up" /\ fate[x] # "given up" =>
          /\ tries[x] = allowedTryno
          /\ \/ allowedTryno = tryno_cap
             \/ \A y \in Ports : fate[y] # "none" \/ tries[y] = allowedTryno
                                  \/ y \in Stacked]_vars

\* nmap prints no port that is not open, and misses an open one only when the host
\* timed out, an ICMP error answered, connect() failed in a way it does not know,
\* or two tries of it or more were lost (2650-2666, scan_engine_connect.cc 218-377).
MissedOnlyByLosses ==
    pc = "reported" =>
        /\ reported \subseteq listening
        /\ \A x \in listening \ reported :
              \/ late \/ fate[x] = "failed" \/ state[x] = "filtered"
              \/ fate[x] = "given up" /\ tries[x] >= 1

\* The scan of a host that answers nothing, or now and then, comes to its end even
\* without the host timeout (1695-1713, 2575-2720).
ScanEnds == <>(pc = "reported")
=============================================================================
