---------------------------- MODULE AnalyzeProofs ----------------------------
(***************************************************************************)
(* Proofs about the two parts of analyze: HostProbes, for any two sets of  *)
(* ports (which open ports a report may miss, and what a tool is said to   *)
(* have found), and ReportScoring, for any limit of secrets and any length *)
(* of the lists (what the score counts, and that no report is lost).  The  *)
(* invariants are IInv of HostProbes and RInv of ReportScoring.            *)
(***************************************************************************)
EXTENDS HostProbes, ReportScoring, SequenceTheorems, FiniteSetTheorems,
        WellFoundedInduction, TLAPS

-----------------------------------------------------------------------------
(* the probes of a host: HostProbes *)

Whos == {"probe", "fallback"}
Answers == {"second", "none", "open"}

\* The state before anything is tried.
LEMMA InvInit == Init => IInv
<1>. SUFFICES ASSUME Init PROVE IInv
  OBVIOUS
<1>1. Tried \subseteq Ports
  BY DEF Tried, Ports
<1>2. TypeOk
  BY <1>1 DEF Init, TypeOk, NmapStates, Tool, NotRun, Attempts
<1>3. ProbesCount
  BY DEF Init, ProbesCount
<1>4. FallbackCounts
  BY <1>1 DEF Init, FallbackCounts, Retried
<1>. QED
  BY <1>2, <1>3, <1>4 DEF Init, IInv, NmapRight, GatheredRight, ToolsRight

\* The count of lost attempts grows for the caller and the port alone.
LEMMA Losing ==
  ASSUME TypeOk, NEW w \in Whos, NEW p \in Ports, NEW a \in Attempts, NEW x \in Answers,
         CheckPort(w, p, a, x)
  PROVE  /\ lost' \in [Whos \X Ports -> Nat]
         /\ \A v \in Whos, q \in Ports :
               v # w \/ q # p => lost'[<<v, q>>] = lost[<<v, q>>]
         /\ x = "open" => p \in listening /\ lost' = lost
         /\ x # "open" => x = IF a = "first" THEN "second" ELSE "none"
         /\ x # "open" /\ p \in listening => lost'[<<w, p>>] = lost[<<w, p>>] + 1
<1>1. lost \in [Whos \X Ports -> Nat] /\ <<w, p>> \in Whos \X Ports
  BY DEF TypeOk, Whos
<1>2. lost[<<w, p>>] \in Nat
  BY <1>1
<1>3. CASE lost' = lost /\ x = "open" /\ p \in listening
  BY <1>1, <1>3
<1>4. CASE /\ x = IF a = "first" THEN "second" ELSE "none"
           /\ lost' = IF p \in listening THEN [lost EXCEPT ![<<w, p>>] = @ + 1] ELSE lost
  <2>1. x # "open"
    BY <1>4
  <2>2. CASE p \notin listening
    BY <1>1, <1>4, <2>1, <2>2
  <2>3. CASE p \in listening
    <3>1. lost' = [lost EXCEPT ![<<w, p>>] = @ + 1]
      BY <1>4, <2>3
    <3>2. lost' \in [Whos \X Ports -> Nat]
      BY <1>1, <1>2, <3>1
    <3>3. lost'[<<w, p>>] = lost[<<w, p>>] + 1
      BY <1>1, <3>1
    <3>4. \A v \in Whos, q \in Ports :
             v # w \/ q # p => lost'[<<v, q>>] = lost[<<v, q>>]
      BY <1>1, <3>1
    <3>. QED
      BY <1>4, <2>1, <3>2, <3>3, <3>4
  <2>. QED
    BY <2>2, <2>3
<1>. QED
  BY <1>3, <1>4 DEF CheckPort

\* A probe is tried.
LEMMA ProbeStep == ASSUME IInv, NEW p \in Ports, Probe(p) PROVE IInv'
<1>0. TypeOk /\ ProbesCount /\ FallbackCounts /\ GatheredRight
  BY DEF IInv
<1>1. PICK x \in Answers :
         CheckPort("probe", p, probe[p], x) /\ probe' = [probe EXCEPT ![p] = x]
  BY DEF Probe, Answers
<1>2. /\ probe[p] \in Attempts /\ pc = "probing" /\ pc' = pc
      /\ UNCHANGED <<profile, listening, nmap, open_ports, scan_ports, tools>>
  BY DEF Probe
<1>3. /\ lost' \in [Whos \X Ports -> Nat]
      /\ \A v \in Whos, q \in Ports :
            v # "probe" \/ q # p => lost'[<<v, q>>] = lost[<<v, q>>]
      /\ x = "open" => p \in listening /\ lost' = lost
      /\ x # "open" => x = IF probe[p] = "first" THEN "second" ELSE "none"
      /\ x # "open" /\ p \in listening =>
            lost'[<<"probe", p>>] = lost[<<"probe", p>>] + 1
  BY <1>0, <1>1, <1>2, Losing DEF Whos
<1>4. /\ probe' \in [Ports -> Attempts \cup {"none", "open"}] /\ probe'[p] = x
      /\ \A q \in Ports \ {p} : probe'[q] = probe[q]
  BY <1>0, <1>1 DEF TypeOk, NmapStates, Answers, Attempts
<1>5. TypeOk'
  BY <1>0, <1>2, <1>3, <1>4 DEF TypeOk, tools, Whos
<1>6. ProbesCount'
  <2>1. ASSUME NEW q \in Ports
        PROVE  /\ probe'[q] = "open" => q \in listening
               /\ q \in listening =>
                     /\ probe'[q] = "first" => lost'[<<"probe", q>>] = 0
                     /\ probe'[q] = "second" => lost'[<<"probe", q>>] = 1
                     /\ probe'[q] = "none" => lost'[<<"probe", q>>] = 2
    <3>1. CASE q = p
      BY <1>0, <1>2, <1>3, <1>4, <3>1 DEF ProbesCount, Answers, Attempts
    <3>2. CASE q # p
      BY <1>0, <1>3, <1>4, <3>2 DEF ProbesCount, Whos
    <3>. QED
      BY <3>1, <3>2
  <2>. QED
    BY <1>2, <2>1 DEF ProbesCount
<1>7. FallbackCounts'
  <2>1. \A q \in Ports : lost'[<<"fallback", q>>] = lost[<<"fallback", q>>]
    BY <1>3 DEF Whos
  <2>2. listening \subseteq Ports
    BY <1>0 DEF TypeOk, NmapStates
  <2>. QED
    BY <1>0, <1>2, <2>1, <2>2 DEF FallbackCounts, Tried, Retried
<1>. QED
  BY <1>2, <1>5, <1>6, <1>7 DEF IInv, NmapRight, GatheredRight, ToolsRight, tools, Honest

\* nmap cannot be run, or shows nothing.
LEMMA NmapFailsStep == ASSUME IInv, pc = "probing", NmapFails PROVE IInv'
<1>0. TypeOk /\ ProbesCount /\ FallbackCounts /\ NmapRight
  BY DEF IInv
<1>1. PICK e \in {"unavailable", "raised", "no host"} :
         nmap' = [nmap EXCEPT !.at = "fallback", !.error = e, !.enabled = (e = "no host")]
  BY DEF NmapFails
<1>2. nmap.at = "job" /\ UNCHANGED <<others, lost>>
  BY DEF NmapFails
<1>3. /\ nmap'.at = "fallback" /\ nmap'.todo = nmap.todo /\ nmap'.attempt = nmap.attempt
      /\ nmap'.ports = nmap.ports /\ nmap'.source = nmap.source
  BY <1>0, <1>1 DEF TypeOk, NmapStates
<1>4. TypeOk'
  <2>1. nmap' \in NmapStates
    BY <1>0, <1>1 DEF TypeOk, NmapStates
  <2>. QED
    BY <1>0, <1>2, <2>1 DEF TypeOk, others, tools
<1>5. FallbackCounts'
  BY <1>0, <1>2, <1>3 DEF FallbackCounts, NmapRight, Tried, Retried, others
<1>. QED
  BY <1>0, <1>2, <1>3, <1>4, <1>5
     DEF IInv, ProbesCount, NmapRight, GatheredRight, ToolsRight, others, tools, Honest

\* nmap shows some ports, or none.
LEMMA NmapReportsStep == ASSUME IInv, pc = "probing", NmapReports PROVE IInv'
<1>0. TypeOk /\ ProbesCount /\ FallbackCounts /\ NmapRight
  BY DEF IInv
<1>1. PICK seen \in SUBSET (listening \cap Tried) :
      \E summary \in IF seen = {} THEN {"none", "filtered", "closed"} ELSE {"none"} :
         nmap' = [nmap EXCEPT !.at = IF seen = {} THEN "fallback" ELSE "done",
                              !.ports = seen, !.enabled = TRUE, !.summary = summary]
  BY DEF NmapReports
<1>2. nmap.at = "job" /\ UNCHANGED <<others, lost>>
  BY DEF NmapReports
<1>3. /\ nmap'.at = IF seen = {} THEN "fallback" ELSE "done"
      /\ nmap'.ports = seen /\ nmap'.enabled
      /\ nmap'.todo = nmap.todo /\ nmap'.attempt = nmap.attempt
      /\ nmap'.source = nmap.source /\ nmap'.error = nmap.error
  BY <1>0, <1>1 DEF TypeOk, NmapStates
<1>4. TypeOk'
  <2>1. seen \in SUBSET Ports
    BY <1>0, <1>1 DEF TypeOk, NmapStates
  <2>2. PICK summary \in {"none", "filtered", "closed"} :
           nmap' = [nmap EXCEPT !.at = IF seen = {} THEN "fallback" ELSE "done",
                                !.ports = seen, !.enabled = TRUE, !.summary = summary]
    BY <1>1
  <2>3. nmap' \in NmapStates
    BY <1>0, <2>1, <2>2 DEF TypeOk, NmapStates
  <2>. QED
    BY <1>0, <1>2, <2>3 DEF TypeOk, others, tools
<1>5. FallbackCounts'
  BY <1>0, <1>1, <1>2, <1>3 DEF FallbackCounts, NmapRight, Tried, Retried, others
<1>6. NmapRight'
  BY <1>0, <1>2, <1>3 DEF NmapRight
<1>. QED
  BY <1>0, <1>2, <1>4, <1>5, <1>6
     DEF IInv, ProbesCount, GatheredRight, ToolsRight, others, tools, Honest

\* The fallback tries a port.
LEMMA FallbackStep == ASSUME IInv, pc = "probing", NEW p \in Ports, Fallback(p) PROVE IInv'
<1>0. TypeOk /\ ProbesCount /\ FallbackCounts /\ NmapRight /\ GatheredRight
  BY DEF IInv
<1>1. PICK x \in Answers :
         /\ CheckPort("fallback", p, nmap.attempt, x)
         /\ nmap' = IF x = "second" THEN [nmap EXCEPT !.attempt = "second"]
                    ELSE [nmap EXCEPT !.attempt = "first", !.todo = @ \ {p},
                             !.ports = IF x = "open" THEN @ \cup {p} ELSE @]
  BY DEF Fallback, Answers
<1>2. /\ nmap.at = "fallback" /\ p \in nmap.todo /\ (\A q \in nmap.todo : p <= q)
      /\ UNCHANGED others
  BY DEF Fallback
<1>3. nmap.attempt \in Attempts
  BY <1>0 DEF TypeOk, NmapStates
<1>4. /\ lost' \in [Whos \X Ports -> Nat]
      /\ \A v \in Whos, q \in Ports :
            v # "fallback" \/ q # p => lost'[<<v, q>>] = lost[<<v, q>>]
      /\ x = "open" => p \in listening /\ lost' = lost
      /\ x # "open" => x = IF nmap.attempt = "first" THEN "second" ELSE "none"
      /\ x # "open" /\ p \in listening =>
            lost'[<<"fallback", p>>] = lost[<<"fallback", p>>] + 1
  BY <1>0, <1>1, <1>3, Losing DEF Whos
<1>5. /\ nmap'.at = nmap.at /\ nmap'.source = nmap.source
      /\ nmap'.attempt = IF x = "second" THEN "second" ELSE "first"
      /\ nmap'.todo = IF x = "second" THEN nmap.todo ELSE nmap.todo \ {p}
      /\ nmap'.ports = IF x = "open" THEN nmap.ports \cup {p} ELSE nmap.ports
  BY <1>0, <1>1 DEF TypeOk, NmapStates
<1>6. TypeOk'
  <2>1. nmap' \in NmapStates
    BY <1>0, <1>1, <1>4 DEF TypeOk, NmapStates, Attempts
  <2>. QED
    BY <1>0, <1>2, <1>4, <2>1 DEF TypeOk, others, tools, Whos
<1>7. ProbesCount'
  <2>1. \A q \in Ports : lost'[<<"probe", q>>] = lost[<<"probe", q>>]
    BY <1>4 DEF Whos
  <2>. QED
    BY <1>0, <1>2, <2>1 DEF ProbesCount, others
<1>8. FallbackCounts'
  <2>1. /\ listening \subseteq Ports /\ nmap.todo \subseteq Ports /\ Ports \subseteq Nat
        /\ listening' = listening /\ Tried' = Tried
    BY <1>0, <1>2, PortsAssumption DEF TypeOk, NmapStates, others, Ports, Tried
  <2>2. \A q \in Ports \ {p} : lost'[<<"fallback", q>>] = lost[<<"fallback", q>>]
    BY <1>4 DEF Whos
  <2>a. ASSUME NEW q \in nmap.todo
        PROVE  (\A k \in nmap.todo : q <= k) <=> q = p
    <3>1. q \in Nat /\ p \in Nat /\ p <= q
      BY <1>2, <2>1
    <3>2. CASE q = p
      BY <1>2, <3>2
    <3>3. CASE q # p
      BY <1>2, <3>1, <3>3
    <3>. QED
      BY <3>2, <3>3
  <2>3. \A q \in nmap.todo : Retried(q) <=> q = p /\ nmap.attempt = "second"
    BY <2>a DEF Retried
  <2>4. p \in listening => lost[<<"fallback", p>>] = IF nmap.attempt = "second" THEN 1 ELSE 0
    BY <1>0, <1>2, <2>3 DEF FallbackCounts
  <2>5. CASE x = "second"
    <3>1. \A q \in nmap.todo : Retried(q)' <=> q = p
      BY <1>5, <2>a, <2>5 DEF Retried
    <3>2. p \in listening => lost'[<<"fallback", p>>] = 1
      BY <1>3, <1>4, <2>4, <2>5 DEF Attempts
    <3>3. \A q \in listening \cap nmap.todo :
             lost'[<<"fallback", q>>] = IF Retried(q)' THEN 1 ELSE 0
      BY <1>0, <2>1, <2>2, <2>3, <3>1, <3>2 DEF FallbackCounts
    <3>. QED
      BY <1>0, <1>2, <1>5, <2>1, <2>2, <2>5, <3>3 DEF FallbackCounts
  <2>6. CASE x # "second"
    <3>1. \A q \in nmap'.todo : ~Retried(q)' /\ ~Retried(q) /\ q # p /\ q \in nmap.todo
      BY <1>5, <2>3, <2>6 DEF Retried
    <3>2. \A q \in listening \cap nmap'.todo :
             lost'[<<"fallback", q>>] = IF Retried(q)' THEN 1 ELSE 0
      BY <1>0, <2>1, <2>2, <3>1 DEF FallbackCounts
    <3>3. p \in listening => p \in nmap'.ports \/ lost'[<<"fallback", p>>] = 2
      BY <1>3, <1>4, <1>5, <2>4, <2>6 DEF Answers, Attempts
    <3>4. \A q \in (listening \cap Tried) \ nmap'.todo :
             q \in nmap'.ports \/ lost'[<<"fallback", q>>] = 2
      <4>1. ASSUME NEW q \in (listening \cap Tried) \ nmap.todo
            PROVE  q \in nmap.ports \/ lost[<<"fallback", q>>] = 2
        BY <1>0, <1>2 DEF FallbackCounts
      <4>2. ASSUME NEW q \in (listening \cap Tried) \ nmap'.todo
            PROVE  q \in nmap'.ports \/ lost'[<<"fallback", q>>] = 2
        <5>1. CASE q = p
          BY <3>3, <4>2, <5>1
        <5>2. CASE q # p
          <6>1. q \in (listening \cap Tried) \ nmap.todo /\ q \in Ports \ {p}
            BY <1>5, <2>1, <2>6, <4>2, <5>2
          <6>. QED
            BY <1>5, <2>2, <4>1, <6>1
        <5>. QED
          BY <5>1, <5>2
      <4>. QED
        BY <4>2
    <3>5. nmap'.ports \subseteq listening /\ nmap'.todo \subseteq Tried
      BY <1>0, <1>4, <1>5 DEF FallbackCounts
    <3>. QED
      BY <1>2, <1>5, <2>1, <3>2, <3>4, <3>5 DEF FallbackCounts
  <2>. QED
    BY <2>5, <2>6
<1>. QED
  BY <1>0, <1>2, <1>5, <1>6, <1>7, <1>8
     DEF IInv, NmapRight, GatheredRight, ToolsRight, others, tools, Honest

\* The fallback has tried them all.
LEMMA FallbackDoneStep == ASSUME IInv, pc = "probing", FallbackDone PROVE IInv'
<1>0. TypeOk /\ ProbesCount /\ FallbackCounts /\ NmapRight
  BY DEF IInv
<1>1. nmap.at = "fallback" /\ nmap.todo = {} /\ UNCHANGED <<others, lost>>
  BY DEF FallbackDone
<1>2. /\ nmap'.at = "done" /\ nmap'.source = "socket-fallback"
      /\ nmap'.todo = nmap.todo /\ nmap'.ports = nmap.ports /\ nmap'.attempt = nmap.attempt
      /\ nmap'.enabled = (nmap.enabled \/ nmap.ports # {})
      /\ nmap'.error = IF nmap.ports # {} THEN ""
                       ELSE IF nmap.error # "" THEN nmap.error
                       ELSE IF nmap.summary = "none" THEN "no ports"
                       ELSE nmap.summary
  BY <1>0 DEF TypeOk, NmapStates, FallbackDone
<1>3. TypeOk'
  <2>1. /\ nmap.summary \in {"none", "filtered", "closed"} /\ nmap.ports \in SUBSET Ports
        /\ nmap.enabled \in BOOLEAN
        /\ nmap.error \in {"", "unavailable", "raised", "no host", "no ports",
                           "filtered", "closed"}
    BY <1>0 DEF TypeOk, NmapStates
  <2>. DEFINE on == nmap.enabled \/ nmap.ports # {}
              err == IF nmap.ports # {} THEN ""
                     ELSE IF nmap.error # "" THEN nmap.error
                     ELSE IF nmap.summary = "none" THEN "no ports" ELSE nmap.summary
  <2>2. on \in BOOLEAN
    BY <2>1
  <2>3. err \in {"", "unavailable", "raised", "no host", "no ports", "filtered", "closed"}
    BY <2>1
  <2>4. nmap' = [nmap EXCEPT !.at = "done", !.source = "socket-fallback",
                             !.enabled = on, !.error = err]
    BY <1>0 DEF FallbackDone, TypeOk
  <2>. HIDE DEF on, err
  <2>. QED
    <3>1. nmap' \in NmapStates
      BY <1>0, <2>2, <2>3, <2>4 DEF TypeOk, NmapStates
    <3>. QED
      BY <1>0, <1>1, <3>1 DEF TypeOk, others, tools
<1>4. FallbackCounts'
  BY <1>0, <1>1, <1>2 DEF FallbackCounts, Tried, Retried, others
<1>5. NmapRight'
  <2>1. nmap'.error = "" <=> nmap'.ports # {}
    BY <1>0, <1>2 DEF TypeOk, NmapStates
  <2>. QED
    BY <1>1, <1>2, <2>1 DEF NmapRight
<1>. QED
  BY <1>0, <1>1, <1>3, <1>4, <1>5
     DEF IInv, ProbesCount, GatheredRight, ToolsRight, others, tools, Honest

\* What no step of the tools touches.
Searched == ProbesCount /\ FallbackCounts /\ NmapRight

LEMMA SearchedFrame ==
  ASSUME Searched, UNCHANGED <<profile, listening, probe, nmap, lost>>
  PROVE  Searched'
BY DEF Searched, ProbesCount, FallbackCounts, NmapRight, Tried, Retried

LEMMA GatheredFrame ==
  ASSUME GatheredRight, pc \notin {"probing", "stopped"}, pc' # "done",
         UNCHANGED <<listening, probe, nmap, open_ports, scan_ports>>
  PROVE  GatheredRight'
BY DEF GatheredRight, SocketItems, NmapItems

\* The gather of the socket probes and nmap ends.
LEMMA GatheredStep == ASSUME IInv, Gathered PROVE IInv'
<1>0. TypeOk /\ Searched
  BY DEF IInv, Searched
<1>1. /\ pc = "probing" /\ nmap.at = "done" /\ \A p \in Ports : probe[p] \in {"open", "none"}
      /\ pc' = "wpscan" /\ open_ports' = SocketItems \cup NmapItems
      /\ UNCHANGED <<profile, listening, probe, nmap, scan_ports, tools, lost>>
  BY DEF Gathered, SocketItems, NmapItems
<1>2. open_ports' \subseteq Items
  <2>1. nmap.ports \subseteq Ports /\ nmap.source \in {"nmap", "socket-fallback"}
    BY <1>0 DEF TypeOk, NmapStates
  <2>. QED
    BY <1>1, <2>1 DEF SocketItems, NmapItems, Items
<1>3. TypeOk'
  BY <1>0, <1>1, <1>2 DEF TypeOk, tools
<1>4. Searched'
  BY <1>0, <1>1, SearchedFrame
<1>5. GatheredRight'
  BY <1>1 DEF GatheredRight, SocketItems, NmapItems
<1>. QED
  BY <1>1, <1>3, <1>4, <1>5 DEF IInv, Searched, ToolsRight, tools

\* wpscan is skipped, or run to whatever outcome.
LEMMA WPScanStep == ASSUME IInv, RunWPScan PROVE IInv'
<1>0. TypeOk /\ Searched /\ GatheredRight /\ ToolsRight
  BY DEF IInv, Searched
<1>1. /\ pc = "wpscan" /\ pc' = "dirsearch"
      /\ UNCHANGED <<profile, listening, probe, nmap, open_ports, scan_ports, dirsearch,
                     file, lost>>
  BY DEF RunWPScan
<1>2. wpscan' \in Tool /\ Honest(wpscan')
  BY DEF RunWPScan, WPScanOutcomes, NotRun, Tool, Honest
<1>3. TypeOk'
  BY <1>0, <1>1, <1>2 DEF TypeOk
<1>4. Searched' /\ GatheredRight'
  BY <1>0, <1>1, SearchedFrame, GatheredFrame
<1>. QED
  BY <1>0, <1>1, <1>2, <1>3, <1>4 DEF IInv, Searched, ToolsRight, Honest

\* dirsearch is skipped, not there, or started.
LEMMA StartStep == ASSUME IInv, StartDirsearch PROVE IInv'
<1>0. TypeOk /\ Searched /\ GatheredRight /\ ToolsRight
  BY DEF IInv, Searched
<1>1. /\ pc = "dirsearch" /\ pc' \in {"report", "running"}
      /\ UNCHANGED <<profile, listening, probe, nmap, open_ports, scan_ports, wpscan, lost>>
  BY DEF StartDirsearch
<1>2. CASE pc' = "report" /\ UNCHANGED file
           /\ dirsearch' \in {[NotRun EXCEPT !.skipped = TRUE], [NotRun EXCEPT !.error = "missing"]}
  <2>1. dirsearch' \in Tool /\ Honest(dirsearch') /\ ~dirsearch'.executed
    BY <1>2 DEF NotRun, Tool, Honest
  <2>2. TypeOk'
    BY <1>0, <1>1, <1>2, <2>1 DEF TypeOk
  <2>3. Searched' /\ GatheredRight'
    BY <1>0, <1>1, <1>2, SearchedFrame, GatheredFrame
  <2>. QED
    BY <1>0, <1>1, <1>2, <2>1, <2>2, <2>3 DEF IInv, Searched, ToolsRight, Honest
<1>3. CASE pc' = "running" /\ file' = "empty" /\ UNCHANGED dirsearch
  <2>1. TypeOk'
    BY <1>0, <1>1, <1>3 DEF TypeOk
  <2>2. Searched' /\ GatheredRight'
    BY <1>0, <1>1, <1>3, SearchedFrame, GatheredFrame
  <2>. QED
    BY <1>0, <1>1, <1>3, <2>1, <2>2 DEF IInv, Searched, ToolsRight, Honest
<1>. QED
  BY <1>2, <1>3 DEF StartDirsearch

\* It writes its results.
LEMMA WritesStep == ASSUME IInv, DirsearchWrites PROVE IInv'
<1>0. TypeOk /\ Searched /\ GatheredRight /\ ToolsRight
  BY DEF IInv, Searched
<1>1. /\ pc = "running" /\ pc' = pc /\ file' \in {"partial", "complete"}
      /\ UNCHANGED <<profile, listening, probe, nmap, open_ports, scan_ports, wpscan,
                     dirsearch, lost>>
  BY DEF DirsearchWrites
<1>2. TypeOk'
  BY <1>0, <1>1 DEF TypeOk
<1>3. Searched' /\ GatheredRight'
  BY <1>0, <1>1, SearchedFrame, GatheredFrame
<1>. QED
  BY <1>0, <1>1, <1>2, <1>3 DEF IInv, Searched, ToolsRight, Honest

\* It exits or is killed, and what it wrote is read and removed.
LEMMA EndsStep == ASSUME IInv, DirsearchEnds PROVE IInv'
<1>0. TypeOk /\ Searched /\ GatheredRight /\ ToolsRight
  BY DEF IInv, Searched
<1>1. /\ pc = "running" /\ pc' = "report" /\ file' = "none"
      /\ UNCHANGED <<profile, listening, probe, nmap, open_ports, scan_ports, wpscan, lost>>
  BY DEF DirsearchEnds
<1>2. /\ dirsearch' \in Tool /\ Honest(dirsearch')
      /\ dirsearch'.executed => dirsearch'.error = ""
  BY DEF DirsearchEnds, NotRun, Tool, Honest
<1>3. TypeOk'
  BY <1>0, <1>1, <1>2 DEF TypeOk
<1>4. Searched' /\ GatheredRight'
  BY <1>0, <1>1, SearchedFrame, GatheredFrame
<1>. QED
  BY <1>0, <1>1, <1>2, <1>3, <1>4 DEF IInv, Searched, ToolsRight, Honest

\* The rows of the ports are chosen.
LEMMA ConcludeStep == ASSUME IInv, Conclude PROVE IInv'
<1>0. TypeOk /\ Searched /\ GatheredRight /\ ToolsRight
  BY DEF IInv, Searched
<1>1. /\ pc = "report" /\ pc' = "done"
      /\ scan_ports' = {i \in open_ports : \A k \in open_ports :
                           k.port = i.port /\ k.source = "socket" => k = i}
      /\ UNCHANGED <<profile, listening, probe, nmap, open_ports, tools, lost>>
  BY DEF Conclude
<1>2. TypeOk'
  BY <1>0, <1>1 DEF TypeOk, tools
<1>3. Searched'
  BY <1>0, <1>1, SearchedFrame
<1>4. GatheredRight'
  BY <1>0, <1>1 DEF GatheredRight, SocketItems, NmapItems
<1>. QED
  BY <1>0, <1>1, <1>2, <1>3, <1>4 DEF IInv, Searched, ToolsRight, Honest, tools

\* The process is stopped.
LEMMA StopStep == ASSUME IInv, Stop PROVE IInv'
<1>0. TypeOk /\ Searched
  BY DEF IInv, Searched
<1>1. /\ pc' = "stopped"
      /\ UNCHANGED <<profile, listening, probe, nmap, open_ports, scan_ports, tools, lost>>
  BY DEF Stop
<1>2. TypeOk'
  BY <1>0, <1>1 DEF TypeOk, tools
<1>3. Searched'
  BY <1>0, <1>1, SearchedFrame
<1>. QED
  BY <1>1, <1>2, <1>3 DEF IInv, Searched, GatheredRight, ToolsRight

\* The inductive invariant holds of every scan of a host.
THEOREM Invariance == Spec => []IInv
<1>1. ASSUME IInv, [Next]_vars PROVE IInv'
  <2>1. CASE UNCHANGED vars
    <3>a. TypeOk /\ Searched
      BY <1>1 DEF IInv, Searched
    <3>1. TypeOk' /\ Searched'
      <4>0. UNCHANGED <<pc, profile, listening, probe, nmap, open_ports, scan_ports,
                        wpscan, dirsearch, file, lost>>
        BY <2>1 DEF vars, tools
      <4>1. TypeOk'
        BY <3>a, <4>0 DEF TypeOk
      <4>2. UNCHANGED <<profile, listening, probe, nmap, lost>>
        BY <2>1 DEF vars
      <4>. QED
        BY <3>a, <4>1, <4>2, SearchedFrame
    <3>2. GatheredRight' /\ ToolsRight'
      BY <1>1, <2>1 DEF IInv, GatheredRight, SocketItems, NmapItems, ToolsRight, Honest,
         vars, tools
    <3>. QED
      BY <3>1, <3>2 DEF IInv, Searched
  <2>. QED
    BY <1>1, <2>1, ProbeStep, NmapFailsStep, NmapReportsStep, FallbackStep, FallbackDoneStep,
       GatheredStep, WPScanStep, StartStep, WritesStep, EndsStep, ConcludeStep, StopStep
       DEF Next
<1>. QED
  BY <1>1, InvInit, PTL DEF Spec

\* Of two items for one port one comes from a socket probe and one from nmap.
LEMMA OneRow ==
  ASSUME IInv, pc = "done", NEW i \in open_ports
  PROVE  \E k \in open_ports : {r \in scan_ports : r.port = i.port} = {k}
<1>1. /\ open_ports = SocketItems \cup NmapItems
      /\ scan_ports = {x \in open_ports : \A k \in open_ports :
                          k.port = x.port /\ k.source = "socket" => k = x}
  BY DEF IInv, GatheredRight
<1>2. ASSUME NEW x \in open_ports
      PROVE  \/ x.source = "socket" /\ x = [port |-> x.port, protocol |-> "", source |-> "socket"]
             \/ /\ x.source # "socket"
                /\ x = [port |-> x.port, protocol |-> "tcp", source |-> nmap.source]
  BY <1>1 DEF SocketItems, NmapItems, IInv, TypeOk, NmapStates
<1>3. CASE \E k \in open_ports : k.port = i.port /\ k.source = "socket"
  <2>1. PICK k \in open_ports : k.port = i.port /\ k.source = "socket"
    BY <1>3
  <2>2. ASSUME NEW x \in open_ports, x.port = k.port, x.source = "socket" PROVE x = k
    <3>1. /\ x = [port |-> x.port, protocol |-> "", source |-> "socket"]
          /\ k = [port |-> k.port, protocol |-> "", source |-> "socket"]
      BY <1>2, <2>1, <2>2
    <3>. QED
      BY <2>2, <3>1
  <2>3. k \in scan_ports
    BY <1>1, <2>2
  <2>4. \A r \in scan_ports : r.port = i.port => r = k
    BY <1>1, <2>1
  <2>. QED
    BY <2>1, <2>3, <2>4
<1>4. CASE \A k \in open_ports : k.port = i.port => k.source # "socket"
  <2>1. i \in scan_ports
    BY <1>1, <1>4
  <2>2. \A r \in scan_ports : r.port = i.port => r = i
    BY <1>1, <1>2, <1>4
  <2>. QED
    BY <2>1, <2>2
<1>. QED
  BY <1>3, <1>4

\* An open port is missing from the report only when every attempt to see it was
\* lost, and each port that was seen has one row (analyzer.py 458-490, 3658-3679,
\* 2783, 2811, 5133).
THEOREM PortsAreSeen == Spec => []MissedOnlyByLosses
<1>1. IInv => MissedOnlyByLosses
  <2>. SUFFICES ASSUME IInv, pc = "done" PROVE MissedOnlyByLosses
    BY DEF MissedOnlyByLosses
  <2>1. /\ TypeOk /\ ProbesCount /\ FallbackCounts /\ NmapRight /\ nmap.at = "done"
        /\ \A p \in Ports : probe[p] \in {"open", "none"}
        /\ open_ports = SocketItems \cup NmapItems
    BY DEF IInv, GatheredRight
  <2>2. ASSUME NEW p \in listening, \A i \in open_ports : i.port # p
        PROVE  /\ lost[<<"probe", p>>] = 2
               /\ p \in Tried /\ nmap.source = "socket-fallback" =>
                     lost[<<"fallback", p>>] = 2
    <3>1. p \in Ports
      BY <2>1 DEF TypeOk
    <3>2. probe[p] # "open"
      <4>1. ASSUME probe[p] = "open"
            PROVE  [port |-> p, protocol |-> "", source |-> "socket"] \in open_ports
        BY <2>1, <3>1, <4>1 DEF SocketItems
      <4>. QED
        BY <2>2, <4>1
    <3>3. p \notin nmap.ports
      <4>1. ASSUME p \in nmap.ports
            PROVE  [port |-> p, protocol |-> "tcp", source |-> nmap.source] \in open_ports
        BY <2>1, <4>1 DEF NmapItems
      <4>. QED
        BY <2>2, <4>1
    <3>4. lost[<<"probe", p>>] = 2
      BY <2>1, <3>1, <3>2 DEF ProbesCount
    <3>. QED
      BY <2>1, <3>3, <3>4 DEF FallbackCounts, NmapRight
  <2>3. ASSUME NEW i \in open_ports PROVE i.port \in listening
    BY <2>1 DEF SocketItems, NmapItems, ProbesCount, FallbackCounts
  <2>4. ASSUME NEW i \in open_ports
        PROVE  Cardinality({r \in scan_ports : r.port = i.port}) = 1
    BY OneRow, FS_Singleton
  <2>. QED
    BY <2>2, <2>3, <2>4 DEF MissedOnlyByLosses
<1>. QED
  BY <1>1, Invariance, PTL

\* nmap's error is shown exactly when no port is, wpscan and dirsearch show results
\* of complete runs only, and the temporary file goes (analyzer.py 3291-3480,
\* 3658-3691).
THEOREM ToolsAreHonest == Spec => []ToolsHonest
<1>1. IInv => ToolsHonest
  BY DEF IInv, NmapRight, GatheredRight, ToolsRight, ToolsHonest, Honest
<1>. QED
  BY <1>1, Invariance, PTL

-----------------------------------------------------------------------------
(* lists: what ReportScoring's proofs need of them *)

\* A set of indices has a least one.
LEMMA Least ==
  ASSUME NEW T, T \subseteq Nat, T # {}
  PROVE  \E m \in T : \A k \in T : m <= k
<1>1. PICK m \in T : \A k \in T : <<k, m>> \notin OpToRel(<, Nat)
  BY NatLessThanWellFounded, WFMin
<1>2. ASSUME NEW k \in T PROVE m <= k
  <2>1. m \in Nat /\ k \in Nat
    OBVIOUS
  <2>2. ~ (k < m)
    BY <1>1, <2>1 DEF OpToRel
  <2>. QED
    BY <2>1, <2>2
<1>. QED
  BY <1>2

\* What a concatenation holds.
LEMMA ConcatHolds ==
  ASSUME NEW S, NEW s \in Seq(S), NEW t \in Seq(S)
  PROVE  /\ s \o t \in Seq(S)
         /\ ToSet(s \o t) = ToSet(s) \cup ToSet(t)
         /\ s \o t = <<>> <=> s = <<>> /\ t = <<>>
<1>1. /\ s \o t \in Seq(S) /\ Len(s \o t) = Len(s) + Len(t)
      /\ \A i \in 1..Len(s) + Len(t) :
            (s \o t)[i] = IF i <= Len(s) THEN s[i] ELSE t[i - Len(s)]
  BY ConcatProperties
<1>2. Len(s) \in Nat /\ Len(t) \in Nat
  BY LenProperties
<1>3. DOMAIN s = 1..Len(s) /\ DOMAIN t = 1..Len(t) /\ DOMAIN (s \o t) = 1..Len(s) + Len(t)
  BY <1>1, LenProperties
<1>4. ASSUME NEW x \in ToSet(s \o t) PROVE x \in ToSet(s) \cup ToSet(t)
  <2>1. PICK i \in 1..Len(s) + Len(t) : x = (s \o t)[i]
    BY <1>3 DEF ToSet
  <2>2. CASE i <= Len(s)
    BY <1>1, <1>2, <1>3, <2>1, <2>2 DEF ToSet
  <2>3. CASE i > Len(s)
    <3>1. i - Len(s) \in 1..Len(t) /\ x = t[i - Len(s)]
      BY <1>1, <1>2, <2>1, <2>3
    <3>. QED
      BY <1>3, <3>1 DEF ToSet
  <2>. QED
    BY <1>2, <2>1, <2>2, <2>3
<1>5. ASSUME NEW i \in 1..Len(s) PROVE s[i] \in ToSet(s \o t)
  <2>1. i \in 1..Len(s) + Len(t) /\ (s \o t)[i] = s[i]
    BY <1>1, <1>2
  <2>. QED
    BY <1>3, <2>1 DEF ToSet
<1>6. ASSUME NEW i \in 1..Len(t) PROVE t[i] \in ToSet(s \o t)
  <2>1. /\ Len(s) + i \in 1..Len(s) + Len(t)
        /\ (s \o t)[Len(s) + i] = t[i]
    BY <1>1, <1>2
  <2>. QED
    BY <1>3, <2>1 DEF ToSet
<1>7. ToSet(s \o t) = ToSet(s) \cup ToSet(t)
  <2>1. \A x \in ToSet(s) : x \in ToSet(s \o t)
    BY <1>3, <1>5 DEF ToSet
  <2>2. \A x \in ToSet(t) : x \in ToSet(s \o t)
    BY <1>3, <1>6 DEF ToSet
  <2>. QED
    BY <1>4, <2>1, <2>2
<1>8. s \o t = <<>> <=> s = <<>> /\ t = <<>>
  BY <1>1, <1>2, EmptySeq, LenProperties
<1>. QED
  BY <1>1, <1>7, <1>8

\* Of the items with one key the first is kept, and no other.
LEMMA KeptOnce ==
  ASSUME NEW S, NEW s \in Seq(S)
  PROVE  /\ Kept(s) \subseteq ToSet(s)
         /\ \A x \in ToSet(s) : \E y \in Kept(s) : Key(y) = Key(x)
         /\ \A x, y \in Kept(s) : Key(x) = Key(y) => x = y
<1>1. DOMAIN s = 1..Len(s) /\ Len(s) \in Nat
  BY LenProperties
<1>2. Kept(s) \subseteq ToSet(s)
  BY DEF Kept, ToSet
<1>3. ASSUME NEW x \in ToSet(s) PROVE \E y \in Kept(s) : Key(y) = Key(x)
  <2>. DEFINE T == {i \in DOMAIN s : Key(s[i]) = Key(x)}
  <2>1. T # {} /\ T \subseteq Nat
    BY <1>1 DEF ToSet
  <2>2. PICK m \in T : \A k \in T : m <= k
    BY <2>1, Least
  <2>3. \A j \in 1..(m - 1) : Key(s[j]) # Key(s[m])
    <3>1. ASSUME NEW j \in 1..(m - 1), Key(s[j]) = Key(s[m]) PROVE FALSE
      <4>1. j \in DOMAIN s /\ j < m
        BY <1>1, <2>2
      <4>2. j \in T
        BY <2>2, <3>1, <4>1
      <4>. QED
        BY <1>1, <2>2, <4>1, <4>2
    <3>. QED
      BY <3>1
  <2>4. s[m] \in Kept(s)
    BY <2>2, <2>3 DEF Kept
  <2>. QED
    BY <2>2, <2>4
<1>4. ASSUME NEW x \in Kept(s), NEW y \in Kept(s), Key(x) = Key(y) PROVE x = y
  <2>1. PICK i \in DOMAIN s : x = s[i] /\ \A j \in 1..(i - 1) : Key(s[j]) # Key(s[i])
    BY DEF Kept
  <2>2. PICK k \in DOMAIN s : y = s[k] /\ \A j \in 1..(k - 1) : Key(s[j]) # Key(s[k])
    BY DEF Kept
  <2>3. i = k
    BY <1>1, <1>4, <2>1, <2>2
  <2>. QED
    BY <2>1, <2>2, <2>3
<1>. QED
  BY <1>2, <1>3, <1>4

-----------------------------------------------------------------------------
(* what the rules report *)

\* An item that is not, and does not look like, one of the strong ones.
Plain(x) == x.severity \in Severities /\ ~StrongName(x) /\ ~IsConfirmed(x)

\* What a rule may add to the lists.
Fits(r) ==
    /\ r.checks \in Seq(ToSet(r.checks)) /\ r.findings \in Seq(ToSet(r.findings))
    /\ \A x \in ToSet(r.checks) \cup ToSet(r.findings) : Plain(x)
    /\ \A f \in ToSet(r.findings) : ~Lone(f.title)
    /\ \A c \in ToSet(r.checks) :
          Name(c) \in LoneNames \/ \E f \in ToSet(r.findings) : Name(f) = Name(c)

\* The entries of short lists.
LEMMA Singly == ASSUME NEW x PROVE <<x>> \in Seq({x}) /\ ToSet(<<x>>) = {x}
BY DEF ToSet
\* The empty list.
LEMMA Nothing == <<>> \in Seq({}) /\ ToSet(<<>>) = {}
BY DEF ToSet

\* The fields of an item, and of its copy with other evidence.
LEMMA Fields ==
  ASSUME NEW title, NEW category, NEW severity, NEW evidence, NEW confidence, NEW type
  PROVE  LET x == Entry(title, category, severity, evidence, confidence, type)
         IN  /\ x.title = title /\ x.severity = severity /\ x.evidence = evidence
             /\ x.confidence = confidence /\ x.type = type
             /\ Name([x EXCEPT !.evidence = @ + 1]) = <<title, severity>>
             /\ [x EXCEPT !.evidence = @ + 1].confidence = confidence
             /\ [x EXCEPT !.evidence = @ + 1].type = type
BY Zenon DEF Entry, Name

\* The copy is an entry again.
LEMMA Copied ==
  ASSUME NEW T, NEW other,
         NEW x \in [title : T, category : T, severity : T, evidence : T, confidence : T,
                    type : T, status : T]
  PROVE  [x EXCEPT !.evidence = other]
            = [title |-> x.title, category |-> x.category, severity |-> x.severity,
               evidence |-> other, confidence |-> x.confidence, type |-> x.type,
               status |-> x.status]
OBVIOUS

\* What is plain depends on name, severity, confidence and evidence type.
PlainFacts(title, severity, confidence, type) ==
    /\ severity \in Severities
    /\ title \notin {"Private Key", "AWS Access Key", "OpenAPI Schema Detected",
                     "GraphQL Introspection Enabled"}
    /\ title = "GraphQL Introspection Check" => severity # "HIGH"
    /\ \/ confidence # "HIGH" \/ severity \notin {"CRITICAL", "HIGH"}
       \/ type \notin StrongEvidence

\* An entry with such fields is plain.
LEMMA PlainEntry ==
  ASSUME NEW title, NEW category, NEW severity, NEW evidence, NEW confidence, NEW type,
         PlainFacts(title, severity, confidence, type)
  PROVE  Plain(Entry(title, category, severity, evidence, confidence, type))
BY DEF Entry, PlainFacts, Plain, StrongName, IsConfirmed

\* The reports a rule is made of.
LEMMA FindingFits ==
  ASSUME NEW f, Plain(f), ~Lone(f.title) PROVE Fits(Finding(f))
BY Singly, Nothing DEF Fits, Finding

\* A check alone has one of the names no finding has.
LEMMA CheckFits ==
  ASSUME NEW c, Plain(c), Name(c) \in LoneNames PROVE Fits(Check(c))
BY Singly, Nothing DEF Fits, Check

\* A check and a finding.
LEMMA BothFit ==
  ASSUME NEW c, NEW f, Plain(c), Plain(f), ~Lone(f.title),
         Name(c) \in LoneNames \/ Name(f) = Name(c)
  PROVE  Fits(Both(c, f))
<1>1. /\ <<c>> \in Seq(ToSet(<<c>>)) /\ ToSet(<<c>>) = {c}
      /\ <<f>> \in Seq(ToSet(<<f>>)) /\ ToSet(<<f>>) = {f}
  BY Singly
<1>2. Both(c, f).checks = <<c>> /\ Both(c, f).findings = <<f>>
  BY DEF Both
<1>. QED
  BY <1>1, <1>2 DEF Fits

\* The same entry in both lists.
LEMMA TwinFits ==
  ASSUME NEW x, Plain(x), ~Lone(x.title) PROVE Fits(Twin(x))
BY BothFit DEF Twin

\* An entry and its copy with other evidence.
LEMMA ApartFits ==
  ASSUME NEW title, NEW category, NEW severity, NEW evidence, NEW confidence, NEW type,
         PlainFacts(title, severity, confidence, type), ~Lone(title)
  PROVE  Fits(Apart(Entry(title, category, severity, evidence, confidence, type)))
<1>. DEFINE x == Entry(title, category, severity, evidence, confidence, type)
            y == [x EXCEPT !.evidence = @ + 1]
<1>1. /\ x.title = title /\ Name(x) = <<title, severity>> /\ Name(y) = <<title, severity>>
      /\ y.confidence = confidence /\ y.type = type
  BY Fields DEF Name
<1>2. y.title = title /\ y.severity = severity
  BY <1>1 DEF Name
<1>. HIDE DEF y
<1>3. Plain(x)
  BY PlainEntry
<1>4. Plain(y)
  BY <1>1, <1>2 DEF PlainFacts, Plain, StrongName, IsConfirmed
<1>5. Fits(Both(x, y))
  BY <1>1, <1>2, <1>3, <1>4, BothFit
<1>. QED
  BY <1>5 DEF Apart, y

\* Transport, headers, cookies, CORS and methods.
LEMMA ResponseFits == ASSUME NEW r \in TransportRules \cup HeaderRules \cup AccessRules PROVE Fits(r)
<1>. USE DEF Item, Entry, Plain, PlainFacts, StrongName, IsConfirmed, StrongEvidence,
             Severities, Name, Lone, LoneNames
<1>1. Fits(Both(Item("HTTP Without HTTPS", "SSL/TLS", "MEDIUM", 1),
          Item("HTTP Used Instead of HTTPS", "SSL/TLS", "MEDIUM", 1)))
  BY BothFit
<1>2. Fits(Check(Item("Server Error", "HTTP", "MEDIUM", 1)))
  BY CheckFits
<1>3. Fits(Check(Item("Client Error", "HTTP", "LOW", 1)))
  BY CheckFits
<1>4. \A s \in {"MEDIUM", "LOW"} :
         Fits(Both(Header(s, "HIGH", "header_check"), Header(s, "MEDIUM", "generic")))
  BY BothFit DEF Header
<1>5. Fits(Both(Item("Server Header Disclosure", "Headers", "LOW", 1),
          Item("Server Header Exposed", "Headers", "LOW", 1)))
  BY BothFit
<1>6. Fits(Check(Item("Cookie Missing HttpOnly", "Cookies", "MEDIUM", 1)))
  BY CheckFits
<1>7. Fits(Twin(Item("CORS Misconfiguration", "CORS", "MEDIUM", 1)))
  BY TwinFits
<1>8. Fits(Both(Item("Dangerous HTTP Method Enabled", "HTTP Methods", "MEDIUM", 1),
          Item("Dangerous HTTP Methods", "HTTP Methods", "MEDIUM", 1)))
  BY BothFit
<1>. QED
  BY <1>1, <1>2, <1>3, <1>4, <1>5, <1>6, <1>7, <1>8 DEF TransportRules, HeaderRules, AccessRules

\* Endpoints named in the scripts.
LEMMA EndpointsFit == ASSUME NEW r \in EndpointRules PROVE Fits(r)
<1>. USE DEF Item, Entry, Plain, PlainFacts, StrongName, IsConfirmed, StrongEvidence,
             Severities, Name, Lone, LoneNames
<1>1. Fits(Finding(Item("API Endpoints Discovered", "Attack Surface", "INFO", 1)))
  BY FindingFits
<1>2. Fits(Finding(Entry("API Documentation Reference Discovered", "Attack Surface",
                   "MEDIUM", 1, "MEDIUM", "frontend_reference")))
  BY FindingFits
<1>. QED
  BY <1>1, <1>2 DEF EndpointRules

\* The probes with payloads.
LEMMA ValidationFits == ASSUME NEW r \in ValidationRules PROVE Fits(r)
<1>. USE DEF Item, Entry, Plain, PlainFacts, StrongName, IsConfirmed, StrongEvidence,
             Severities, Name, Lone, LoneNames
<1>1. Fits(Twin(SqlBehavior("SQL Error Pattern", "MEDIUM", "database_error_pattern")))
  BY TwinFits DEF SqlBehavior
<1>2. Fits(Twin(SqlBehavior("Behavioral SQLi Difference", "LOW", "response_diff")))
  BY TwinFits DEF SqlBehavior
<1>3. Fits(Finding(Reflected("Reflected Input", "LOW")))
  BY FindingFits DEF Reflected
<1>4. Fits(Both(Reflected("Possible Reflected XSS", "MEDIUM"),
              Reflected("Reflected Input", "MEDIUM")))
  BY BothFit DEF Reflected
<1>. QED
  BY <1>1, <1>2, <1>3, <1>4 DEF ValidationRules

\* A listed directory.
LEMMA ListingFits == ASSUME NEW r \in ListingRules PROVE Fits(r)
<1>. USE DEF Item, Entry, Plain, PlainFacts, StrongName, IsConfirmed, StrongEvidence,
             Severities, Name, Lone, LoneNames
<1>1. Fits(Apart(Item("Directory Listing Enabled", "Exposure", "HIGH", 1)))
  BY ApartFits
<1>. QED
  BY <1>1 DEF ListingRules

\* Certificate, mail records, robots.txt, security.txt.
LEMMA HostFits == ASSUME NEW r \in HostRules PROVE Fits(r)
<1>. USE DEF Item, Entry, Plain, PlainFacts, StrongName, IsConfirmed, StrongEvidence,
             Severities, Name, Lone, LoneNames
<1>1. Fits(Both(Item("SSL/TLS Problem", "SSL/TLS", "MEDIUM", 1),
              Item("SSL Problem", "SSL/TLS", "MEDIUM", 1)))
  BY BothFit
<1>2. Fits(Twin(Item("Suspicious robots.txt Entries", "Robots", "LOW", 1)))
  BY TwinFits
<1>3. Fits(Finding(Item("security.txt Not Found", "Security Policy", "INFO", 0)))
  BY FindingFits
<1>4. \A nr \in 1..2 : Fits(Twin(MailIssue(nr)))
  BY TwinFits DEF MailIssue
<1>. QED
  BY <1>1, <1>2, <1>3, <1>4 DEF HostRules

\* Sensitive paths.
LEMMA PathsFit == ASSUME NEW r \in PathRules PROVE Fits(r)
<1>. USE DEF Item, Entry, Plain, PlainFacts, StrongName, IsConfirmed, StrongEvidence,
             Severities, Name, Lone, LoneNames
<1>1. \A nr \in 1..2 : Fits(Check(SensitivePath(nr)))
  BY CheckFits DEF SensitivePath
<1>2. Fits(Apart(NiktoPath(".env File Exposed", "HIGH")))
  BY ApartFits DEF NiktoPath
<1>3. Fits(Apart(NiktoPath("Debug Page Exposed", "MEDIUM")))
  BY ApartFits DEF NiktoPath
<1>. QED
  BY <1>1, <1>2, <1>3 DEF PathRules

\* What wpscan and dirsearch found.
LEMMA WordPressFits == ASSUME NEW r \in WordPressRules PROVE Fits(r)
<1>. USE DEF Item, Entry, Plain, PlainFacts, StrongName, IsConfirmed, StrongEvidence,
             Severities, Name, Lone, LoneNames
<1>1. Fits(Apart(Item("WordPress Directory Discovery", "WordPress", "INFO", 1)))
  BY ApartFits
<1>2. Fits(Finding(Item("WPScan: component", "WordPress", "HIGH", 1)))
  BY FindingFits
<1>3. \A s \in {"HIGH", "MEDIUM"} :
         Fits(Apart(Item("WPScan Vulnerabilities Detected", "WordPress", s,
                         IF s = "HIGH" THEN 1 ELSE 3)))
  BY ApartFits
<1>. QED
  BY <1>1, <1>2, <1>3 DEF WordPressRules

\* Exposed paths but a public schema.
LEMMA ExposuresFit == ASSUME NEW r \in ExposureRules PROVE Fits(r)
<1>. USE DEF Item, Entry, Plain, PlainFacts, StrongName, IsConfirmed, StrongEvidence,
             Severities, Name, Lone, LoneNames
<1>1. Fits(Finding(Entry("Admin Panel Detected", "Admin/Auth", "INFO", 1, "HIGH",
                   "status_code")))
  BY FindingFits
<1>2. \A c \in {"HIGH", "MEDIUM"} :
         Fits(Exposure("API Docs Detected", "API Documentation", "HIGH", c,
                       "keyword_status_match"))
  BY ApartFits DEF Exposure
<1>3. \A c \in {"HIGH", "MEDIUM"} :
         Fits(Exposure("Debug Endpoint Detected", "Debug", "HIGH", c,
                       "keyword_status_match"))
  BY ApartFits DEF Exposure
<1>. QED
  BY <1>1, <1>2, <1>3 DEF ExposureRules

\* Ports, subdomains, network owner, address.
LEMMA ContextFits == ASSUME NEW r \in ContextRules PROVE Fits(r)
<1>. USE DEF Item, Entry, Plain, PlainFacts, StrongName, IsConfirmed, StrongEvidence,
             Severities, Name, Lone, LoneNames
<1>1. Fits(Twin(Item("Risky Open Ports", "Ports", "MEDIUM", 1)))
  BY TwinFits
<1>2. Fits(Finding(Item("Subdomains Discovered", "Subdomains", "INFO", 0)))
  BY FindingFits
<1>3. Fits(Finding(Item("Whois / ASN Information Collected", "Whois/ASN", "INFO", 1)))
  BY FindingFits
<1>4. Fits(Finding(Entry("IP Target Scan", "IP Intelligence", "INFO", 1, "HIGH",
                   "target_type")))
  BY FindingFits
<1>. QED
  BY <1>1, <1>2, <1>3, <1>4 DEF ContextRules

\* Known vulnerabilities of the software the target names.
LEMMA CvesFit == ASSUME NEW r \in CveRules PROVE Fits(r)
<1>1. ASSUME NEW severity \in Severities, NEW confidence, NEW status
      PROVE  Fits(Twin(Cve(severity, confidence, status)))
  <2>. DEFINE x == Cve(severity, confidence, status)
  <2>1. /\ x.title = "CVE Intelligence" /\ x.severity = severity
        /\ x.type = "cve_intelligence"
    BY Zenon DEF Cve, Entry
  <2>. HIDE DEF x
  <2>2. Plain(x) /\ ~Lone(x.title)
    BY <2>1 DEF Plain, StrongName, IsConfirmed, StrongEvidence, Lone, LoneNames
  <2>. QED
    BY <2>2, TwinFits DEF x
<1>. QED
  BY <1>1 DEF CveRules, Severities

-----------------------------------------------------------------------------
(* the strong items *)

\* Two kinds of secrets are strong, and the others plain.
LEMMA Kinds ==
  ASSUME NEW kind \in SecretKinds
  PROVE  \/ /\ kind.title = "Private Key" /\ kind.severity = "CRITICAL"
            /\ kind.confidence = "HIGH" /\ kind.type = "private_key_exposed"
         \/ /\ kind.title = "AWS Access Key" /\ kind.severity = "HIGH"
            /\ kind.confidence = "HIGH" /\ kind.type = "real_secret_exposed"
         \/ /\ kind.title \in {"Bearer Token", "Google API Key"}
            /\ kind.severity \in {"HIGH", "MEDIUM"} /\ kind.confidence = "MEDIUM"
<1>1. CASE kind = [title |-> "Private Key", severity |-> "CRITICAL",
                   confidence |-> "HIGH", type |-> "private_key_exposed"]
  BY <1>1
<1>2. CASE kind = [title |-> "AWS Access Key", severity |-> "HIGH",
                   confidence |-> "HIGH", type |-> "real_secret_exposed"]
  BY <1>2
<1>3. CASE kind = [title |-> "Bearer Token", severity |-> "HIGH",
                   confidence |-> "MEDIUM", type |-> "credential_pattern"]
  BY <1>3
<1>4. CASE kind = [title |-> "Google API Key", severity |-> "MEDIUM",
                   confidence |-> "MEDIUM", type |-> "credential_pattern"]
  BY <1>4
<1>. QED
  BY Zenon, <1>1, <1>2, <1>3, <1>4 DEF SecretKinds

\* The fields of the item of a secret.
LEMMA SecretFields ==
  ASSUME NEW kind, NEW nr
  PROVE  LET x == Secret(kind, nr)
         IN  /\ x.title = kind.title /\ x.evidence = nr /\ x.severity = kind.severity
             /\ x.confidence = kind.confidence /\ x.type = kind.type
BY DEF Secret, Entry

\* The kinds with strong evidence.
StrongKind(kind) == kind.title \in {"Private Key", "AWS Access Key"}

\* The item of a strong secret is confirmed.
LEMMA StrongSecret ==
  ASSUME NEW kind \in SecretKinds, NEW nr, StrongKind(kind)
  PROVE  IsConfirmed(Secret(kind, nr))
<1>1. /\ kind.severity \in {"CRITICAL", "HIGH"} /\ kind.confidence = "HIGH"
      /\ kind.type \in StrongEvidence
  BY Kinds DEF StrongEvidence, StrongKind
<1>. QED
  BY <1>1, SecretFields DEF IsConfirmed

\* The item of another secret is plain.
LEMMA WeakSecret ==
  ASSUME NEW kind \in SecretKinds, NEW nr, ~StrongKind(kind)
  PROVE  Plain(Secret(kind, nr))
<1>1. /\ kind.severity \in Severities /\ kind.confidence # "HIGH"
      /\ kind.title \in {"Bearer Token", "Google API Key"}
  BY Kinds DEF Severities, StrongKind
<1>. DEFINE x == Secret(kind, nr)
<1>2. /\ x.severity \in Severities /\ x.confidence # "HIGH"
      /\ x.title \in {"Bearer Token", "Google API Key"}
  BY <1>1, SecretFields
<1>. HIDE DEF x
<1>3. Plain(x)
  BY <1>2 DEF Plain, IsConfirmed, StrongName
<1>. QED
  BY <1>3 DEF x

\* No check alone has the name of a secret.
LEMMA SecretShared ==
  ASSUME NEW kind \in SecretKinds, NEW nr
  PROVE  ~Lone(Secret(kind, nr).title) /\ Secret(kind, nr).severity \in Severities
<1>1. /\ kind.severity \in Severities
      /\ kind.title \in {"Private Key", "AWS Access Key", "Bearer Token", "Google API Key"}
  BY Kinds DEF Severities
<1>2. ~Lone(kind.title)
  BY <1>1 DEF Lone, LoneNames
<1>. QED
  BY <1>1, <1>2, SecretFields

\* The items of a public schema and of open introspection.
LEMMA SchemaItem ==
  ASSUME NEW nr, NEW x, x = PublicSchema(nr)
  PROVE  /\ x.title = "OpenAPI Schema Detected" /\ x.evidence = nr /\ x.severity = "HIGH"
         /\ IsConfirmed(x)
BY DEF PublicSchema, Entry, IsConfirmed, StrongEvidence

\* The fields of an item of open introspection.
LEMMA IntrospectionItem ==
  ASSUME NEW title, NEW x, x = OpenIntrospection(title)
  PROVE  /\ x.title = title /\ x.evidence = 1 /\ x.severity = "HIGH"
         /\ IsConfirmed(x)
BY DEF OpenIntrospection, GraphqlAnswer, Entry, IsConfirmed, StrongEvidence

\* What a strong item is, and that its name says which of these.
LEMMA StrongForms ==
  ASSUME NEW x
  PROVE  x \in StrongItems <=>
           \/ \E i \in Shown("Private Key") : x = Secret(js_secrets[i], i)
           \/ \E i \in Shown("AWS Access Key") : x = Secret(js_secrets[i], i)
           \/ "schema" \in strong /\ \E nr \in 1..2 : x = PublicSchema(nr)
           \/ /\ "introspection" \in strong
              /\ \/ x = OpenIntrospection("GraphQL Introspection Enabled")
                 \/ x = OpenIntrospection("GraphQL Introspection Check")
BY DEF StrongItems

\* A strong item is confirmed, and its title says which one it is.
LEMMA StrongNames ==
  ASSUME RTypeOk, NEW x \in StrongItems
  PROVE  /\ IsConfirmed(x)
         /\ \/ /\ x.title = "Private Key" /\ x.severity = "CRITICAL"
               /\ x.evidence \in Shown("Private Key")
               /\ x = Secret(js_secrets[x.evidence], x.evidence)
            \/ /\ x.title = "AWS Access Key" /\ x.severity = "HIGH"
               /\ x.evidence \in Shown("AWS Access Key")
               /\ x = Secret(js_secrets[x.evidence], x.evidence)
            \/ /\ x.title = "OpenAPI Schema Detected" /\ x.severity = "HIGH"
               /\ "schema" \in strong /\ x.evidence \in 1..2 /\ x = PublicSchema(x.evidence)
            \/ /\ x.title \in {"GraphQL Introspection Enabled", "GraphQL Introspection Check"}
               /\ "introspection" \in strong /\ x.severity = "HIGH"
               /\ x = OpenIntrospection(x.title)
<1>0. \A i \in DOMAIN js_secrets : js_secrets[i] \in SecretKinds
  BY ElementOfSeq, LenProperties DEF RTypeOk
<1>1. CASE \E i \in Shown("Private Key") : x = Secret(js_secrets[i], i)
  <2>1. PICK i \in Shown("Private Key") : x = Secret(js_secrets[i], i)
    BY <1>1
  <2>2. PICK kind \in SecretKinds : js_secrets[i] = kind /\ kind.title = "Private Key"
    BY <1>0 DEF Shown
  <2>3. x = Secret(kind, i)
    BY <2>1, <2>2
  <2>4. x.title = kind.title /\ x.evidence = i /\ x.severity = kind.severity
    BY <2>3, SecretFields
  <2>5. kind.severity = "CRITICAL"
    BY <2>2, Kinds
  <2>6. StrongKind(kind)
    BY <2>2 DEF StrongKind
  <2>7. IsConfirmed(Secret(kind, i))
    BY <2>6, StrongSecret
  <2>8. x.title = kind.title /\ x.evidence \in Shown(kind.title)
        /\ x = Secret(js_secrets[x.evidence], x.evidence)
    BY <2>1, <2>2, <2>4
  <2>. QED
    BY <2>2, <2>3, <2>4, <2>5, <2>7, <2>8
<1>2. CASE \E i \in Shown("AWS Access Key") : x = Secret(js_secrets[i], i)
  <2>1. PICK i \in Shown("AWS Access Key") : x = Secret(js_secrets[i], i)
    BY <1>2
  <2>2. PICK kind \in SecretKinds : js_secrets[i] = kind /\ kind.title = "AWS Access Key"
    BY <1>0 DEF Shown
  <2>3. x = Secret(kind, i)
    BY <2>1, <2>2
  <2>4. x.title = kind.title /\ x.evidence = i /\ x.severity = kind.severity
    BY <2>3, SecretFields
  <2>5. kind.severity = "HIGH"
    BY <2>2, Kinds
  <2>6. StrongKind(kind)
    BY <2>2 DEF StrongKind
  <2>7. IsConfirmed(Secret(kind, i))
    BY <2>6, StrongSecret
  <2>8. x.title = kind.title /\ x.evidence \in Shown(kind.title)
        /\ x = Secret(js_secrets[x.evidence], x.evidence)
    BY <2>1, <2>2, <2>4
  <2>. QED
    BY <2>2, <2>3, <2>4, <2>5, <2>7, <2>8
<1>3. CASE "schema" \in strong /\ \E nr \in 1..2 : x = PublicSchema(nr)
  BY <1>3, SchemaItem
<1>4. CASE /\ "introspection" \in strong
           /\ \/ x = OpenIntrospection("GraphQL Introspection Enabled")
              \/ x = OpenIntrospection("GraphQL Introspection Check")
  BY <1>4, IntrospectionItem
<1>. QED
  BY <1>1, <1>2, <1>3, <1>4, StrongForms

\* A strong item is confirmed, under one of the names, and has its key alone.
LEMMA StrongConfirmed ==
  ASSUME RTypeOk, NEW x \in StrongItems
  PROVE  IsConfirmed(x) /\ StrongName(x) /\ x.severity \in Severities
BY StrongNames DEF StrongName, Severities

\* Two strong items have two keys.
LEMMA StrongKeys ==
  ASSUME RTypeOk, NEW x \in StrongItems, NEW y \in StrongItems, Key(x) = Key(y)
  PROVE  x = y
<1>1. x.title = y.title /\ x.evidence = y.evidence
  BY DEF Key
<1>. QED
  BY <1>1, StrongNames

-----------------------------------------------------------------------------
(* the invariant *)

\* What a joined list holds.
LEMMA Joined ==
  ASSUME NEW s, NEW t, s \in Seq(ToSet(s)), t \in Seq(ToSet(t))
  PROVE  /\ s \o t \in Seq(ToSet(s \o t))
         /\ ToSet(s \o t) = ToSet(s) \cup ToSet(t)
         /\ s \o t = <<>> <=> s = <<>> /\ t = <<>>
<1>. DEFINE S == ToSet(s) \cup ToSet(t)
<1>1. s \in Seq(S) /\ t \in Seq(S)
  BY SeqMonotonic
<1>. QED
  BY <1>1, ConcatHolds

\* An appended list is a joined one.
LEMMA Appended ==
  ASSUME NEW s, NEW x, s \in Seq(ToSet(s)) PROVE Append(s, x) = s \o <<x>>
<1>. DEFINE S == ToSet(s) \cup {x}
<1>1. s \in Seq(S) /\ x \in S
  BY SeqMonotonic
<1>. QED
  BY <1>1, AppendIsConcat

\* What is reported is in one of the lists.
LEMMA ReportedIs ==
  ASSUME RTypeOk
  PROVE  Reported = ToSet(checks) \cup ToSet(findings)
BY Joined DEF RTypeOk, Reported

\* New entries keep the invariant when they fit it and a rule follows.
LEMMA Grown ==
  ASSUME RInv, NEW cs, NEW fs, cs \in Seq(ToSet(cs)), fs \in Seq(ToSet(fs)),
         checks' = checks \o cs, findings' = findings \o fs,
         rule' \in Rules \ {"target", "done"},
         js_secrets' \in Seq(SecretKinds), strong' \subseteq {"schema", "introspection"},
         StrongItems \subseteq StrongItems',
         StrongItems' \subseteq StrongItems \cup ToSet(cs) \cup ToSet(fs),
         \A x \in ToSet(cs) \cup ToSet(fs) :
            /\ x.severity \in Severities
            /\ StrongName(x) \/ IsConfirmed(x) => x \in StrongItems',
         \A f \in ToSet(fs) : ~Lone(f.title),
         \A c \in ToSet(cs) :
            Name(c) \in LoneNames \/ \E f \in ToSet(fs) : Name(f) = Name(c)
  PROVE  RInv'
<1>1. /\ checks' \in Seq(ToSet(checks')) /\ ToSet(checks') = ToSet(checks) \cup ToSet(cs)
      /\ findings' \in Seq(ToSet(findings'))
      /\ ToSet(findings') = ToSet(findings) \cup ToSet(fs)
  BY Joined DEF RInv, RTypeOk
<1>2. Reported = ToSet(checks) \cup ToSet(findings)
  BY ReportedIs DEF RInv
<1>3. Reported' = ToSet(checks') \cup ToSet(findings')
  BY <1>1, Joined DEF Reported
<1>4. Reported' = Reported \cup ToSet(cs) \cup ToSet(fs)
  BY <1>1, <1>2, <1>3
<1>5. \A x \in Reported' : x.severity \in Severities
  BY <1>4 DEF RInv, RTypeOk
<1>6. RTypeOk'
  BY <1>1, <1>5 DEF RTypeOk
<1>7. ConfirmedRight'
  BY <1>4 DEF RInv, ConfirmedRight
<1>8. ChecksMatched'
  BY <1>1 DEF RInv, ChecksMatched
<1>9. StartsEmpty' /\ ResultRight'
  BY DEF StartsEmpty, ResultRight, Analyzed
<1>. QED
  BY <1>6, <1>7, <1>8, <1>9 DEF RInv

\* A report of a rule that fits.
LEMMA ReportKeeps ==
  ASSUME RInv, NEW here, NEW there \in Rules \ {"target", "done"}, NEW reported,
         \A r \in reported : Fits(r), Report(here, there, reported)
  PROVE  RInv'
<1>1. PICK r \in reported : checks' = checks \o r.checks /\ findings' = findings \o r.findings
  BY DEF Report
<1>2. UNCHANGED <<js_secrets, strong>> /\ rule' = there
  BY DEF Report, At
<1>3. StrongItems' = StrongItems
  BY <1>2 DEF StrongItems, Shown
<1>4. Fits(r)
  BY <1>1
<1>5. \A x \in ToSet(r.checks) \cup ToSet(r.findings) :
          /\ x.severity \in Severities
          /\ StrongName(x) \/ IsConfirmed(x) => x \in StrongItems'
  BY <1>4 DEF Fits, Plain
<1>6. js_secrets' \in Seq(SecretKinds) /\ strong' \subseteq {"schema", "introspection"}
  BY <1>2 DEF RInv, RTypeOk
<1>. QED
  BY <1>1, <1>2, <1>3, <1>4, <1>5, <1>6, Grown DEF Fits

\* Nothing seen, nothing changed.
LEMMA PassKeeps ==
  ASSUME RInv, NEW here, NEW there \in Rules \ {"target", "done"}, Pass(here, there)
  PROVE  RInv'
<1>1. UNCHANGED <<checks, findings, js_secrets, strong>> /\ rule' = there
  BY DEF Pass, At, lists
<1>2. StrongItems' = StrongItems /\ Reported' = Reported
  BY <1>1 DEF StrongItems, Shown, Reported
<1>3. RTypeOk' /\ ConfirmedRight' /\ ChecksMatched'
  BY <1>1, <1>2 DEF RInv, RTypeOk, ConfirmedRight, ChecksMatched
<1>4. StartsEmpty' /\ ResultRight'
  BY <1>1 DEF StartsEmpty, ResultRight, Analyzed
<1>. QED
  BY <1>3, <1>4 DEF RInv

\* analyze returns before any rule: the lists are still empty.
LEMMA UnresolvableKeeps ==
  ASSUME RInv, Unresolvable PROVE RInv'
<1>1. /\ UNCHANGED <<checks, findings, js_secrets, strong>> /\ rule = "target"
      /\ rule' = "done"
  BY DEF Unresolvable, At, lists
<1>2. StrongItems' = StrongItems /\ Reported' = Reported
  BY <1>1 DEF StrongItems, Shown, Reported
<1>3. RTypeOk' /\ ConfirmedRight' /\ ChecksMatched'
  BY <1>1, <1>2 DEF RInv, RTypeOk, ConfirmedRight, ChecksMatched, Rules
<1>4. checks' = <<>> /\ findings' = <<>>
  BY <1>1 DEF RInv, StartsEmpty
<1>5. checks' \o findings' = <<>>
  BY <1>4, EmptySeq, ConcatHolds
<1>6. StartsEmpty' /\ ResultRight'
  BY <1>1, <1>5 DEF StartsEmpty, ResultRight, Analyzed
<1>. QED
  BY <1>3, <1>6 DEF RInv

\* A secret found grows what is shown while fewer than the limit are.
LEMMA ShownGrows ==
  ASSUME RTypeOk, NEW kind \in SecretKinds, js_secrets' = Append(js_secrets, kind),
         NEW title
  PROVE  LET n == Len(js_secrets) + 1 IN
         /\ Shown(title)' = Shown(title) \cup {i \in {n} : n <= SecretLimit /\ kind.title = title}
         /\ \A i \in Shown(title) : i \in 1..Len(js_secrets) /\ js_secrets'[i] = js_secrets[i]
         /\ js_secrets'[n] = kind
<1>. DEFINE n == Len(js_secrets) + 1
<1>1. js_secrets \in Seq(SecretKinds) /\ Len(js_secrets) \in Nat
      /\ DOMAIN js_secrets = 1..Len(js_secrets)
  BY LenProperties DEF RTypeOk
<1>2. /\ js_secrets' \in Seq(SecretKinds) /\ Len(js_secrets') = n
      /\ \A i \in 1..Len(js_secrets) : js_secrets'[i] = js_secrets[i]
      /\ js_secrets'[n] = kind
  BY <1>1, AppendProperties
<1>3. DOMAIN js_secrets' = 1..n
  BY <1>2, LenProperties
<1>4. DOMAIN js_secrets' = DOMAIN js_secrets \cup {n}
  BY <1>1, <1>3
<1>. HIDE DEF n
<1>5. Shown(title)' = Shown(title) \cup {i \in {n} : n <= SecretLimit /\ kind.title = title}
  BY <1>1, <1>2, <1>4 DEF Shown
<1>. QED
  BY <1>1, <1>2, <1>5 DEF Shown, n

\* What a found secret adds to the strong items.
LEMMA StrongGrows ==
  ASSUME RTypeOk, NEW kind \in SecretKinds, js_secrets' = Append(js_secrets, kind),
         strong' = strong
  PROVE  StrongItems' = StrongItems \cup
            {x \in {Secret(kind, Len(js_secrets) + 1)} :
                Len(js_secrets) + 1 <= SecretLimit /\ StrongKind(kind)}
<1>. DEFINE n == Len(js_secrets) + 1
            T == Shown("Private Key") \cup Shown("AWS Access Key")
            D == {i \in {n} : n <= SecretLimit /\ StrongKind(kind)}
<1>1. /\ T' = T \cup D
      /\ \A i \in T : js_secrets'[i] = js_secrets[i]
      /\ js_secrets'[n] = kind
  <2>1. ASSUME NEW title
        PROVE  /\ Shown(title)' = Shown(title)
                      \cup {i \in {n} : n <= SecretLimit /\ kind.title = title}
               /\ \A i \in Shown(title) : js_secrets'[i] = js_secrets[i]
               /\ js_secrets'[n] = kind
    BY ShownGrows
  <2>2. D = {i \in {n} : n <= SecretLimit /\ kind.title = "Private Key"}
              \cup {i \in {n} : n <= SecretLimit /\ kind.title = "AWS Access Key"}
    BY DEF StrongKind
  <2>. HIDE DEF n, D
  <2>3. T' = T \cup D
    BY <2>1, <2>2
  <2>. QED
    BY <2>1, <2>3
<1>2. {Secret(js_secrets'[i], i) : i \in T'}
         = {Secret(js_secrets[i], i) : i \in T} \cup {Secret(kind, i) : i \in D}
  <2>. HIDE DEF T
  <2>1. \A i \in D : js_secrets'[i] = kind
    BY <1>1
  <2>. HIDE DEF D
  <2>. QED
    BY <1>1, <2>1
<1>3. {Secret(kind, i) : i \in D}
         = {x \in {Secret(kind, n)} : n <= SecretLimit /\ StrongKind(kind)}
  OBVIOUS
<1>. QED
  BY <1>2, <1>3 DEF StrongItems

\* A secret is strong or plain, and the ones past the limit are neither.
LEMMA SecretKeeps ==
  ASSUME RInv, FindSecret PROVE RInv'
<1>. DEFINE n == Len(js_secrets) + 1
<1>1. CASE Pass("secrets", "endpoints")
  BY <1>1, PassKeeps DEF Rules
<1>2. CASE ~Pass("secrets", "endpoints")
  <2>1. PICK kind \in SecretKinds :
          /\ js_secrets' = Append(js_secrets, kind)
          /\ IF Len(js_secrets) < SecretLimit
             THEN /\ checks' = Append(checks, Secret(kind, n))
                  /\ findings' = Append(findings, Secret(kind, n))
             ELSE UNCHANGED lists
    BY <1>2 DEF FindSecret
  <2>2. rule' = "secrets" /\ strong' = strong
    BY <1>2 DEF FindSecret
  <2>3. js_secrets \in Seq(SecretKinds) /\ Len(js_secrets) \in Nat
        /\ checks \in Seq(ToSet(checks)) /\ findings \in Seq(ToSet(findings))
    BY LenProperties DEF RInv, RTypeOk
  <2>4. js_secrets' \in Seq(SecretKinds) /\ strong' \subseteq {"schema", "introspection"}
    BY <2>1, <2>2, <2>3, AppendProperties DEF RInv, RTypeOk
  <2>5. StrongItems' = StrongItems \cup
            {x \in {Secret(kind, n)} : n <= SecretLimit /\ StrongKind(kind)}
    BY <2>1, <2>2, StrongGrows DEF RInv
  <2>6. rule' \in Rules \ {"target", "done"}
    BY <2>2 DEF Rules
  <2>7. CASE Len(js_secrets) < SecretLimit
    <3>. DEFINE x == Secret(kind, n)
    <3>1. /\ <<x>> \in Seq(ToSet(<<x>>)) /\ ToSet(<<x>>) = {x}
      BY Singly
    <3>2. checks' = checks \o <<x>> /\ findings' = findings \o <<x>>
      BY <2>1, <2>3, <2>7, Appended
    <3>3. ~Lone(x.title) /\ x.severity \in Severities
      BY <2>1, SecretShared
    <3>4. StrongName(x) \/ IsConfirmed(x) => StrongKind(kind)
      BY <2>1, WeakSecret DEF Plain
    <3>5. n <= SecretLimit
      BY <2>3, <2>7, LimitAssumption
    <3>. HIDE DEF x
    <3>6. StrongItems' = StrongItems \cup {y \in {x} : StrongKind(kind)}
      BY <2>5, <3>5 DEF x
    <3>7. \A y \in {x} : /\ y.severity \in Severities /\ ~Lone(y.title)
                         /\ StrongName(y) \/ IsConfirmed(y) => y \in StrongItems'
      BY <3>3, <3>4, <3>6
    <3>. QED
      BY <2>4, <2>6, <3>1, <3>2, <3>6, <3>7, Grown
  <2>8. CASE ~(Len(js_secrets) < SecretLimit)
    <3>1. ~(n <= SecretLimit)
      BY <2>3, <2>8, LimitAssumption
    <3>2. checks' = checks \o <<>> /\ findings' = findings \o <<>>
      BY <2>1, <2>3, <2>8, ConcatEmptySeq DEF lists
    <3>3. StrongItems' = StrongItems
      BY <2>5, <3>1
    <3>. QED
      BY <2>4, <2>6, <3>2, <3>3, Nothing, Grown
  <2>. QED
    BY <2>7, <2>8
<1>. QED
  BY <1>1, <1>2

\* The two entries of a public schema are strong.
LEMMA SchemaKeeps ==
  ASSUME RInv, ExposedSchema PROVE RInv'
<1>. DEFINE c == PublicSchema(1)
            f == PublicSchema(2)
            r == Exposure("OpenAPI Schema Detected", "API Documentation", "HIGH",
                          "HIGH", "public_schema")
<1>1. /\ checks' = checks \o r.checks /\ findings' = findings \o r.findings
      /\ strong' = strong \cup {"schema"} /\ UNCHANGED <<rule, js_secrets>>
      /\ rule = "exposures" /\ "schema" \notin strong
  BY DEF ExposedSchema
<1>2. r.checks = <<c>> /\ r.findings = <<f>>
  <2>1. r = Apart(c)
    BY DEF Exposure, PublicSchema
  <2>2. [c EXCEPT !.evidence = @ + 1] = f
    <3>. DEFINE T == {"OpenAPI Schema Detected", "API Documentation", "HIGH",
                      "public_schema", "", 1}
    <3>1. c \in [title : T, category : T, severity : T, evidence : T, confidence : T,
                 type : T, status : T]
      BY DEF PublicSchema, Entry
    <3>2. f = [title |-> c.title, category |-> c.category, severity |-> c.severity,
               evidence |-> 2, confidence |-> c.confidence, type |-> c.type,
               status |-> c.status]
      BY DEF PublicSchema, Entry
    <3>3. c.evidence + 1 = 2
      BY DEF PublicSchema, Entry
    <3>. HIDE DEF c, f, T
    <3>. QED
      BY <3>1, <3>2, <3>3, Copied
  <2>. HIDE DEF c, f, r
  <2>. QED
    BY <2>1, <2>2 DEF Apart, Both
<1>3. /\ <<c>> \in Seq(ToSet(<<c>>)) /\ ToSet(<<c>>) = {c}
      /\ <<f>> \in Seq(ToSet(<<f>>)) /\ ToSet(<<f>>) = {f}
  BY Singly
<1>4. StrongItems' = StrongItems \cup {c, f}
  <2>1. {PublicSchema(nr) : nr \in 1..2} = {c, f}
    OBVIOUS
  <2>. HIDE DEF c, f
  <2>. QED
    BY <1>1, <2>1 DEF StrongItems, Shown
<1>5. /\ c.severity \in Severities /\ f.severity \in Severities
      /\ Name(f) = Name(c) /\ ~Lone(f.title)
  BY DEF PublicSchema, Entry, Name, Severities, Lone, LoneNames
<1>6. /\ rule' \in Rules \ {"target", "done"} /\ js_secrets' \in Seq(SecretKinds)
      /\ strong' \subseteq {"schema", "introspection"}
  BY <1>1 DEF Rules, RInv, RTypeOk
<1>. HIDE DEF c, f, r
<1>7. \A x \in {c, f} : /\ x.severity \in Severities
                        /\ StrongName(x) \/ IsConfirmed(x) => x \in StrongItems'
  BY <1>4, <1>5
<1>. QED
  BY <1>1, <1>2, <1>3, <1>4, <1>5, <1>6, <1>7, Grown

\* So are the two of an open introspection, under a name each.
LEMMA GraphQLKeeps ==
  ASSUME RInv, GraphQL PROVE RInv'
<1>. DEFINE c == OpenIntrospection("GraphQL Introspection Enabled")
            f == OpenIntrospection("GraphQL Introspection Check")
            refused == GraphqlAnswer("GraphQL Introspection Check", "INFO", "status_code")
<1>0. "context" \in Rules \ {"target", "done"}
  BY DEF Rules
<1>1. CASE Pass("graphql", "context")
  BY <1>0, <1>1, PassKeeps
<1>2. CASE Report("graphql", "context", {Finding(refused)})
  <2>1. Plain(refused) /\ ~Lone(refused.title)
    BY DEF GraphqlAnswer, Entry, Plain, StrongName, IsConfirmed, Severities, Lone, LoneNames
  <2>. HIDE DEF refused
  <2>2. \A r \in {Finding(refused)} : Fits(r)
    BY <2>1, FindingFits
  <2>. QED
    BY <1>0, <1>2, <2>2, ReportKeeps
<1>3. CASE /\ At("graphql", "context")
           /\ checks' = Append(checks, c) /\ findings' = Append(findings, f)
           /\ strong' = strong \cup {"introspection"} /\ UNCHANGED js_secrets
  <2>1. /\ <<c>> \in Seq(ToSet(<<c>>)) /\ ToSet(<<c>>) = {c}
        /\ <<f>> \in Seq(ToSet(<<f>>)) /\ ToSet(<<f>>) = {f}
    BY Singly
  <2>2. /\ c.severity \in Severities /\ f.severity \in Severities
        /\ Name(c) \in LoneNames /\ ~Lone(f.title)
    BY DEF OpenIntrospection, GraphqlAnswer, Entry, Name, Severities, Lone, LoneNames
  <2>. HIDE DEF c, f
  <2>3. StrongItems' = StrongItems \cup {c, f}
    BY <1>3 DEF StrongItems, Shown, c, f
  <2>4. checks' = checks \o <<c>> /\ findings' = findings \o <<f>>
    BY <1>3, Appended DEF RInv, RTypeOk
  <2>5. /\ rule' \in Rules \ {"target", "done"} /\ js_secrets' \in Seq(SecretKinds)
        /\ strong' \subseteq {"schema", "introspection"}
    BY <1>0, <1>3 DEF At, RInv, RTypeOk
  <2>6. \A x \in {c, f} : /\ x.severity \in Severities
                          /\ StrongName(x) \/ IsConfirmed(x) => x \in StrongItems'
    BY <2>2, <2>3
  <2>. QED
    BY <2>1, <2>2, <2>3, <2>4, <2>5, <2>6, Grown
<1>. QED
  BY <1>1, <1>2, <1>3 DEF GraphQL, Once, OpenIntrospection

\* The report is assembled from lists that stay as they are.
LEMMA AssembleKeeps ==
  ASSUME RInv, Assemble PROVE RInv'
<1>1. /\ UNCHANGED <<checks, findings, js_secrets, strong>> /\ rule' = "done"
      /\ result' = Assembled
  BY DEF Assemble, At, lists
<1>2. /\ StrongItems' = StrongItems /\ Reported' = Reported
      /\ Combined' = Combined /\ Stored' = Stored
  BY <1>1 DEF StrongItems, Shown, Reported, Combined, Stored, StoredFindings
<1>3. Assembled' = Assembled
  BY <1>2 DEF Assembled, Sorted
<1>4. RTypeOk' /\ ConfirmedRight' /\ ChecksMatched'
  BY <1>1, <1>2 DEF RInv, RTypeOk, ConfirmedRight, ChecksMatched, Rules
<1>5. StartsEmpty' /\ ResultRight'
  BY <1>1, <1>3 DEF StartsEmpty, ResultRight
<1>. QED
  BY <1>4, <1>5 DEF RInv

\* Nothing changes the report afterwards.
LEMMA StutterKeeps ==
  ASSUME RInv, UNCHANGED rvars PROVE RInv'
<1>1. UNCHANGED <<rule, checks, findings, js_secrets, strong, result>>
  BY DEF rvars, lists
<1>2. /\ StrongItems' = StrongItems /\ Reported' = Reported
      /\ Combined' = Combined /\ Stored' = Stored
  BY <1>1 DEF StrongItems, Shown, Reported, Combined, Stored, StoredFindings
<1>3. Assembled' = Assembled
  BY <1>2 DEF Assembled, Sorted
<1>4. RTypeOk' /\ ConfirmedRight' /\ ChecksMatched'
  BY <1>1, <1>2 DEF RInv, RTypeOk, ConfirmedRight, ChecksMatched
<1>5. StartsEmpty' /\ ResultRight'
  BY <1>1, <1>3 DEF RInv, StartsEmpty, ResultRight, Analyzed
<1>. QED
  BY <1>4, <1>5 DEF RInv

\* The invariant holds before the first rule.
LEMMA RInvInit == RInit => RInv
<1>. SUFFICES ASSUME RInit PROVE RInv
  OBVIOUS
<1>1. /\ rule = "target" /\ checks = <<>> /\ findings = <<>> /\ js_secrets = <<>>
      /\ strong = {}
  BY DEF RInit
<1>2. ToSet(checks) = {} /\ ToSet(findings) = {} /\ checks \in Seq({}) /\ findings \in Seq({})
  BY <1>1, Nothing
<1>3. Reported = {}
  BY <1>2, ConcatHolds DEF Reported
<1>4. StrongItems = {}
  BY <1>1 DEF StrongItems, Shown
<1>5. js_secrets \in Seq(SecretKinds)
  BY <1>1
<1>6. RTypeOk
  BY <1>1, <1>2, <1>3, <1>5 DEF RTypeOk, Rules
<1>7. StartsEmpty /\ ConfirmedRight /\ ChecksMatched /\ ResultRight
  BY <1>1, <1>2, <1>3, <1>4
     DEF StartsEmpty, ConfirmedRight, ChecksMatched, ResultRight, Analyzed
<1>. QED
  BY <1>6, <1>7 DEF RInv

\* A rule that reports what fits, or goes on, keeps the invariant.
LEMMA RulesKeep ==
  ASSUME RInv, NEW here, NEW again \in Rules \ {"target", "done"},
         NEW there \in Rules \ {"target", "done"}, NEW reported,
         \A r \in reported : Fits(r),
         Report(here, again, reported) \/ Pass(here, there)
  PROVE  RInv'
BY ReportKeeps, PassKeeps

\* Every rule keeps it.
LEMMA RInvStep == RInv /\ [RNext]_rvars => RInv'
<1>. SUFFICES ASSUME RInv, [RNext]_rvars PROVE RInv'
  OBVIOUS
<1>0. {"response", "secrets", "endpoints", "validation", "listing", "host", "paths",
       "wordpress", "exposures", "graphql", "context", "cves", "conclude"}
         \subseteq Rules \ {"target", "done"}
  BY DEF Rules
<1>1. CASE Unresolvable
  BY <1>1, UnresolvableKeeps
<1>2. CASE Reach
  <2>1. Fits(Twin(Item("Website Not Reachable", "Availability", "MEDIUM", 1)))
    BY TwinFits DEF Item, Entry, Plain, StrongName, IsConfirmed, Severities, Lone, LoneNames
  <2>. QED
    BY <1>0, <1>2, <2>1, ReportKeeps, PassKeeps DEF Reach
<1>3. CASE Response
  BY <1>0, <1>3, ResponseFits, RulesKeep DEF Response, Each
<1>4. CASE FindSecret
  BY <1>4, SecretKeeps
<1>5. CASE Endpoints
  BY <1>0, <1>5, EndpointsFit, RulesKeep DEF Endpoints, Each
<1>6. CASE Validation
  BY <1>0, <1>6, ValidationFits, RulesKeep DEF Validation, Each
<1>7. CASE Listing
  BY <1>0, <1>7, ListingFits, ReportKeeps, PassKeeps DEF Listing, Once
<1>8. CASE Host
  BY <1>0, <1>8, HostFits, RulesKeep DEF Host, Each
<1>9. CASE Paths
  BY <1>0, <1>9, PathsFit, RulesKeep DEF Paths, Each
<1>10. CASE WordPress
  BY <1>0, <1>10, WordPressFits, RulesKeep DEF WordPress, Each
<1>11. CASE Exposures
  BY <1>0, <1>11, ExposuresFit, RulesKeep DEF Exposures, Each
<1>12. CASE ExposedSchema
  BY <1>12, SchemaKeeps
<1>13. CASE GraphQL
  BY <1>13, GraphQLKeeps
<1>14. CASE Context
  BY <1>0, <1>14, ContextFits, RulesKeep DEF Context, Each
<1>15. CASE Cves
  BY <1>0, <1>15, CvesFit, RulesKeep DEF Cves, Each
<1>16. CASE Assemble
  BY <1>16, AssembleKeeps
<1>17. CASE UNCHANGED rvars
  BY <1>17, StutterKeeps
<1>. QED
  BY <1>1, <1>2, <1>3, <1>4, <1>5, <1>6, <1>7, <1>8, <1>9, <1>10, <1>11, <1>12, <1>13,
     <1>14, <1>15, <1>16, <1>17 DEF RNext

\* The inductive invariant holds of every report: the lists hold exactly the strong
\* items the probes saw, and every check has a finding of its name or a name no
\* finding has (the rules of analyze, analyzer.py 4412-5245).
THEOREM RInvariance == RSpec => []RInv
BY RInvInit, RInvStep, PTL DEF RSpec

-----------------------------------------------------------------------------
(* the report *)

\* What the pass over the lists starts from.
LEMMA CombinedOnce ==
  ASSUME RInv
  PROVE  /\ Combined \subseteq Reported
         /\ \A x \in Reported : \E y \in Combined : Key(y) = Key(x)
         /\ \A x, y \in Combined : Key(x) = Key(y) => x = y
<1>1. checks \o findings \in Seq(ToSet(checks \o findings))
  BY Joined DEF RInv, RTypeOk
<1>. QED
  BY <1>1, KeptOnce DEF Combined, Reported

\* A reported thing with the key of a strong item is that item.
LEMMA StrongAlone ==
  ASSUME RInv, NEW x \in StrongItems, NEW y \in Reported, Key(y) = Key(x)
  PROVE  x = y
<1>1. StrongName(x)
  BY StrongConfirmed DEF RInv
<1>2. y.title = x.title /\ y.severity = x.severity
  BY DEF Key
<1>3. StrongName(y)
  BY <1>1, <1>2 DEF StrongName
<1>4. y \in StrongItems
  BY <1>3 DEF RInv, ConfirmedRight
<1>. QED
  BY <1>4, StrongKeys DEF RInv

\* Each item has one section, and the confirmed one takes what the strict rule takes.
LEMMA Sections ==
  ASSUME NEW x
  PROVE  /\ Section(x) \in {"confirmed", "possible", "hardening", "surface", "informational"}
         /\ Section(x) = "confirmed" <=> IsConfirmed(x)
BY DEF Section

\* The confirmed section is made of the strong items.
LEMMA ConfirmedIsStrong ==
  ASSUME RInv PROVE {x \in Combined : Section(x) = "confirmed"} = StrongItems
<1>1. ASSUME NEW x \in Combined, Section(x) = "confirmed" PROVE x \in StrongItems
  <2>1. x \in Reported /\ IsConfirmed(x)
    BY <1>1, CombinedOnce, Sections
  <2>. QED
    BY <2>1 DEF RInv, ConfirmedRight
<1>2. ASSUME NEW x \in StrongItems PROVE x \in Combined /\ Section(x) = "confirmed"
  <2>1. x \in Reported
    BY DEF RInv, ConfirmedRight
  <2>2. PICK y \in Combined : Key(y) = Key(x)
    BY <2>1, CombinedOnce
  <2>3. x = y
    BY <2>2, CombinedOnce, StrongAlone
  <2>4. Section(x) = "confirmed"
    BY StrongConfirmed, Sections DEF RInv
  <2>. QED
    BY <2>2, <2>3, <2>4
<1>. QED
  BY <1>1, <1>2

\* What is returned, section by section.
LEMMA ResultIs ==
  ASSUME RInv, Analyzed
  PROVE  /\ \A n \in 1..5 : SectionsOf(result)[n] = {x \in Combined : Section(x) =
               <<"confirmed", "possible", "hardening", "surface", "informational">>[n]}
         /\ result.confirmed = StrongItems /\ result.stored = Stored
         /\ result.score = StrictScore(StrongItems) /\ result.risk = Risk(result.score)
<1>. DEFINE In(section) == {x \in Combined : Section(x) = section}
<1>1. /\ Sorted["confirmed"] = In("confirmed") /\ Sorted["possible"] = In("possible")
      /\ Sorted["hardening"] = In("hardening") /\ Sorted["surface"] = In("surface")
      /\ Sorted["informational"] = In("informational")
  BY DEF Sorted
<1>2. In("confirmed") = StrongItems
  BY ConfirmedIsStrong
<1>. HIDE DEF In
<1>3. result = Assembled
  BY DEF RInv, ResultRight
<1>4. /\ result.confirmed = In("confirmed") /\ result.possible = In("possible")
      /\ result.hardening = In("hardening") /\ result.surface = In("surface")
      /\ result.informational = In("informational")
      /\ result.stored = Stored
      /\ result.score = StrictScore(In("confirmed")) /\ result.risk = Risk(result.score)
  BY <1>1, <1>3 DEF Assembled
<1>5. \A n \in 1..5 : SectionsOf(result)[n] = In(
         <<"confirmed", "possible", "hardening", "surface", "informational">>[n])
  BY <1>4 DEF SectionsOf
<1>. QED
  BY <1>2, <1>4, <1>5 DEF In

\* Of each key one item is kept, in one section.
LEMMA NothingLostHolds == RInv => NothingLost
<1>. SUFFICES ASSUME RInv, Analyzed, NEW x \in Reported
     PROVE  LET here == {n \in 1..5 : \E y \in SectionsOf(result)[n] :
                           /\ y.title = x.title /\ y.severity = x.severity
                           /\ y.evidence = x.evidence}
            IN /\ Cardinality(here) = 1
               /\ x.type \in StrongEvidence /\ x.confidence = "HIGH"
                     /\ x.severity \in {"CRITICAL", "HIGH"} => here = {1}
  BY DEF NothingLost
<1>. DEFINE names == <<"confirmed", "possible", "hardening", "surface", "informational">>
            here == {n \in 1..5 : \E y \in SectionsOf(result)[n] :
                        /\ y.title = x.title /\ y.severity = x.severity
                        /\ y.evidence = x.evidence}
<1>1. PICK z \in Combined : Key(z) = Key(x)
  BY CombinedOnce
<1>2. PICK m \in 1..5 : Section(z) = names[m]
  BY Sections
<1>3. \A n \in 1..5 : names[n] = names[m] => n = m
  OBVIOUS
<1>4. \A n \in 1..5 : n \in here <=> \E y \in Combined : Section(y) = names[n] /\ Key(y) = Key(x)
  <2>1. \A n \in 1..5 : SectionsOf(result)[n] = {y \in Combined : Section(y) = names[n]}
    BY ResultIs
  <2>. HIDE DEF names
  <2>. QED
    BY <2>1 DEF Key
<1>. HIDE DEF names
<1>5. \A y \in Combined : Key(y) = Key(x) => y = z
  BY <1>1, CombinedOnce
<1>6. here = {m}
  <2>1. \A n \in 1..5 : n \in here <=> Section(z) = names[n]
    BY <1>1, <1>4, <1>5
  <2>2. here \subseteq 1..5
    OBVIOUS
  <2>. HIDE DEF here
  <2>. QED
    BY <1>2, <1>3, <2>1, <2>2
<1>. HIDE DEF here
<1>7. Cardinality(here) = 1
  BY <1>6, FS_Singleton
<1>8. ASSUME IsConfirmed(x) PROVE here = {1}
  <2>1. x \in StrongItems
    BY <1>8 DEF RInv, ConfirmedRight
  <2>2. z = x
    BY <1>1, <2>1, CombinedOnce, StrongAlone
  <2>3. names[m] = names[1]
    BY <1>2, <1>8, <2>2, Sections DEF names
  <2>. QED
    BY <1>3, <1>6, <2>3
<1>. QED
  BY <1>7, <1>8 DEF IsConfirmed, here

\* Each thing reported is in one section of the report, the confirmed one when a copy
\* of it has strong evidence (dedupe_dicts and separate_results, analyzer.py 430-441,
\* 3067-3175).
THEOREM NothingIsLost == RSpec => []NothingLost
BY RInvariance, NothingLostHolds, PTL

\* The first check of a title.
LEMMA FirstCheck ==
  ASSUME RInv, NEW x \in ToSet(checks)
  PROVE  \E i \in DOMAIN checks : /\ checks[i].title = x.title
                                  /\ \A j \in 1..(i - 1) : checks[j].title # checks[i].title
<1>. DEFINE T == {i \in DOMAIN checks : checks[i].title = x.title}
<1>1. DOMAIN checks = 1..Len(checks) /\ Len(checks) \in Nat
  BY LenProperties DEF RInv, RTypeOk
<1>2. T # {} /\ T \subseteq Nat
  BY <1>1 DEF ToSet
<1>3. PICK m \in T : \A k \in T : m <= k
  BY <1>2, Least
<1>4. ASSUME NEW j \in 1..(m - 1), checks[j].title = checks[m].title PROVE FALSE
  <2>1. j \in DOMAIN checks /\ j < m
    BY <1>1, <1>3
  <2>2. j \in T
    BY <1>3, <1>4, <2>1
  <2>. QED
    BY <1>1, <1>3, <2>1, <2>2
<1>. QED
  BY <1>3, <1>4

\* The name of such a check settles its severity.
LEMMA LoneSeverity ==
  ASSUME NEW title, NEW s, NEW t, <<title, s>> \in LoneNames, <<title, t>> \in LoneNames
  PROVE  s = t
BY DEF LoneNames

\* A finding is stored by its key, and a check by its finding or its name.
LEMMA StoredHolds == RInv => StoredAsReported
<1>. SUFFICES ASSUME RInv, Analyzed, NEW x \in Reported
     PROVE  \E row \in Stored : Name(row) = Name(x)
  BY ResultIs DEF StoredAsReported, Name
<1>1. findings \in Seq(ToSet(findings)) /\ Reported = ToSet(checks) \cup ToSet(findings)
  BY ReportedIs DEF RInv, RTypeOk
<1>2. ASSUME NEW f \in ToSet(findings)
      PROVE  \E row \in Stored : Name(row) = Name(f)
  <2>1. PICK row \in Kept(findings) : Key(row) = Key(f)
    BY <1>1, KeptOnce
  <2>. QED
    BY <2>1 DEF Key, Name, Stored, StoredFindings
<1>3. ASSUME x \in ToSet(checks), Name(x) \in LoneNames
      PROVE  \E row \in Stored : Name(row) = Name(x)
  <2>1. PICK i \in DOMAIN checks : /\ checks[i].title = x.title
                                   /\ \A j \in 1..(i - 1) : checks[j].title # checks[i].title
    BY <1>3, FirstCheck
  <2>. DEFINE c == checks[i]
  <2>2. Lone(c.title)
    BY <1>1, <1>3, <2>1 DEF Lone, Name, RInv, RTypeOk
  <2>3. \A f \in ToSet(findings) : f.title # c.title
    BY <2>2 DEF RInv, ChecksMatched
  <2>4. c \in ToSet(checks)
    BY DEF ToSet
  <2>5. Name(c) \in LoneNames
    BY <2>3, <2>4 DEF RInv, ChecksMatched, Name
  <2>6. Name(c) = Name(x)
    BY <1>3, <2>1, <2>5, LoneSeverity DEF Name
  <2>7. c \in Stored
    BY <2>1, <2>3 DEF Stored
  <2>. QED
    BY <2>6, <2>7
<1>. QED
  BY <1>1, <1>2, <1>3 DEF RInv, ChecksMatched

\* Every title is stored with every severity it was reported at, although checks
\* under a name stored already are dropped (build_structured_storage, analyzer.py
\* 2741-2813).
THEOREM ReportIsStored == RSpec => []StoredAsReported
BY RInvariance, StoredHolds, PTL

\* The items of the secrets shown under a title.
SecretItems(title) == {Secret(js_secrets[i], i) : i \in Shown(title)}

\* There are as many items of a title as secrets shown under it.
LEMMA SecretsCounted ==
  ASSUME RTypeOk, NEW title
  PROVE  /\ IsFiniteSet(SecretItems(title))
         /\ Cardinality(SecretItems(title)) = Cardinality(Shown(title))
         /\ Cardinality(Shown(title)) \in Nat
<1>1. DOMAIN js_secrets = 1..Len(js_secrets) /\ Len(js_secrets) \in Nat
  BY LenProperties DEF RTypeOk
<1>2. IsFiniteSet(Shown(title))
  <2>1. IsFiniteSet(1..Len(js_secrets))
    BY <1>1, FS_Interval
  <2>2. Shown(title) \in SUBSET (1..Len(js_secrets))
    BY <1>1 DEF Shown
  <2>. QED
    BY <2>1, <2>2, FS_Subset
<1>. DEFINE f == [i \in Shown(title) |-> Secret(js_secrets[i], i)]
<1>3. \A i \in Shown(title) : f[i].evidence = i
  <2>1. \A i \in Shown(title) : Secret(js_secrets[i], i).evidence = i
    BY SecretFields
  <2>. QED
    BY <2>1
<1>4. f \in [Shown(title) -> SecretItems(title)]
  BY DEF SecretItems
<1>5. \A x \in SecretItems(title) : \E i \in Shown(title) : f[i] = x
  BY DEF SecretItems
<1>. HIDE DEF f
<1>6. \A i, j \in Shown(title) : f[i] = f[j] => i = j
  BY <1>3
<1>7. f \in Bijection(Shown(title), SecretItems(title))
  BY <1>4, <1>5, <1>6 DEF Bijection, Injection, Surjection, IsInjective
<1>8. ExistsBijection(Shown(title), SecretItems(title))
  BY <1>7 DEF ExistsBijection
<1>. QED
  BY <1>2, <1>8, FS_Bijection, FS_CardinalityType

\* Two different things.
LEMMA Pair ==
  ASSUME NEW a, NEW b, a # b
  PROVE  IsFiniteSet({a, b}) /\ Cardinality({a, b}) = 2
<1>1. IsFiniteSet({a}) /\ Cardinality({a}) = 1
  BY FS_Singleton
<1>2. {a, b} = {a} \cup {b} /\ b \notin {a}
  OBVIOUS
<1>3. IsFiniteSet({a} \cup {b}) /\ Cardinality({a} \cup {b}) = 1 + 1
  BY <1>1, <1>2, FS_AddElement
<1>. QED
  BY <1>2, <1>3

\* Sets without a common element.
LEMMA Disjoint ==
  ASSUME NEW S, NEW T, IsFiniteSet(S), IsFiniteSet(T), S \cap T = {}
  PROVE  /\ IsFiniteSet(S \cup T)
         /\ Cardinality(S \cup T) = Cardinality(S) + Cardinality(T)
<1>1. Cardinality(S \cap T) = 0
  BY FS_EmptySet
<1>2. Cardinality(S) \in Nat /\ Cardinality(T) \in Nat
  BY FS_CardinalityType
<1>3. /\ IsFiniteSet(S \cup T)
      /\ Cardinality(S \cup T) = Cardinality(S) + Cardinality(T) - Cardinality(S \cap T)
  BY FS_Union
<1>. QED
  BY <1>1, <1>2, <1>3

\* The items of the two other strong probes.
SchemaItems == IF "schema" \in strong THEN {PublicSchema(nr) : nr \in 1..2} ELSE {}
IntrospectionItems ==
    IF "introspection" \in strong
    THEN {OpenIntrospection("GraphQL Introspection Enabled"),
          OpenIntrospection("GraphQL Introspection Check")} ELSE {}

\* Each of the two other probes with strong evidence counts twice.
LEMMA StrongCounted ==
  ASSUME RTypeOk
  PROVE  /\ IsFiniteSet(SchemaItems) /\ IsFiniteSet(IntrospectionItems)
         /\ Cardinality(SchemaItems) \in Nat /\ Cardinality(IntrospectionItems) \in Nat
         /\ Cardinality(SchemaItems) + Cardinality(IntrospectionItems)
               = 2 * Cardinality(strong)
<1>. DEFINE s == IF "schema" \in strong THEN 1 ELSE 0
            t == IF "introspection" \in strong THEN 1 ELSE 0
<1>1. IsFiniteSet(SchemaItems) /\ Cardinality(SchemaItems) = 2 * s
  <2>1. {PublicSchema(nr) : nr \in 1..2} = {PublicSchema(1), PublicSchema(2)}
    OBVIOUS
  <2>2. PublicSchema(1) # PublicSchema(2)
    <3>1. PublicSchema(1).evidence = 1 /\ PublicSchema(2).evidence = 2
      BY DEF PublicSchema, Entry
    <3>. QED
      BY <3>1
  <2>3. /\ IsFiniteSet({PublicSchema(nr) : nr \in 1..2})
        /\ Cardinality({PublicSchema(nr) : nr \in 1..2}) = 2
    BY <2>1, <2>2, Pair
  <2>. QED
    BY <2>3, FS_EmptySet DEF SchemaItems
<1>2. IsFiniteSet(IntrospectionItems) /\ Cardinality(IntrospectionItems) = 2 * t
  <2>. DEFINE a == OpenIntrospection("GraphQL Introspection Enabled")
              b == OpenIntrospection("GraphQL Introspection Check")
  <2>1. a.title = "GraphQL Introspection Enabled" /\ b.title = "GraphQL Introspection Check"
    BY IntrospectionItem
  <2>2. a # b
    BY <2>1
  <2>. HIDE DEF a, b
  <2>3. IsFiniteSet({a, b}) /\ Cardinality({a, b}) = 2
    BY <2>2, Pair
  <2>4. IntrospectionItems = IF "introspection" \in strong THEN {a, b} ELSE {}
    BY DEF IntrospectionItems, a, b
  <2>. QED
    BY <2>3, <2>4, FS_EmptySet
<1>3. Cardinality(strong) = s + t
  <2>1. strong = {} \/ strong = {"schema"} \/ strong = {"introspection"}
           \/ strong = {"schema", "introspection"}
    BY DEF RTypeOk
  <2>2. /\ Cardinality({}) = 0 /\ Cardinality({"schema"}) = 1
        /\ Cardinality({"introspection"}) = 1
        /\ Cardinality({"schema", "introspection"}) = 2
    BY Pair, FS_EmptySet, FS_Singleton
  <2>. QED
    BY <2>1, <2>2
<1>. QED
  BY <1>1, <1>2, <1>3

\* The critical ones are the private keys, and all others are high.
LEMMA RatedStrong ==
  ASSUME RTypeOk
  PROVE  /\ {x \in StrongItems : x.severity = "CRITICAL"} = SecretItems("Private Key")
         /\ {x \in StrongItems : x.severity = "HIGH"}
               = SecretItems("AWS Access Key") \cup SchemaItems \cup IntrospectionItems
         /\ {x \in StrongItems : x.severity = "MEDIUM"} = {}
         /\ {x \in StrongItems : x.severity = "LOW"} = {}
         /\ SecretItems("AWS Access Key") \cap SchemaItems = {}
         /\ (SecretItems("AWS Access Key") \cup SchemaItems) \cap IntrospectionItems = {}
<1>1. StrongItems = SecretItems("Private Key") \cup SecretItems("AWS Access Key")
                       \cup SchemaItems \cup IntrospectionItems
  BY DEF StrongItems, SecretItems, SchemaItems, IntrospectionItems
<1>2. ASSUME NEW title \in {"Private Key", "AWS Access Key"}, NEW x \in SecretItems(title)
      PROVE  x.title = title
  <2>1. PICK i \in Shown(title) : x = Secret(js_secrets[i], i)
    BY DEF SecretItems
  <2>2. js_secrets[i].title = title
    BY DEF Shown
  <2>. QED
    BY <2>1, <2>2, SecretFields
<1>3. \A x \in SecretItems("Private Key") : x.severity = "CRITICAL"
  BY <1>1, <1>2, StrongNames
<1>4. \A x \in SecretItems("AWS Access Key") : x.severity = "HIGH"
  BY <1>1, <1>2, StrongNames
<1>5. \A x \in SchemaItems : x.title = "OpenAPI Schema Detected" /\ x.severity = "HIGH"
  BY SchemaItem DEF SchemaItems
<1>6. \A x \in IntrospectionItems :
         /\ x.title \in {"GraphQL Introspection Enabled", "GraphQL Introspection Check"}
         /\ x.severity = "HIGH"
  BY IntrospectionItem DEF IntrospectionItems
<1>7. {x \in StrongItems : x.severity = "CRITICAL"} = SecretItems("Private Key")
  BY <1>1, <1>3, <1>4, <1>5, <1>6
<1>8. {x \in StrongItems : x.severity = "HIGH"}
         = SecretItems("AWS Access Key") \cup SchemaItems \cup IntrospectionItems
  BY <1>1, <1>3, <1>4, <1>5, <1>6
<1>9. /\ {x \in StrongItems : x.severity = "MEDIUM"} = {}
      /\ {x \in StrongItems : x.severity = "LOW"} = {}
  BY <1>1, <1>3, <1>4, <1>5, <1>6
<1>10. /\ SecretItems("AWS Access Key") \cap SchemaItems = {}
       /\ (SecretItems("AWS Access Key") \cup SchemaItems) \cap IntrospectionItems = {}
  BY <1>2, <1>5, <1>6
<1>. QED
  BY <1>7, <1>8, <1>9, <1>10

\* The score counts the strong items, each by its severity.
LEMMA ScoreHolds == RInv => ScoreFollowsObservations
<1>. SUFFICES ASSUME RInv, Analyzed
     PROVE  /\ result.score = AtMost100(45 * Cardinality(Shown("Private Key"))
                                        + 30 * Cardinality(Shown("AWS Access Key"))
                                        + 60 * Cardinality(strong))
            /\ result.risk = Risk(result.score)
  BY DEF ScoreFollowsObservations
<1>. DEFINE p == Cardinality(Shown("Private Key"))
            a == Cardinality(Shown("AWS Access Key"))
            s == Cardinality(SchemaItems)
            t == Cardinality(IntrospectionItems)
            H == SecretItems("AWS Access Key") \cup SchemaItems
<1>0. RTypeOk
  BY DEF RInv
<1>1. Rated(StrongItems, "CRITICAL") = p
  BY <1>0, RatedStrong, SecretsCounted DEF Rated
<1>2. Rated(StrongItems, "HIGH") = a + s + t
  <2>1. IsFiniteSet(H) /\ Cardinality(H) = a + s
    BY <1>0, RatedStrong, SecretsCounted, StrongCounted, Disjoint
  <2>2. Cardinality(H \cup IntrospectionItems) = Cardinality(H) + t
    BY <1>0, <2>1, RatedStrong, StrongCounted, Disjoint
  <2>. QED
    BY <1>0, <2>1, <2>2, RatedStrong DEF Rated
<1>3. Rated(StrongItems, "MEDIUM") = 0 /\ Rated(StrongItems, "LOW") = 0
  BY <1>0, RatedStrong, FS_EmptySet DEF Rated
<1>4. p \in Nat /\ a \in Nat /\ s \in Nat /\ t \in Nat /\ s + t = 2 * Cardinality(strong)
  BY <1>0, SecretsCounted, StrongCounted
<1>5. Cardinality(strong) \in Nat
  <2>1. IsFiniteSet({"schema", "introspection"}) /\ strong \in SUBSET {"schema", "introspection"}
    BY <1>0, Pair DEF RTypeOk
  <2>. QED
    BY <2>1, FS_Subset, FS_CardinalityType
<1>. HIDE DEF p, a, s, t
<1>6. 45 * p + 30 * (a + s + t) + 12 * 0 + 3 * 0 = 45 * p + 30 * a + 60 * Cardinality(strong)
  BY <1>4, <1>5
<1>7. StrictScore(StrongItems) = AtMost100(45 * p + 30 * (a + s + t) + 12 * 0 + 3 * 0)
  BY <1>1, <1>2, <1>3 DEF StrictScore
<1>. QED
  BY <1>6, <1>7, ResultIs DEF p, a

\* The score is 45 for each private key and 30 for each real secret among those
\* reported, and 60 for a public schema and for open introspection, whatever else
\* was reported (calculate_strict_score, analyzer.py 3178-3207).
THEOREM ScoreFollows == RSpec => []ScoreFollowsObservations
BY RInvariance, ScoreHolds, PTL
=============================================================================
