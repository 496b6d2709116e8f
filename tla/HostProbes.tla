----------------------------- MODULE HostProbes -----------------------------
(***************************************************************************)
(* How analyze of backend/analyzer.py finds the open ports of a host and   *)
(* runs its external programs: a socket probe per port and an nmap thread  *)
(* side by side, with a fallback to sockets when nmap shows nothing; then  *)
(* wpscan; then dirsearch, which leaves its results in a temporary file.   *)
(*                                                                         *)
(* A_x is A with the mistake x in it; no specification uses it.            *)
(***************************************************************************)
EXTENDS Naturals, FiniteSets

CONSTANTS
    Common,   \* COMMON_PORTS
    Risky     \* RISKY_PORTS

ASSUME PortsAssumption == Common \subseteq Nat /\ Risky \subseteq Nat

VARIABLES
    pc,          \* what analyze waits for
    profile,     \* "deep" is "full" here
    listening,   \* the open ports of the host
    probe,       \* check_port of each port: the next attempt, or its answer
    nmap,        \* run_nmap_scan: where it is, and its result
    open_ports,
    scan_ports,  \* structured["scan_ports"]
    wpscan, dirsearch,
    file,        \* the temporary file of dirsearch
    lost         \* history: lost attempts of the probe and of the fallback

tools == <<wpscan, dirsearch, file>>
vars == <<pc, profile, listening, probe, nmap, open_ports, scan_ports, tools, lost>>

Ports == Common \cup Risky
Attempts == {"first", "second"}
\* the ports nmap and the fallback try
Tried == IF profile = "quick" THEN Common ELSE Ports

Tool == [executed : BOOLEAN, found : BOOLEAN,
         error : {"", "missing", "failed", "unreadable"}, skipped : BOOLEAN]
NotRun == [executed |-> FALSE, found |-> FALSE, error |-> "", skipped |-> FALSE]

Init ==
    /\ pc = "probing"
    /\ profile \in {"quick", "full"} /\ listening \in SUBSET Ports
    /\ probe = [p \in Ports |-> "first"]
    /\ nmap = [at |-> "job", todo |-> Tried, attempt |-> "first", ports |-> {},
               source |-> "nmap", enabled |-> FALSE, error |-> "", summary |-> "none"]
    /\ open_ports = {} /\ scan_ports = {}
    /\ wpscan = NotRun /\ dirsearch = NotRun /\ file = "none"
    /\ lost = [x \in {"probe", "fallback"} \X Ports |-> 0]

-----------------------------------------------------------------------------
(* check_port, for one of its two callers *)

\* The exception of the first attempt ends the loop.
CheckPort_once(who, p, attempt, answer) ==
    \/ p \in listening /\ answer = "open" /\ UNCHANGED lost
    \/ /\ answer = "none"
       /\ lost' = IF p \in listening THEN [lost EXCEPT ![<<who, p>>] = @ + 1] ELSE lost
\* Connected; or any exception, which a second attempt follows once: refused,
\* timed out, or reset while the connection was closed again, though open.
CheckPort(who, p, attempt, answer) ==
    \/ p \in listening /\ answer = "open" /\ UNCHANGED lost
    \/ /\ answer = IF attempt = "first" THEN "second" ELSE "none"
       /\ lost' = IF p \in listening THEN [lost EXCEPT ![<<who, p>>] = @ + 1] ELSE lost

Probe(p) ==
    /\ pc = "probing" /\ probe[p] \in Attempts
    /\ \E answer \in {"second", "none", "open"} :
          /\ CheckPort("probe", p, probe[p], answer)
          /\ probe' = [probe EXCEPT ![p] = answer]
    /\ UNCHANGED <<pc, profile, listening, nmap, open_ports, scan_ports, tools>>

-----------------------------------------------------------------------------
(* run_nmap_scan *)

others == <<pc, profile, listening, probe, open_ports, scan_ports, tools>>

\* python-nmap or nmap is not installed, the run raises, or shows no host.
NmapFails ==
    /\ nmap.at = "job"
    /\ \E error \in {"unavailable", "raised", "no host"} :
          nmap' = [nmap EXCEPT !.at = "fallback", !.error = error,
                               !.enabled = (error = "no host")]
    /\ UNCHANGED <<others, lost>>

\* nmap sees some of the ports open, and the fallback is not needed; or it sees
\* none, filtered, closed, or given up.
NmapReports ==
    /\ nmap.at = "job"
    /\ \E seen \in SUBSET (listening \cap Tried) :
       \E summary \in IF seen = {} THEN {"none", "filtered", "closed"} ELSE {"none"} :
          nmap' = [nmap EXCEPT !.at = IF seen = {} THEN "fallback" ELSE "done",
                               !.ports = seen, !.enabled = TRUE, !.summary = summary]
    /\ UNCHANGED <<others, lost>>

\* The fallback tries one port after the other.
Fallback(p) ==
    /\ nmap.at = "fallback" /\ p \in nmap.todo
    /\ \A q \in nmap.todo : p <= q
    /\ \E answer \in {"second", "none", "open"} :
          /\ CheckPort("fallback", p, nmap.attempt, answer)
          /\ nmap' = IF answer = "second" THEN [nmap EXCEPT !.attempt = "second"]
                     ELSE [nmap EXCEPT !.attempt = "first", !.todo = @ \ {p},
                              !.ports = IF answer = "open" THEN @ \cup {p} ELSE @]
    /\ UNCHANGED others

\* The error of nmap is kept although the sockets found ports.
FallbackDone_sticky ==
    /\ nmap.at = "fallback" /\ nmap.todo = {}
    /\ nmap' = [nmap EXCEPT !.at = "done", !.source = "socket-fallback"]
    /\ UNCHANGED <<others, lost>>
FallbackDone ==
    /\ nmap.at = "fallback" /\ nmap.todo = {}
    /\ nmap' = [nmap EXCEPT
          !.at = "done", !.source = "socket-fallback",
          !.enabled = @ \/ nmap.ports # {},
          !.error = IF nmap.ports # {} THEN ""
                    ELSE IF @ # "" THEN @
                    ELSE IF nmap.summary = "none" THEN "no ports"
                    ELSE nmap.summary]
    /\ UNCHANGED <<others, lost>>

-----------------------------------------------------------------------------
(* analyze *)

\* The gather ends.  dedupe_dicts merges nothing: a socket probe names no
\* protocol, nmap and the fallback do.
Gathered ==
    /\ pc = "probing" /\ nmap.at = "done"
    /\ \A p \in Ports : probe[p] \in {"open", "none"}
    /\ pc' = "wpscan"
    /\ open_ports' =
          [port : {p \in Ports : probe[p] = "open"}, protocol : {""}, source : {"socket"}]
          \cup [port : nmap.ports, protocol : {"tcp"}, source : {nmap.source}]
    /\ UNCHANGED <<profile, listening, probe, nmap, scan_ports, tools, lost>>

\* Not installed; timed out or raising; empty, truncated or no JSON, although it
\* was executed; or read.
WPScanOutcomes ==
    {[NotRun EXCEPT !.error = e] : e \in {"missing", "failed"}}
    \cup {[NotRun EXCEPT !.executed = TRUE, !.error = "unreadable"]}
    \cup {[NotRun EXCEPT !.executed = TRUE, !.found = f] : f \in BOOLEAN}

\* Not run in a quick scan or without WordPress.
RunWPScan ==
    /\ pc = "wpscan"
    /\ \/ wpscan' = [NotRun EXCEPT !.skipped = TRUE]
       \/ profile = "full" /\ wpscan' \in WPScanOutcomes
    /\ pc' = "dirsearch"
    /\ UNCHANGED <<profile, listening, probe, nmap, open_ports, scan_ports, dirsearch, file, lost>>

\* Skipped, not installed, or started with an empty temporary file to write to.
StartDirsearch ==
    /\ pc = "dirsearch"
    /\ \/ /\ profile = "quick"
          /\ dirsearch' = [NotRun EXCEPT !.skipped = TRUE]
          /\ pc' = "report" /\ UNCHANGED file
       \/ /\ profile = "full"
          /\ dirsearch' = [NotRun EXCEPT !.error = "missing"]
          /\ pc' = "report" /\ UNCHANGED file
       \/ /\ profile = "full"
          /\ pc' = "running" /\ file' = "empty" /\ UNCHANGED dirsearch
    /\ UNCHANGED <<profile, listening, probe, nmap, open_ports, scan_ports, wpscan, lost>>

DirsearchWrites ==
    /\ pc = "running" /\ file \in {"empty", "partial"}
    /\ file' \in {"partial", "complete"}
    /\ UNCHANGED <<pc, profile, listening, probe, nmap, open_ports, scan_ports,
                   wpscan, dirsearch, lost>>

\* Killed at its timeout, or its exit, whatever it wrote; the finally block.
DirsearchEnds ==
    /\ pc = "running"
    /\ \/ dirsearch' = [NotRun EXCEPT !.error = "failed"]
       \/ /\ file = "complete"
          /\ \E found \in BOOLEAN :
                dirsearch' = [NotRun EXCEPT !.executed = TRUE, !.found = found]
       \/ file # "complete" /\ dirsearch' = [NotRun EXCEPT !.error = "unreadable"]
    /\ file' = "none"
    /\ pc' = "report"
    /\ UNCHANGED <<profile, listening, probe, nmap, open_ports, scan_ports, wpscan, lost>>

\* build_structured_storage: of each port the first item, a socket's if any.
Conclude ==
    /\ pc = "report"
    /\ scan_ports' = {i \in open_ports : \A k \in open_ports :
                         k.port = i.port /\ k.source = "socket" => k = i}
    /\ pc' = "done"
    /\ UNCHANGED <<profile, listening, probe, nmap, open_ports, tools, lost>>

\* The process is stopped.
Stop ==
    /\ pc \notin {"done", "stopped"}
    /\ pc' = "stopped"
    /\ UNCHANGED <<profile, listening, probe, nmap, open_ports, scan_ports, tools, lost>>

Next ==
    \/ \E p \in Ports : Probe(p) \/ (pc = "probing" /\ Fallback(p))
    \/ pc = "probing" /\ (NmapFails \/ NmapReports \/ FallbackDone)
    \/ Gathered \/ RunWPScan \/ StartDirsearch \/ DirsearchWrites \/ DirsearchEnds
    \/ Conclude \/ Stop

Spec == Init /\ [][Next]_vars

-----------------------------------------------------------------------------
(* properties *)

\* An open port misses the report only when both attempts of its probe were lost
\* and, where nmap was to try it, nmap missed it and, unless nmap saw another
\* port, both attempts of the fallback were lost too (458-490, 3658-3679); and
\* the tables get each port that was seen, and no other, once (2783, 2811, 5133).
MissedOnlyByLosses ==
    pc = "done" =>
        /\ \A p \in listening :
              (\A i \in open_ports : i.port # p) =>
                  /\ lost[<<"probe", p>>] = 2
                  /\ p \in Tried /\ nmap.source = "socket-fallback" =>
                         lost[<<"fallback", p>>] = 2
        /\ \A i \in open_ports : i.port \in listening
        /\ \A i \in open_ports : Cardinality({r \in scan_ports : r.port = i.port}) = 1

\* What a tool is said to have found it has found: nmap's error is shown exactly
\* when no port is (3658-3691); wpscan and dirsearch show results only of a run
\* that was read to its end, and otherwise a reason (3291-3364, 3401-3480); and the
\* temporary file goes, unless the process is stopped (3360-3362).
ToolsHonest ==
    pc = "done" =>
        /\ nmap.error = "" <=> nmap.ports # {}
        /\ nmap.ports # {} => nmap.enabled
        /\ \A t \in {wpscan, dirsearch} :
              /\ t.found => t.executed /\ t.error = ""
              /\ ~t.executed => (t.skipped <=> t.error = "")
        /\ dirsearch.executed => dirsearch.error = ""
        /\ file = "none"

-----------------------------------------------------------------------------
(* The inductive invariant behind both properties. *)

Items == [port : Ports, protocol : {"", "tcp"}, source : {"socket", "nmap", "socket-fallback"}]
NmapStates ==
    [at : {"job", "fallback", "done"}, todo : SUBSET Ports, attempt : Attempts,
     ports : SUBSET Ports, source : {"nmap", "socket-fallback"}, enabled : BOOLEAN,
     error : {"", "unavailable", "raised", "no host", "no ports", "filtered", "closed"},
     summary : {"none", "filtered", "closed"}]

TypeOk ==
    /\ pc \in {"probing", "wpscan", "dirsearch", "running", "report", "done", "stopped"}
    /\ profile \in {"quick", "full"} /\ listening \subseteq Ports
    /\ probe \in [Ports -> Attempts \cup {"none", "open"}]
    /\ nmap \in NmapStates
    /\ open_ports \subseteq Items /\ scan_ports \subseteq Items
    /\ wpscan \in Tool /\ dirsearch \in Tool /\ file \in {"none", "empty", "partial", "complete"}
    /\ lost \in [{"probe", "fallback"} \X Ports -> Nat]

\* The probe of an open port that gives no answer has been lost at each attempt.
ProbesCount ==
    \A p \in Ports :
        /\ probe[p] = "open" => p \in listening
        /\ p \in listening => /\ probe[p] = "first" => lost[<<"probe", p>>] = 0
                              /\ probe[p] = "second" => lost[<<"probe", p>>] = 1
                              /\ probe[p] = "none" => lost[<<"probe", p>>] = 2

\* The one port whose first attempt by the fallback is over and not its second.
Retried(p) == nmap.attempt = "second" /\ \A q \in nmap.todo : p <= q

\* So has an open port the fallback has passed without adding it.
FallbackCounts ==
    /\ nmap.ports \subseteq listening /\ nmap.todo \subseteq Tried
    /\ nmap.at = "job" => nmap.todo = Tried /\ nmap.attempt = "first"
    /\ \A p \in listening \cap nmap.todo :
          lost[<<"fallback", p>>] = IF Retried(p) THEN 1 ELSE 0
    /\ nmap.at = "fallback" \/ nmap.source = "socket-fallback" =>
          \A p \in (listening \cap Tried) \ nmap.todo :
              p \in nmap.ports \/ lost[<<"fallback", p>>] = 2

NmapRight ==
    /\ nmap.at # "done" => nmap.source = "nmap"
    /\ nmap.at = "job" => nmap.ports = {} /\ nmap.error = "" /\ nmap.summary = "none"
    /\ nmap.at = "done" => /\ nmap.error = "" <=> nmap.ports # {}
                           /\ nmap.ports # {} => nmap.enabled
                           /\ nmap.source = "socket-fallback" => nmap.todo = {}

SocketItems == [port : {p \in Ports : probe[p] = "open"}, protocol : {""}, source : {"socket"}]
NmapItems == [port : nmap.ports, protocol : {"tcp"}, source : {nmap.source}]

\* What the gather left is what its two sources saw.
GatheredRight ==
    pc \notin {"probing", "stopped"} =>
        /\ nmap.at = "done" /\ \A p \in Ports : probe[p] \in {"open", "none"}
        /\ open_ports = SocketItems \cup NmapItems
        /\ pc = "done" => scan_ports = {i \in open_ports : \A k \in open_ports :
                                          k.port = i.port /\ k.source = "socket" => k = i}

\* A tool shows a result only of a run that was read, and else a reason.
Honest(t) ==
    /\ t.found => t.executed /\ t.error = ""
    /\ ~t.executed => (t.skipped <=> t.error = "")

ToolsRight ==
    /\ pc \in {"dirsearch", "running", "report", "done"} => Honest(wpscan)
    /\ pc \in {"report", "done"} => Honest(dirsearch) /\ (dirsearch.executed => dirsearch.error = "")
    /\ pc \notin {"running", "stopped"} => file = "none"

IInv == TypeOk /\ ProbesCount /\ FallbackCounts /\ NmapRight /\ GatheredRight /\ ToolsRight
=============================================================================
