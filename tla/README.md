# Formal model of Threat Scanner SaaS

This directory holds TLA+ models of the first-party program of this repository
(`backend/` and `frontend/`) and of the one engine of the vendored `nmap/` that
every scan goes through, the TLC configurations that check them on small
instances, and TLAPS proofs of the properties that matter most.

## The system

A FastAPI process (`backend/main.py`) accepts scan requests, runs them with
`backend/analyzer.py`, stores reports in SQLite through `backend/db.py`, and
serves a single-page dashboard (`frontend/`) that polls it.

| component | state it keeps | operations | interacts with |
|---|---|---|---|
| Scan queue and worker (`main.py` 393-446, 546-586, 694-911) | `scan_jobs`, `scan_queue`, its worker task | `scan_async`, `cancel_scan`, `scan_status`, `scan_worker`, `run_scan_job` | calls the analyzer, saves to the store, alerts, is polled by the dashboard |
| Bulk scans (`main.py` 948-1408) | `bulk_jobs` | `bulk_scan_start`, `bulk_scan_status`, `bulk_scan_results`, `bulk_scan_cancel`, `run_bulk_scan_job` | one task per job, one sub-task per target behind a semaphore; analyzer, store |
| Store (`db.py`) | tables users, scans, scan_findings, scan_subdomains, scan_ports, scan_cves | `init_db`, `create_user`, `verify_user`, `get_user_by_id`, `save_scan`, `get_user_scans`, `get_scan_details`, `delete_scan` | one SQLite connection per call |
| Start-up migration (`db.py` 25-150) | schema: scans, scans_old, foreign keys | `init_db` | runs at import of `main.py`, before anything is served |
| Accounts and tokens (`main.py` 159, 223-271, 589-673) | `SECRET_KEY`, users, tokens in browsers | register, login, `create_token`, `get_current_user` | store |
| Analyzer (`analyzer.py`) | none between calls | `analyze`: probes, finding rules, classification, score, summary | network, `nmap`, `wpscan`, `dirsearch` subprocesses |
| Port discovery and external programs (`analyzer.py` 458-490, 3268-3697, 5084-5139) | a temporary file | `check_port`, `run_nmap_scan`, `run_wpscan_scan`, `run_wordpress_dirsearch_scan` | threads and subprocesses; called by `analyze` |
| nmap's connect scan (`nmap/scan_engine.cc`, `scan_engine_connect.cc`) | probe list, bench, retry stack, limits and counters of one scan | `ultra_scan`: send, retransmit, ping, wait, sweep, print | the target host; started by `run_nmap_scan` |
| Report scoring (`analyzer.py` 2741-3265, 5195-6090) | none | `separate_results`, `calculate_strict_score`, `build_*` | called by `analyze` |
| Dashboard, live scan (`frontend/app.js` 550-800) | current job id, poll timer, shown report | scan, poll, cancel | polls the queue |
| Dashboard, bulk view (`frontend/app.js` 1475-1790) | the same three for bulk jobs, the last results | start, poll, load results, cancel, filter | polls the bulk jobs |
| WordPress password test (`main.py` 456-543) | one entry of `scan_jobs` | `run_wpscan_bruteforce` | subprocess |

### What is hard here

* Coroutines and threads share `scan_jobs`, `bulk_jobs` and the deque inside
  `asyncio.Queue`. FastAPI runs plain `def` handlers (cancel, status, history) in
  pool threads; `remove_job_from_queue` rebuilds the deque in three steps.
* Cancellation is a flag tested at a few points and a status written by both
  sides.
* Every database call opens a connection of its own, so two calls of one
  handler are two transactions.
* `init_db` migrates an old schema with DDL that commits by itself, inside a
  process that may stop at any point and is started again.
* The dashboard polls with timers and global variables: answers arrive late, out
  of order, and for a job that is no longer the current one.
* nmap retries ports in three places (list, bench, stack) under a limit that moves
  while they wait, and ends when its counters say so.
* Jobs, queue and (without `SECRET_KEY`) the signing key live in memory only.

## Modules

Each `MCx` module only gives the constants of `x` their symmetry; the values are
in the `.cfg` files. In every module an operator `A_b` is `A` with the mistake
`b` in it: no specification uses one, and putting it in the place of `A` shows
that a property would notice that mistake. A comment at each definition names
what it stands for; `PROJECT.json` maps each to its lines.

### ScanQueue, with ScanService as its abstract specification

State: `status`, `cancel_requested` and `result` are fields of `scan_jobs`;
`queue` and `unfinished` are the deque and the counter *inside* `asyncio.Queue`,
because `remove_job_from_queue` reaches past its interface; `worker`, `cur`,
`at` are where `scan_worker`/`run_scan_job` stand; `thread`, `target`, `rest` the
same for each call of `cancel_scan`; `saved` counts the rows each job left in
table scans.

Grain: a coroutine runs from one await to the next without another coroutine in
between (`LoopFree`), but cancel requests run in pool threads, so every shared
read and write that a thread can fall between is an action of its own: get's
test for an item and its pop (`Get`, `Pop`), the list / clear / append of the
rebuild (`Snapshot`, `Clear`, `PutBack`), test and assignment of the status
(`Branch`, `MarkCancelled`), the two assignments of the completed job (`Publish`,
`Deliver`).

`overlap` is a history variable. It becomes true when two users of the deque are
inside their check-then-act sections at once (two rebuilds, or a rebuild and a
`get`). Until then the queue keeps strong promises, and the properties and proofs
say which; afterwards the code really can lose a job, run one twice or stop the
worker, and the properties that are not conditional say what survives even so
(`CompletedIsStored`, `FinalUnlessDisturbed`, `CancelSettles`).

`ScanService` is what users are promised: jobs are served one at a time, in the
order of submission, each at most once; only a job somebody wants cancelled
leaves the line; a report is stored at most once and while its job is served. It
knows no deque, no counter and no threads. `ScanQueue!Service` is the refinement
mapping: the waiting line is the deque followed by what the rebuild still holds.

### BulkScan

One bulk job: `run_bulk_scan_job`, a `scan_one` task per target behind an
`asyncio.Semaphore` (modelled with its queue of waiters and its hand-over of the
permit), and `bulk_scan_cancel` as threads. The list of targets is the set 1..N
that `normalize_bulk_targets` leaves. `mute` records that an exception without a
message was raised: `summarize_bulk_result` takes it for a success and raises
itself, `gather` fails, and the other targets go on running.

### BulkJob, between BulkScan and the dashboard

What one bulk job promises to who polls its status and then reads its results:
begun once, ended for good, no result taken back, and every target listed at the
end, unless it was cancelled or an exception got out (`excused`). `BulkScan!Job` is
the refinement mapping, checked and proved; `BulkView` takes its jobs from the same
module, one INSTANCE per job, so what is shown of the view rests on what is shown
of the server. An operation is the set of jobs it may lead to, because two modules
use it on different state.

### SchemaMigration

`init_db` statement by statement on every shape `scans` has had in this
repository (`none`, `plain` = the committed `data.db`, `bare` and `old` = with
the column user, `new`). `disk` is the committed database, `work` what the
connection sees, `tx` whether it has a transaction open: Python's sqlite3 opens
one at the first INSERT, so RENAME and CREATE commit by themselves and the copy
and DROP do not. RENAME takes the child tables' foreign keys along. `Crash` may
come before any statement; `Save` and `Delete` stand for what the schema then
means for `save_scan` and `delete_scan`. Writing `admin` needs a second
connection, which can only time out while the first holds the write lock.

### ReportStore

Accounts, tokens and reports, and the handlers that need more than one
transaction: `save_scan_result` (look the owner up, then insert),
`get_scan_details` (five SELECTs) and `delete_scan` (find, then delete). A
`token` carries the id the server put in it and, as history, the person who
logged in; `author` is who asked for a report. `Restart` replaces the signing key
when it is not set in the environment. Deleting an account is external: the
program has no such endpoint, but main.py 377 provides for it, and an
administrator's connection need not enforce foreign keys.

### ReportScoring

The part of `analyze` that turns what the probes saw into the report. The probes'
answers are inputs. Each rule adds one of the things it can report, with the
severity, confidence, category and evidence type of the code; the evidence text is
a small number, equal where the code words the same evidence in both lists and
different where it does not, because `separate_results` merges by it. One rule
stands for its likes (one header of each severity, one cookie flag).
What each rule may report is a named set (`HostRules`, `PathRules`, ...), and an
entry is made by `Entry`, with the defaults of `add_finding` by `Item`.
`Assemble` is the rest: deduplication, classification, strict score, risk, rows
for the database. Sums added to `score` on the way are overwritten unread. The
initial state is `RInit` and the specification `RSpec`, because `HostProbes`, the
other part of `analyze`, has `Init` and `Spec`, and one module proves about both.

### ScanPoller

The live view of a scan in `app.js`: `scan`, its first poll and its interval,
`pollScanStatus`, `cancelCurrentScan`. The browser runs one callback at a time,
but requests are answered in any order, and everything meets in two globals,
`currentScanJobId` and `currentScanPollTimer`. `polls` holds the requests under
way with the answer they got; an answer may be an error. The server is only what
the dashboard can see of it, with the races of `ScanQueue`: a job that is running or
shown as cancelled may end (`ServerMoves`; "over" is completed or failed, which
differ in what is shown only), a cancelled one may go on, one that was over may run
once more, and a cancel request may overwrite an end that came after its test
(`ServerCancels`). `DashboardSees` in `ScanQueueProofs` proves that the queue does
nothing else. `overlapped` and `disturbed` record the two things
after which watching is known to break: a second scan started while the first is
being started, and a failed poll or the end of an older job.

### BulkView

`startBulkScan`, `pollBulkStatus` with `loadBulkResults`, `cancelBulkScan` and
`setBulkFilter`. `starts` is where each click stands, `timer` and `live` tell the
interval that `currentBulkPollTimer` names from those that still fire, `polls` holds
the calls of `pollBulkStatus`, each first waiting for a status and then, after the
job's end, for its results; `panel` and `lastReport` are what is on the page. A
click comes only when the start before it has had its first poll; overlapping starts
are those of `ScanPoller`, and what they do here is noted below. `disturbed` records
that the current job was lost to the error of a later poll or to an older job's end.

### UltraScan

The loop of `ultra_scan` for the scan the program orders: one host, connect()
probes, -Pn, a host timeout. A call of the loop (`doAnyPings`,
`doAnyOutstandingRetransmits`, `doAnyRetryStackRetransmits`, `doAnyNewProbes`,
`waitForResponses`, `processData`) is a value of `pc`; each probe sent is an action,
followed by the return of its connect(). `out` is the probe list, with the counters the code
keeps beside it as variables of their own. What the clock decides is free: any
probe may be older than its timeout in any pass, and the congestion window and the
scan delay may refuse any probe; so is the order in list, bench and stack.
`Sweep` is one pass of `processData` over the list, with the limit at its start.

### HostProbes

A socket probe per port beside an nmap thread with its fallback, then wpscan and
dirsearch. A port that is open may still be missed by any attempt; `lost` counts
these. What a tool printed is reduced to whether it was read to the end and
whether it held something.

## Runs

| run | bounds | what it shows |
|---|---|---|
| `scan_queue_safety` | 2 jobs, 2 cancel threads | Until two users of the deque overlap no job is lost (`NothingLost`), doubled (`ServedOnce`) or left waiting beside a sleeping or dead worker (`WorkerServes`), and the queue implements `ScanService`; in any case a completed job is stored (`CompletedIsStored`), a finished one changes only after a cancel request for it, and from completed or failed only to cancelled, or after an overlap (`FinalUnlessDisturbed`), every cancel request settles its job for good, and every submission ends unless an overlap happened. |
| `scan_queue_late_cancel` | 1 job, 1 cancel thread | *`CancelledNeverCompletes` is violated:* a job shown as cancelled becomes completed when the request arrives while the report is being saved. |
| `bulk_scan` | 4 targets, 2 permits, 2 cancel threads | Permits are conserved, counters agree with the items, a completed job covers all targets, the job is the one `BulkJob` promises, it ends, and a cancel request settles it. |
| `bulk_view` | 1 target, 2 starts, 2 requests under way, 1 error | The page comes to rest, with the whole report of the last job on it, except after the named disturbances; polling stops; every job's results are shown. |
| `schema_safety` | 2 legacy rows, 2 saves, 3 crashes | No row is lost or doubled, the program serves only on a usable schema, and it comes up from every shape but one. |
| `schema_stale_table` | 1 legacy row, no crash | *`NoStaleTable` is violated:* `scans_old` stays behind with the history in it. |
| `store_safety` | 2 calls, 2+1 accounts, 2+1 reports, 2 child tables, 1 restart | No session speaks for another person, a read that spans transactions shows one report and tears only when that was deleted, child rows follow their report, a save is refused only in the race noted below, and only its owner deletes a report. |
| `scoring_safety` | 3 secrets of which 2 are reported, 2 further reports, plus schema and introspection | Score and risk follow from strong observations alone (`ScoreFollowsObservations`); nothing reported is lost in sorting (`NothingLost`) or storing (`StoredAsReported`). |
| `scoring_copies` | 1 secret, 1 further report | *`NoParallelCopies` is violated:* a public schema is confirmed twice. |
| `scan_poller` | 2 scans, 2 requests under way, 1 error | One interval, a watched job, and its end on the screen, with the exceptions the properties name. |
| `host_probes` | 3 ports: common, risky, both | An open port is missed only when all its attempts were lost, each seen port is stored once, and tools never report what they did not read. |
| `ultra_scan` | 2 ports, caps 1 and 2, 2 sockets, 1 ping after 2 probes | nmap's counters are those of its list, each port is in one place until it has an end, none is tried too often or given up too early but for the case noted below, an open port is missed only for the reasons the code has, and the scan ends without its timeout. |

Type invariants are not listed in the configurations: they are conjuncts of the
inductive invariants `IInv`, which the proofs establish.

### Why the bounds suffice

* `scan_queue_safety`: two cancel threads are the fewest with which two rebuilds
  overlap, and every way to lose a job, to run one twice or to stop the worker needs
  two jobs. Liveness excludes symmetry. A third job, one before and one
  behind the cancelled one, was checked for the safety properties with symmetry;
  the proofs cover every number.
* `bulk_scan`: two permits for four targets make tasks run side by side, wait, and
  be handed a permit while others wait.
* `bulk_view`, `scan_poller`: two jobs are an older and a newer one, two requests
  overtake each other within a job and between jobs. One target tells a partial
  report from a complete one.
* `schema_safety`: three crashes interrupt a migration, its repair, and the repair's
  repair; after that a start finds a shape it has met.
* `store_safety`: two calls are all a race between transactions of this store needs,
  and two child tables stand for four, each one more SELECT of the same kind.
* `scoring_safety`: the score saturates at 100 with two private keys and an
  introspection, and two further reports are enough to collide in a key.
* `host_probes`: a port of each list and one of both, as 22 is.
* `ultra_scan`: with a cap of 1 an answer to a retransmission meets it, with 2 it
  sends the bench to the retry stack; two ports are one that answers and one that
  waits for it. Three ports were checked on the way: with a cap of 2 under symmetry
  (2.08 million states), and with a cap of 3 and no pings.

Each bound is a CONSTANT, and the theorems below hold for every value.
`CHECK_DEADLOCK FALSE` stands in every configuration: nobody has to submit or
cancel, the counters are bounded, and a job, migration, report, scan or page comes
to rest.

### Fairness

* `ScanQueue`, `BulkScan`: weak fairness of the event loop's steps (asyncio runs
  every ready task, sleeps end, and every probe and subprocess of an analysis
  carries a timeout) and of each thread of the pool once it runs a request. No
  fairness of submitting or cancelling.
* `SchemaMigration`: weak fairness of `InitDb`, which stands for the host
  starting the program again (Docker, render.yaml); crashes are bounded.
* `ScanPoller`: requests are answered or fail, answers are handled, an interval
  fires while it is set. That the server ends a job for good is not assumed but the
  premise of `EndIsShown`, job by job; `CancelSettles` and `EverySubmissionEnds` are
  what `ScanQueue` promises of it. No fairness of the user.
* `BulkView`: requests, answers and intervals as in `ScanPoller`, and the coroutine of a job goes on until it has ended
  (`BulkScanEnds`); a cancel request is carried out by its pool thread. No fairness
  of the user.
* `UltraScan`: the process runs, a connect() returns (the sockets do not block), the
  second of the rate-limit detection passes, every probe ages within the longest
  timeout. A host with no probe under way is sent to, if anything may be sent:
  its window never closes (`low_cwnd`) and its scan delay is a second at most.
  Nothing is assumed of the target, nor of the host timeout.
* The other specifications are safety only.

## Disagreements between the code and what the repository says of it

1. `scan_queue_late_cancel`: `cancel_scan` answers that the current scan will
   stop and shows cancelled; `run_scan_job` tests the flag for the last time
   before `save_scan` and then writes completed.
2. `schema_stale_table`: when `create_user` meets the lock of the migration's own
   transaction, copy and drop are rolled back, the rename is not, and the next
   start takes the new `scans` for migrated. The history is in `scans_old` for
   good, and the child tables' foreign keys name it.
3. `scoring_copies`: a public schema or open introspection is confirmed twice and
   counts 60 instead of 30.

Noticed while modelling, not the subject of a run of their own:

* The owner of a report is looked up and inserted in two transactions: a save can
  still fail for an account deleted in between, which the comment at main.py 377
  wants to avoid. `RefusedOnlyByRace` says that nothing else makes it fail.
* nmap gives a port up when no probe in flight and no port still to be sent could
  raise the limit of tries (scan_engine.cc 675-716). The retry stack is not asked,
  so a port may be given up although one of the stack is still to be retried and
  could raise the limit (compare the comment at 671-674). It takes three ports and
  a cap of 3; `GivesUpLast` states what does hold.
* When starts of bulk scans overlap, the interval of the first leaks: the second
  clears the timer before the first has set its own, and as `currentBulkJobId` is
  never cleared the leaked interval asks for ever (app.js 1536-1548).
* A status answered before a job's end may arrive after its report and replace it
  by the running view; the report is in `__bulkLastData`, and the filter brings it
  back (app.js 1595-1634, 1851). The live view has the same at 629.
* The bulk view takes the first `cancelled` for the end and loads the results while
  targets are still being analyzed (app.js 1578).
* `completed` already includes the failed targets, and the bulk view adds `failed`
  to it (app.js 1609).
* A cancel request answered after the end was shown polls the job `null` (app.js 713).
* `send_discord_alert` is a blocking request on the event loop (main.py 363).

* `build_enterprise_summary` counts HIGH severity with HIGH confidence as
  confirmed whatever the evidence, against the note at analyzer.py 3844; nothing
  reads that summary.
* A target that does not resolve gets risk HIGH and score 90 or 100 although
  nothing is confirmed (compare the comment at 6048), and a bulk scan counts it
  as vulnerable (main.py 1151).
* `classify_exposure_status` computes a status that its callers drop: with two
  keywords a debug endpoint ends among the informational items, with one among
  the possible ones.
* A domain without any TXT record is not reported as lacking SPF (`check_dns_security`
  adds "No TXT record found", which the rule at 5629 does not match).
* A database shaped like the committed `data.db` never starts (`ComesUp` excludes
  it).
* Ports seen by a socket probe and by nmap are listed twice, since the key has a
  protocol in one case only.
* `run_wpscan_bruteforce` uses `subprocess` without importing it and always
  answers an error.

## Proofs

TLAPS proves the theorems below for every value of the constants: any set of jobs
and cancel requests, any number of targets `N >= 1` and any concurrency in 1..5
(what `run_bulk_scan_job` clamps it to), any number of dashboard scans, requests
and errors, legacy rows, saves and crashes, accounts, calls and child tables, any
two sets of ports of the host probes, any limit of reported secrets and any number
of reports of the rules, and any finite set of ports, caps and number
of sockets of nmap. The ASSUMEs of the modules say just this; nothing is assumed
of `Jobs`, `Cancels` and `Calls`, not even that they are finite.

Each proof module has the same shape: the inductive invariant `IInv`, one lemma per
part of it (or per action) that a step keeps it, `Invariance` by PTL, and the
properties from `IInv`. TLC has checked every `IInv` on the bounds of its run. (`ReportScoring` calls it `RInv`.)

| module | properties proved |
|---|---|
| `ScanQueueProofs` | `NothingLost`, `ServedOnce`, `WorkerServes`, `CompletedIsStored`, `FinalUnlessDisturbed`, `ImplementsService`, and that the server of `ScanPoller` makes every move the queue makes |
| `BulkScanProofs` | `PermitsConserved`, `CountersAgree`, `CompletedCoversAll`, `ImplementsBulkJob`, and that nothing runs after the end and a settled status stays |
| `BulkViewProofs` | `RestShowsTheEnd` |
| `ScanPollerProofs` | `OneTimer`, `Watched` |
| `SchemaMigrationProofs` | `StoredIsKept`, `UpIsUsable`, `SoundUnlessMigrated` |
| `ReportStoreProofs` | `NoImpersonation`, `TornOnlyByDeletion`, `ChildrenFollow`, `RefusedOnlyByRace`, `OnlyOwnersDelete` |
| `AnalyzeProofs` | of `HostProbes` `MissedOnlyByLosses`, `ToolsHonest`; of `ReportScoring` `ScoreFollowsObservations`, `NothingLost`, `StoredAsReported` |
| `UltraScanProofs` | `Accounting`, `NoPortForgotten`, `TriesAllowed`, `GivesUpLast`, `MissedOnlyByLosses` |

### The queue (`ScanQueueProofs`)

The safety properties are not inductive. `ScanQueue!IInv` strengthens them to

* `TypeOk`;
* `Always`, what holds whatever overlaps: a rebuild that puts back has something
  to put back, a thread past its request has set the flag of a job that exists, a
  cancelled job was asked for, and a worker at `publish` has saved;
* `Undisturbed`, what holds until `overlap`: the sections on the deque exclude each
  other and a rebuild's copy still equals the deque when it clears it
  (`Exclusive`); the counter covers everything in line and in the worker's hands
  (`Counted`, without which `task_done` could raise and kill the worker); how far a
  job is in line or in work agrees with its status (`InStep`); and the three
  properties themselves.

The step of `Undisturbed` has one case per action, and each case one step per
part the action can disturb; facts on the items of appended and shortened
sequences are lemmas. `overlap` never becomes false again (`OverlapStays`), so the
conditional part composes. From `Invariance` follow `NoJobIsLost`,
`NoJobIsServedTwice`, `TheWorkerServes`, `CompletedWasStored` and the action
property `FinishedIsFinal`: without an overlap, a finished job changes only after a
cancel request for it, and a completed or failed one only to cancelled.

`DashboardSees` ties the queue to `ScanPoller`: seen through what `/scan-status` shows
(`Shown`), the queue moves a job along the transitions that `ScanPoller` gives its
server (`Moves`) and no others, whatever overlaps, and runs a job again after its end
only after an overlap. It needs that jobs in the deque, in a copy of it or in the
worker's hands were submitted (`Submitted`, inductive beside `IInv`): `InStep` says so
only until an overlap. The cases are those of `FirstStatusStep`, by which only
`scan_async` gives a job its first status, and of `FinalStep`.

### The queue implements its service (`ScanQueueProofs`, last part)

`StepImplements` shows, from `IInv` at both ends of a step, that a step of the
code is a step of `ScanService` or leaves its variables alone: `ScanAsync` is
Submit, `Pop` is Take, `PutBack` of the cancelled job is Withdraw, `SaveScan` is
Store, `TaskDone` is Release, the first overlap is Break, and everything else is
invisible, the clearing of the deque included. `SplitLine` and `WholeLine` say
what the mapped line is with and without a rebuild under way: `Exclusive` is what
makes the CHOOSE in `Line` harmless. `QueueImplementsService` is
`Spec => ImplementsService`, the same formula as in `scan_queue_safety`.

### Bulk scans (`BulkScanProofs`)

`BulkScan!IInv` adds to the properties that waiters wait, each once (`Waiting`),
what an item says by where its task stands (`ItemsFollow`), what the coroutine and
the status may assume of the tasks (`OutcomeFollows`), and how lists and counters
follow the items (`ResultsFollow`: the failed counter only from below, because the
handler increments what the `finally` recomputes). Permits are a matter of
cardinalities: `SemaphoreKept` and `SemaphoreStep` treat entering, handing over and
leaving once for all actions. `SettledIsKept` is an action property proved from
`OutcomeFollows`. `BulkScanImplementsJob` maps every step to one of `BulkJob` or to a
stutter; that an ended job lists every target unless it is excused is again
`OutcomeFollows`.

### The dashboard's live scan (`ScanPollerProofs`)

`ScanPoller!IInv` adds to `TypeOk`, `OneTimer` and `Watched`: the first poll of a
scan is under way at most once, and only while `scan()` waits for it (`Requests`);
jobs that were started, are current or were asked about exist (`Existing`); and
scans begin in order, so that one that overlaps no other is the last, with no
interval firing while it waits (`InOrder`). The last is why the first poll may set
an interval without clearing one. `WatchFrame` covers the actions that touch
nothing that is watched; clicking, being refused, being started and the two kinds
of answer have a lemma each.

### The dashboard's bulk view (`BulkViewProofs`)

`Watched` is `RestShowsTheEnd` carried through the states in which something is under
way: the current job is polled by an interval that is set, or its results are asked
for, or they are on the page. It needs that starts come one after the other and
the current job is the last one's (`InOrder`), that a first poll is one call and
belongs to its start (`Asked`), that jobs keep `BulkJob`'s promise (`JobsRight`) and
that answers under way stay true of their jobs (`AnswersRight`), so that results
asked for after an end are complete (`ReportRight`).

### The migration (`SchemaMigrationProofs`)

`Good` says of the committed database that the rows of the earlier program are all
in one of two places; `Progress` says what each statement of `init_db` relies on;
`Copied` relates the open transaction of the copy to what is committed, which is why
a crash between copy and drop loses nothing. `Unmigrated` is the part that holds
only while no migration has run.

### The store (`ReportStoreProofs`)

`NoImpersonation` and `OnlyOwnersDelete` follow from `OnePerson`: whatever names an id,
a row of users, a token, a call in progress or the owner of a report, names the
same person by it, since ids are never used again (AUTOINCREMENT). `Complete` and
`Reading` give `TornOnlyByDeletion`: a report is stored with all its child rows in one
transaction, and what a call has read of a report that is still there is of that
report. `Saving` relates the owner looked up to the table it is written to.

### Ports of a host (`AnalyzeProofs`, first part)

`ProbesCount` and `FallbackCounts` tie the number of lost attempts to where a probe
stands; `Retried` names the one port of the fallback between its two attempts.

### Rules and score (`AnalyzeProofs`, second part)

The three properties speak of the assembled report; `RInv` of `ReportScoring` is
what must hold of the two lists while the rules still run. `ConfirmedRight` says
that the reported entries which the strict rule confirms, or which share title and
severity with one it may confirm, are exactly `StrongItems`: one entry for each
strong secret shown, two for a public schema, two for open introspection. Without
the second half a heuristic entry could have the key of a strong one and be kept in
its place. `ChecksMatched` says that each check has a finding of its title and
severity, or one of the names no finding has, and that such a name settles the
severity: this is why the rows that `build_structured_storage` drops are not missed.
`StartsEmpty` is for the early returns, and `ResultRight` ties the result to the lists.

What a rule may add is checked once per rule (`ResponseFits` to `CvesFit`: nothing
strong, nothing that looks so, and a finding for each check that needs one); `Grown`
then shows that lists grown by fitting entries keep the invariant, and secrets, schema
and introspection, which add strong items, have a lemma each. Deduplication is a set
in the model, so no induction over data is needed: a set of positions has a least one
(`Least`, from the well-foundedness of < on Nat), hence `KeptOnce`, of each key exactly one
entry is kept. With distinct keys of the strong items (`StrongKeys`) the
confirmed section is `StrongItems` (`ConfirmedIsStrong`); its cardinalities by severity
give the score (`SecretsCounted` by a bijection with the secrets shown,
`StrongCounted`, `RatedStrong`). TLC has checked `RInv` with the bounds of
`ScoringSafety.cfg`, and of the rules `Report`, the one bounded by `MaxReports`, the
theorems need no bound.

### nmap's connect scan (`UltraScanProofs`)

`IInv` adds to the properties `ListInv` (probes are told apart by port and try, the
superseded ones are of earlier tries, one connect() returns at a time), `EndInv`
(what the end of a port says of its state and tries) and `BenchInv`: while ports sit
on the bench none has been tried more often than they, because the detection of a
rate limit delays the first probe of a higher try until a pass has emptied the
bench. Without it the assertion on the bench's number of tries (scan_engine.cc 1953)
could not be shown. The counters are cardinalities of parts of the list, and each
effect on the list (send, time out, retransmit, destroy, sweep) has its lemma.

### Only model-checked

* Liveness (`CancelSettles`, `EverySubmissionEnds`, `BulkScanEnds`, `PollingStops`,
  `ResultsAreShown`, `ComesUp`, `EndIsShown`, `ScanEnds`): fairness and ENABLED are
  beyond the prover. Every other property of a passing run is a theorem.

## Not modelled

Every part is listed in `PROJECT.json` with the reason. In short: the probes'
requests and their text matching (inputs of `ReportScoring`); the browser
discovery, whose lists no rule reads; functions nothing calls (the older smart
discovery, crawler and archive code of `analyzer.py`, `runtime_discovery.py`,
`auth.py`, the SQL files); the WordPress password test, which never starts; the
Discord alert and the archive lookup, which swallow their errors and are part of
the step around them; rate limits, passwords and hashing; read-only endpoints and
rendering; `bulk_scan_patch.js`, which no page loads. Of nmap, which with its
libraries is by far the largest part of the tree, only the connect scan of one host
is modelled: this program asks for no other kind, and raw packets, several hosts,
UDP, SCTP, version detection, scripts, libpcap, libpcre and zlib are third-party code
used as it is, like dirsearch. Jobs in memory are lost at a restart, so a
restart of the queue or of a bulk scan is its initial state and not an action.

## Plan

The order was: queue and its service first (most concurrency), bulk scans and what
they promise, persistence (migration, store), what reports say (scoring, probes), the
dashboard that shows them (live scan, bulk view), and the port scanner underneath;
then the proofs, module by module. What stays open:

1. The composition of `ScanQueue` with `ReportStore`: a job's report under deletion of
   its account, end to end.
2. Several hosts in one `ultra_scan`, when the program asks for more than one.
3. The discovery callbacks of `run_runtime_discovery_v3`, once a rule reads what they
   collect.
