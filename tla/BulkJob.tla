------------------------------ MODULE BulkJob ------------------------------
(***************************************************************************)
(* What the bulk scan of backend/main.py promises to who polls its status  *)
(* and then reads its results: once it has begun and ended, it stays so,   *)
(* and lists every target, and no result is ever taken back.  The job is   *)
(* excused when somebody asked for its cancellation or an exception got    *)
(* out of a task: then it may end early, and list targets after its end.   *)
(*                                                                         *)
(* A step is the set of jobs it may lead to, empty where its guard fails,  *)
(* so that the dashboard's module can keep several jobs.                   *)
(***************************************************************************)
EXTENDS Naturals

CONSTANT N      \* number of targets

VARIABLE job    \* an entry of bulk_jobs, as it is seen from outside

Jobs == [began : BOOLEAN, ended : BOOLEAN, excused : BOOLEAN, listed : 0..N]

Queued == [began |-> FALSE, ended |-> FALSE, excused |-> FALSE, listed |-> 0]

\* Also a job that was cancelled before it began is running then.
Begin(j) == {k \in {[j EXCEPT !.began = TRUE, !.ended = FALSE]} : ~j.began}

Excuse(j) == {[j EXCEPT !.excused = TRUE]}

List(j) == {k \in {[j EXCEPT !.listed = @ + 1]} :
               j.began /\ j.listed < N /\ (j.ended => j.excused)}

End(j) == {k \in {[j EXCEPT !.ended = TRUE]} : j.excused \/ (j.began /\ j.listed = N)}

Steps(j) == Begin(j) \cup Excuse(j) \cup List(j) \cup End(j)

Spec == job = Queued /\ [][job' \in Steps(job)]_job
=============================================================================
