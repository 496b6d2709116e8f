----------------------------- MODULE ScanService -----------------------------
(***************************************************************************)
(* What POST /scan-async and POST /cancel-scan of backend/main.py promise  *)
(* to their users: jobs are served one at a time in the order in which     *)
(* they were submitted, each at most once; a job leaves the line only when *)
(* it is served or when somebody asked for its cancellation; and a report  *)
(* is stored at most once, while its job is served.                        *)
(*                                                                         *)
(* The promise ends when two users of the deque in the asyncio.Queue get   *)
(* into each other's way (broken).                                         *)
(***************************************************************************)
EXTENDS Naturals, Sequences

CONSTANTS Jobs

VARIABLES
    submitted,   \* the jobs accepted
    unwanted,    \* the jobs somebody asked to cancel
    line,        \* the jobs waiting, first come first
    hand,        \* the job being served: a set of at most one
    stored,      \* how many reports of each job are stored
    broken

vars == <<submitted, unwanted, line, hand, stored, broken>>

Init ==
    /\ submitted = {} /\ unwanted = {}
    /\ line = <<>> /\ hand = {}
    /\ stored = [j \in Jobs |-> 0]
    /\ broken = FALSE

Submit(j) ==
    /\ j \notin submitted
    /\ submitted' = submitted \cup {j}
    /\ line' = Append(line, j)
    /\ UNCHANGED <<unwanted, hand, stored, broken>>

Ask(j) ==
    /\ j \in submitted
    /\ unwanted' = unwanted \cup {j}
    /\ UNCHANGED <<submitted, line, hand, stored, broken>>

\* The sequence s without its k-th item.
Without(s, k) == [i \in 1..(Len(s) - 1) |-> IF i < k THEN s[i] ELSE s[i + 1]]

Withdraw(k) ==
    /\ line[k] \in unwanted
    /\ line' = Without(line, k)
    /\ UNCHANGED <<submitted, unwanted, hand, stored, broken>>

Take ==
    /\ hand = {} /\ line # <<>>
    /\ hand' = {Head(line)}
    /\ line' = Tail(line)
    /\ UNCHANGED <<submitted, unwanted, stored, broken>>

Store(j) ==
    /\ j \in hand /\ stored[j] = 0
    /\ stored' = [stored EXCEPT ![j] = 1]
    /\ UNCHANGED <<submitted, unwanted, line, hand, broken>>

Release ==
    /\ hand # {}
    /\ hand' = {}
    /\ UNCHANGED <<submitted, unwanted, line, stored, broken>>

Break == broken'

Next ==
    \/ \E j \in Jobs : Submit(j) \/ Ask(j) \/ Store(j)
    \/ \E k \in 1..Len(line) : Withdraw(k)
    \/ Take \/ Release
    \/ Break

Spec == Init /\ [][Next]_vars
=============================================================================
