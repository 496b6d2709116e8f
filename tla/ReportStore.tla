----------------------------- MODULE ReportStore -----------------------------
(***************************************************************************)
(* Accounts, sessions and stored reports: backend/db.py as the handlers of *)
(* main.py call it, each in a thread of its own.  Every function of db.py  *)
(* opens its own connection, and a SELECT opens no transaction: the rows a *)
(* handler has read may be gone when it reads or writes the next.          *)
(*                                                                         *)
(* A_x is A with the mistake x in it; no specification uses it.            *)
(***************************************************************************)
EXTENDS Naturals, FiniteSets, Functions

CONSTANTS
    Calls,        \* requests and jobs that reach the store
    Accounts,     \* number of accounts, each with one report, at the start
    Tables,       \* number of child tables, 4 in the code
    KeyFixed,     \* SECRET_KEY is set in the environment
    MaxAccounts, MaxReports, MaxRestarts   \* bounds of the counters

ASSUME AccountsAssumption == Accounts \in Nat /\ Tables \in Nat
ASSUME KeyAssumption == KeyFixed \in BOOLEAN
ASSUME BoundsAssumption ==
    MaxAccounts \in Nat /\ MaxReports \in Nat /\ MaxRestarts \in Nat

VARIABLES
    users,      \* table users: id -> who registered it
    userSeq,    \* its AUTOINCREMENT
    scans,      \* table scans: id -> owner (Nobody for NULL) and report
    scanSeq,
    children,   \* the child tables: scan id and the report a row is from
    tokens,     \* tokens in browsers that have not expired
    key,        \* SECRET_KEY
    call,       \* the local state of each call
    people,     \* history: number of people who have registered
    author      \* history: report -> who asked for it

dbVars == <<users, userSeq, scans, scanSeq, children>>
vars == <<dbVars, tokens, key, call, people, author>>

Nobody == 0
Reports == DOMAIN author
Idle == [pc |-> "idle", user |-> 0, who |-> 0, scan |-> 0, report |-> 0,
         parts |-> {}, read |-> 0, owner |-> Nobody, alive |-> FALSE]
PCs == {"idle", "in", "save", "details", "found", "answered", "missing",
        "deleted", "saved", "raised", "lost"}

PartsRead == SUBSET (Nat \X Nat)
CallStates ==
    [pc : PCs, user : Nat, who : Nat, scan : Nat, report : Nat,
     parts : PartsRead, read : Nat, owner : Nat, alive : BOOLEAN]

TypeOk ==
    /\ userSeq \in Nat /\ scanSeq \in Nat /\ people \in Nat /\ key \in Nat
    /\ DOMAIN users \subseteq 1..userSeq
    /\ \A id \in DOMAIN users : users[id] \in Nat
    /\ Cardinality(Reports) \in Nat /\ Reports = 1..Cardinality(Reports)
    /\ \A r \in Reports : author[r] \in Nat
    /\ DOMAIN scans \subseteq 1..scanSeq
    /\ \A id \in DOMAIN scans : scans[id] \in [owner : 0..userSeq, report : Reports]
    /\ children \in [1..Tables -> SUBSET [scan : Nat, report : Nat]]
    /\ tokens \subseteq [user : Nat, who : Nat, key : Nat]
    /\ call \in [Calls -> CallStates]

\* A database of earlier runs: one report per account.
Init ==
    /\ users = [id \in 1..Accounts |-> id]
    /\ scans = [id \in 1..Accounts |-> [owner |-> id, report |-> id]]
    /\ children = [t \in 1..Tables |->
                     {[scan |-> id, report |-> id] : id \in 1..Accounts}]
    /\ userSeq = Accounts /\ scanSeq = Accounts
    /\ people = Accounts
    /\ author = [r \in 1..Accounts |-> r]
    /\ tokens = {} /\ key = 0
    /\ call = [c \in Calls |-> Idle]

-----------------------------------------------------------------------------
(* accounts and sessions *)

\* the id a table without AUTOINCREMENT gives
Unused(ids) == CHOOSE n \in 1..(Cardinality(ids) + 1) : n \notin ids

\* the table without AUTOINCREMENT
Register_reusing ==
    LET id == Unused(DOMAIN users) IN
    /\ people < MaxAccounts
    /\ people' = people + 1
    /\ users' = [i \in DOMAIN users \cup {id} |->
                   IF i = id THEN people' ELSE users[i]]
    /\ userSeq' = IF id > userSeq THEN id ELSE userSeq
    /\ UNCHANGED <<scans, scanSeq, children, tokens, key, call, author>>

\* create_user under a name that is free
Register ==
    LET id == userSeq + 1 IN
    /\ people < MaxAccounts
    /\ people' = people + 1
    /\ users' = [i \in DOMAIN users \cup {id} |->
                   IF i = id THEN people' ELSE users[i]]
    /\ userSeq' = id
    /\ UNCHANGED <<scans, scanSeq, children, tokens, key, call, author>>

Token(id) == [user |-> id, who |-> users[id], key |-> key]

\* verify_user and create_token
Login(id) ==
    /\ Token(id) \notin tokens
    /\ tokens' = tokens \cup {Token(id)}
    /\ UNCHANGED <<dbVars, key, call, people, author>>

\* ACCESS_TOKEN_EXPIRE_MINUTES have passed.
Expire(token) ==
    /\ tokens' = tokens \ {token}
    /\ UNCHANGED <<dbVars, key, call, people, author>>

\* get_current_user: the signature and the row of the user are checked.
Authenticate(c, token) ==
    /\ call[c].pc = "idle"
    /\ token.key = key /\ token.user \in DOMAIN users
    /\ call' = [call EXCEPT ![c].pc = "in", ![c].user = token.user,
                            ![c].who = token.who]
    /\ UNCHANGED <<dbVars, tokens, key, people, author>>

\* A user is deleted by hand, with or without PRAGMA foreign_keys.
DeleteUser(id, enforced) ==
    LET gone == {s \in DOMAIN scans : enforced /\ scans[s].owner = id} IN
    /\ users' = Restrict(users, DOMAIN users \ {id})
    /\ scans' = Restrict(scans, DOMAIN scans \ gone)
    /\ children' = [t \in 1..Tables |-> {r \in children[t] : r.scan \notin gone}]
    /\ UNCHANGED <<userSeq, scanSeq, tokens, key, call, people, author>>

-----------------------------------------------------------------------------
(* save_scan_result *)

\* the user taken as given
FindOwner_unchecked(c) ==
    /\ call[c].pc = "in"
    /\ call' = [call EXCEPT ![c].pc = "save",
                            ![c].alive = call[c].user \in DOMAIN users,
                            ![c].owner = call[c].user]
    /\ UNCHANGED <<dbVars, tokens, key, people, author>>

\* get_user_by_id; the report is unowned when the user is gone.
FindOwner(c) ==
    LET alive == call[c].user \in DOMAIN users IN
    /\ call[c].pc = "in"
    /\ call' = [call EXCEPT ![c].pc = "save", ![c].alive = alive,
                            ![c].owner = IF alive THEN call[c].user ELSE Nobody]
    /\ UNCHANGED <<dbVars, tokens, key, people, author>>

\* the scan and the rows of the report r, under one id
Insert(id, owner, r) ==
    /\ scans' = [s \in DOMAIN scans \cup {id} |->
                   IF s = id THEN [owner |-> owner, report |-> r] ELSE scans[s]]
    /\ children' = [t \in 1..Tables |->
                      children[t] \cup {[scan |-> id, report |-> r]}]

\* save_scan: one transaction, refused by the foreign key of a missing owner.
SaveScan(c) ==
    LET id == scanSeq + 1
        r == Cardinality(Reports) + 1
        owner == call[c].owner
        refused == owner # Nobody /\ owner \notin DOMAIN users
    IN
    /\ call[c].pc = "save" /\ Cardinality(Reports) < MaxReports
    /\ call' = [call EXCEPT ![c].pc = IF refused THEN "raised" ELSE "saved",
                            ![c].scan = id, ![c].report = r]
    /\ IF refused THEN UNCHANGED <<scans, scanSeq, children, author>>
       ELSE /\ Insert(id, owner, r)
            /\ scanSeq' = id
            /\ author' = [x \in Reports \cup {r} |->
                            IF x = r THEN call[c].who ELSE author[x]]
    /\ UNCHANGED <<users, userSeq, tokens, key, people>>

-----------------------------------------------------------------------------
(* get_scan_details and delete_scan of any id *)

Owns(c, id) == id \in DOMAIN scans /\ scans[id].owner = call[c].user

\* SELECT ... FROM scans: the report, or 404
ReadScan(c, id) ==
    /\ call[c].pc = "in"
    /\ call' = IF Owns(c, id)
               THEN [call EXCEPT ![c].pc = "details", ![c].scan = id,
                                 ![c].report = scans[id].report]
               ELSE [call EXCEPT ![c].pc = "missing", ![c].scan = id]
    /\ UNCHANGED <<dbVars, tokens, key, people, author>>

\* SELECT ... FROM the next child table, and the answer after the last
ReadChildren(c) ==
    LET t == call[c].read + 1
        rows == {r \in children[t] : r.scan = call[c].scan}
    IN
    /\ call[c].pc = "details" /\ t \leq Tables
    /\ call' = [call EXCEPT ![c].read = t,
                            ![c].parts = @ \cup {<<r.report, t>> : r \in rows},
                            ![c].pc = IF t = Tables THEN "answered" ELSE @]
    /\ UNCHANGED <<dbVars, tokens, key, people, author>>

\* the child rows deleted first, by statements of their own
FindScan_piecewise(c, id) ==
    /\ call[c].pc = "in"
    /\ call' = [call EXCEPT ![c].pc = IF Owns(c, id) THEN "found" ELSE "missing",
                            ![c].scan = id]
    /\ children' = [t \in 1..Tables |->
                      {r \in children[t] : ~Owns(c, id) \/ r.scan # id}]
    /\ UNCHANGED <<users, userSeq, scans, scanSeq, tokens, key, people, author>>

\* SELECT id FROM scans, outside any transaction
FindScan(c, id) ==
    /\ call[c].pc = "in"
    /\ call' = [call EXCEPT ![c].pc = IF Owns(c, id) THEN "found" ELSE "missing",
                            ![c].scan = id]
    /\ UNCHANGED <<dbVars, tokens, key, people, author>>

\* PRAGMA foreign_keys left out
DeleteScan_unenforced(c) ==
    LET id == call[c].scan IN
    /\ call[c].pc = "found"
    /\ call' = [call EXCEPT ![c].pc = "deleted"]
    /\ scans' = IF Owns(c, id) THEN Restrict(scans, DOMAIN scans \ {id}) ELSE scans
    /\ UNCHANGED <<users, userSeq, scanSeq, children, tokens, key, people, author>>

\* DELETE ... WHERE id=? AND user_id=?, with the child rows; the answer is
\* success even when another call has deleted the row since FindScan.
DeleteScan(c) ==
    LET id == call[c].scan
        gone == {id} \cap {s \in DOMAIN scans : Owns(c, s)}
    IN
    /\ call[c].pc = "found"
    /\ call' = [call EXCEPT ![c].pc = "deleted"]
    /\ scans' = Restrict(scans, DOMAIN scans \ gone)
    /\ children' = [t \in 1..Tables |-> {r \in children[t] : r.scan \notin gone}]
    /\ UNCHANGED <<users, userSeq, scanSeq, tokens, key, people, author>>

-----------------------------------------------------------------------------
\* The process starts again: calls are lost, transactions rolled back, and
\* without a fixed key there is a new one.
Restart ==
    /\ key < MaxRestarts /\ \E c \in Calls : call[c].pc # "lost"
    /\ key' = IF KeyFixed THEN key ELSE key + 1
    /\ call' = [c \in Calls |-> IF call[c].pc = "idle" THEN Idle
                                ELSE [Idle EXCEPT !.pc = "lost"]]
    /\ UNCHANGED <<dbVars, tokens, people, author>>

Next ==
    \/ Register
    \/ \E id \in DOMAIN users : Login(id)
    \/ \E token \in tokens : Expire(token)
    \/ \E id \in DOMAIN users, enforced \in BOOLEAN : DeleteUser(id, enforced)
    \/ \E c \in Calls, token \in tokens : Authenticate(c, token)
    \/ \E c \in Calls, id \in 1..scanSeq : ReadScan(c, id) \/ FindScan(c, id)
    \/ \E c \in Calls : \/ FindOwner(c) \/ SaveScan(c)
                        \/ ReadChildren(c) \/ DeleteScan(c)
    \/ Restart

Spec == Init /\ [][Next]_vars

-----------------------------------------------------------------------------
(* What holds. *)

\* A session, and a call made in it, speaks for the person who logged in: an
\* account registered later never takes over the id (lines 31 and 214-232).
NoImpersonation ==
    /\ \A t \in tokens : t.user \in DOMAIN users => users[t.user] = t.who
    /\ \A c \in Calls : call[c].user \in DOMAIN users =>
                           users[call[c].user] = call[c].who

\* An answer without the rows of a child table is of a report that has been
\* deleted since it was found (350-422).
TornOnlyByDeletion ==
    \A c \in Calls : call[c].pc = "answered" =>
        \/ call[c].scan \notin DOMAIN scans
        \/ \A t \in 1..Tables : <<call[c].report, t>> \in call[c].parts

\* Every child row belongs to the report its scan holds (52-110, 425-446).
ChildrenFollow ==
    \A t \in 1..Tables : \A r \in children[t] :
        r.scan \in DOMAIN scans /\ scans[r.scan].report = r.report

\* A save is refused only when its owner was there when save_scan_result asked
\* and is deleted before save_scan writes (main.py 374-391).
RefusedOnlyByRace ==
    \A c \in Calls : call[c].pc = "raised" =>
        call[c].alive /\ call[c].owner \notin DOMAIN users

\* A stored report changes in nothing, and goes only with its account or in a
\* deletion by the person who asked for it.
OnlyOwnersDelete ==
    [][\A id \in DOMAIN scans :
          \/ id \in DOMAIN scans' /\ scans'[id] = scans[id]
          \/ DOMAIN users' # DOMAIN users
          \/ \E c \in Calls : /\ call[c].pc = "found" /\ call'[c].pc = "deleted"
                              /\ call[c].who = author[scans[id].report]]_vars

-----------------------------------------------------------------------------
(* The inductive invariant behind the properties. *)

Active(c) == call[c].pc \notin {"idle", "lost"}

\* Who an id stands for, wherever the program or a browser says so.
UserClaims == {<<id, users[id]>> : id \in DOMAIN users}
TokenClaims == {<<t.user, t.who>> : t \in tokens}
CallClaims == {<<call[c].user, call[c].who>> : c \in {c \in Calls : Active(c)}}
ReportClaims ==
    {<<scans[s].owner, author[scans[s].report]>> :
        s \in {s \in DOMAIN scans : scans[s].owner # Nobody}}
Claims == UserClaims \cup TokenClaims \cup CallClaims \cup ReportClaims

\* An id stands for one person, for ever.
OnePerson ==
    \A p \in Claims : p[1] \in 1..userSeq /\ \A q \in Claims : p[1] = q[1] => p[2] = q[2]

\* Every report that is stored has its rows in every child table.
Complete ==
    \A id \in DOMAIN scans : \A t \in 1..Tables :
        [scan |-> id, report |-> scans[id].report] \in children[t]

Reading(c) ==
    /\ call[c].pc \in {"idle", "in"} => call[c].read = 0
    /\ call[c].pc \in {"details", "answered"} =>
          /\ call[c].scan \in 1..scanSeq
          /\ call[c].pc = "answered" => call[c].read = Tables
          /\ call[c].scan \in DOMAIN scans =>
                /\ scans[call[c].scan].report = call[c].report
                /\ \A t \in 1..call[c].read : <<call[c].report, t>> \in call[c].parts

Saving(c) ==
    /\ ~Active(c) => call[c].user = 0
    /\ call[c].pc = "save" =>
          call[c].owner = IF call[c].alive THEN call[c].user ELSE Nobody
    /\ call[c].pc = "raised" =>
          call[c].alive /\ call[c].owner \in (1..userSeq) \ DOMAIN users

IInv ==
    /\ TypeOk
    /\ OnePerson
    /\ ChildrenFollow
    /\ Complete
    /\ \A c \in Calls : Reading(c) /\ Saving(c)
=============================================================================
