-------------------------- MODULE ReportStoreProofs --------------------------
(***************************************************************************)
(* Proofs about ReportStore, for any calls, accounts, child tables and     *)
(* restarts: whom a session speaks for, what a stored report keeps, and    *)
(* who can delete it.  The invariant is IInv of ReportStore.               *)
(***************************************************************************)
EXTENDS ReportStore, FiniteSetTheorems, TLAPS

\* The parts of TypeOk, each kept by a lemma of its own.
TokensOk ==
    people \in Nat /\ key \in Nat /\ tokens \subseteq [user : Nat, who : Nat, key : Nat]
UsersOk ==
    /\ userSeq \in Nat /\ DOMAIN users \subseteq 1..userSeq
    /\ \A id \in DOMAIN users : users[id] \in Nat
ScansOk ==
    /\ scanSeq \in Nat /\ DOMAIN scans \subseteq 1..scanSeq
    /\ \A id \in DOMAIN scans : scans[id] \in [owner : 0..userSeq, report : Reports]
AuthorsOk ==
    /\ Cardinality(Reports) \in Nat /\ Reports = 1..Cardinality(Reports)
    /\ \A r \in Reports : author[r] \in Nat
ChildTablesOk == children \in [1..Tables -> SUBSET [scan : Nat, report : Nat]]

\* The store as it starts.
LEMMA InvInit == Init => IInv
<1>. SUFFICES ASSUME Init PROVE IInv
  OBVIOUS
<1>1. Cardinality(Reports) = Accounts
  BY AccountsAssumption, FS_Interval DEF Init, Reports
<1>2. TypeOk
  BY <1>1, AccountsAssumption DEF Init, TypeOk, Reports, Idle, CallStates, PCs, PartsRead,
     Nobody
<1>3. OnePerson
  <2>1. \A p \in Claims : \E id \in 1..Accounts : p = <<id, id>>
    BY AccountsAssumption
    DEF Init, Claims, UserClaims, TokenClaims, CallClaims, ReportClaims, Active, Idle, Nobody
  <2>. QED
    BY <2>1 DEF Init, OnePerson
<1>4. ChildrenFollow
  BY DEF Init, ChildrenFollow
<1>5. Complete
  BY DEF Init, Complete
<1>6. \A c \in Calls : Reading(c) /\ Saving(c)
  BY DEF Init, Reading, Saving, Active, Idle
<1>. QED
  BY <1>2, <1>3, <1>4, <1>5, <1>6 DEF IInv

\* What the assignments of the handlers do to the local state of a call.
LEMMA SetPc ==
  ASSUME call \in [Calls -> CallStates], NEW c \in Calls,
         NEW p \in PCs
  PROVE  [call EXCEPT ![c].pc = p] \in [Calls -> CallStates]
<1>. DEFINE k == [call[c] EXCEPT !.pc = p]
<1>1. k \in CallStates
  BY DEF CallStates
<1>2. [call EXCEPT ![c].pc = p] = [call EXCEPT ![c] = k]
  BY DEF CallStates
<1>. QED
  BY <1>1, <1>2

\* The same for the report it is about.
LEMMA SetScan ==
  ASSUME call \in [Calls -> CallStates], NEW c \in Calls,
         NEW p \in PCs, NEW n \in Nat
  PROVE  [call EXCEPT ![c].pc = p, ![c].scan = n] \in [Calls -> CallStates]
<1>. DEFINE k == [call[c] EXCEPT !.pc = p, !.scan = n]
<1>1. k \in CallStates
  BY DEF CallStates
<1>2. [call EXCEPT ![c].pc = p, ![c].scan = n] = [call EXCEPT ![c] = k]
  BY DEF CallStates
<1>. QED
  BY <1>1, <1>2

\* The same for the id the server put in the token.
LEMMA SetUser ==
  ASSUME call \in [Calls -> CallStates], NEW c \in Calls,
         NEW p \in PCs, NEW n \in Nat, NEW m \in Nat
  PROVE  [call EXCEPT ![c].pc = p, ![c].user = n, ![c].who = m] \in [Calls -> CallStates]
<1>. DEFINE k == [call[c] EXCEPT !.pc = p, !.user = n, !.who = m]
<1>1. k \in CallStates
  BY DEF CallStates
<1>2. [call EXCEPT ![c].pc = p, ![c].user = n, ![c].who = m] = [call EXCEPT ![c] = k]
  BY DEF CallStates
<1>. QED
  BY <1>1, <1>2

\* The same for the owner it looked up.
LEMMA SetOwner ==
  ASSUME call \in [Calls -> CallStates], NEW c \in Calls,
         NEW p \in PCs, NEW b \in BOOLEAN, NEW n \in Nat
  PROVE  [call EXCEPT ![c].pc = p, ![c].alive = b, ![c].owner = n] \in [Calls -> CallStates]
<1>. DEFINE k == [call[c] EXCEPT !.pc = p, !.alive = b, !.owner = n]
<1>1. k \in CallStates
  BY DEF CallStates
<1>2. [call EXCEPT ![c].pc = p, ![c].alive = b, ![c].owner = n] = [call EXCEPT ![c] = k]
  BY DEF CallStates
<1>. QED
  BY <1>1, <1>2

\* The same for the new id.
LEMMA SetReport ==
  ASSUME call \in [Calls -> CallStates], NEW c \in Calls,
         NEW p \in PCs, NEW n \in Nat, NEW m \in Nat
  PROVE  [call EXCEPT ![c].pc = p, ![c].scan = n, ![c].report = m] \in [Calls -> CallStates]
<1>. DEFINE k == [call[c] EXCEPT !.pc = p, !.scan = n, !.report = m]
<1>1. k \in CallStates
  BY DEF CallStates
<1>2. [call EXCEPT ![c].pc = p, ![c].scan = n, ![c].report = m] = [call EXCEPT ![c] = k]
  BY DEF CallStates
<1>. QED
  BY <1>1, <1>2

\* The same for what it has read.
LEMMA SetParts ==
  ASSUME call \in [Calls -> CallStates], NEW c \in Calls,
         NEW n \in Nat, NEW q \in PartsRead, NEW p \in PCs
  PROVE  [call EXCEPT ![c].read = n, ![c].parts = q, ![c].pc = p] \in [Calls -> CallStates]
<1>. DEFINE k == [call[c] EXCEPT !.read = n, !.parts = q, !.pc = p]
<1>1. k \in CallStates
  BY DEF CallStates
<1>2. [call EXCEPT ![c].read = n, ![c].parts = q, ![c].pc = p] = [call EXCEPT ![c] = k]
  BY DEF CallStates
<1>. QED
  BY <1>1, <1>2

\* The local states of the calls keep their types.
LEMMA CallsStep == IInv /\ [Next]_vars => (call \in [Calls -> CallStates])'
<1>. SUFFICES ASSUME IInv, [Next]_vars PROVE call' \in [Calls -> CallStates]
  OBVIOUS
<1>0. /\ call \in [Calls -> CallStates] /\ scanSeq \in Nat
      /\ tokens \subseteq [user : Nat, who : Nat, key : Nat]
      /\ \A id \in DOMAIN scans : scans[id].report \in Nat
      /\ \A t \in 1..Tables : children[t] \subseteq [scan : Nat, report : Nat]
      /\ Cardinality(Reports) \in Nat
  BY DEF IInv, TypeOk
<1>a. \A c \in Calls : call[c].user \in Nat /\ call[c].read \in Nat /\ call[c].pc \in PCs
                       /\ call[c].parts \in PartsRead
  BY <1>0 DEF CallStates
<1>b. 0 \in Nat /\ \A p \in {"in", "save", "details", "found", "answered", "missing", "deleted",
                 "saved", "raised", "lost"} : p \in PCs
  BY DEF PCs
<1>1. ASSUME NEW c \in Calls, NEW token \in tokens, Authenticate(c, token)
      PROVE  call' \in [Calls -> CallStates]
  <2>1. "in" \in PCs /\ token.user \in Nat /\ token.who \in Nat
    BY <1>0, <1>b
  <2>. QED
    BY <1>0, <1>1, <2>1, SetUser DEF Authenticate
<1>2. ASSUME NEW c \in Calls, FindOwner(c) PROVE call' \in [Calls -> CallStates]
  <2>. DEFINE alive == call[c].user \in DOMAIN users
              owner == IF alive THEN call[c].user ELSE Nobody
  <2>1. "save" \in PCs /\ alive \in BOOLEAN /\ owner \in Nat
    BY <1>a, <1>b DEF Nobody
  <2>2. call' = [call EXCEPT ![c].pc = "save", ![c].alive = alive, ![c].owner = owner]
    BY <1>2 DEF FindOwner
  <2>. HIDE DEF alive, owner
  <2>. QED
    BY <1>0, <2>1, <2>2, SetOwner
<1>3. ASSUME NEW c \in Calls, SaveScan(c) PROVE call' \in [Calls -> CallStates]
  <2>. DEFINE refused == call[c].owner # Nobody /\ call[c].owner \notin DOMAIN users
              p == IF refused THEN "raised" ELSE "saved"
              id == scanSeq + 1
              r == Cardinality(Reports) + 1
  <2>1. p \in PCs /\ id \in Nat /\ r \in Nat
    BY <1>0, <1>b
  <2>2. call' = [call EXCEPT ![c].pc = p, ![c].scan = id, ![c].report = r]
    BY <1>3 DEF SaveScan
  <2>. HIDE DEF p, id, r
  <2>. QED
    BY <1>0, <2>1, <2>2, SetReport
<1>4. ASSUME NEW c \in Calls, NEW id \in 1..scanSeq, ReadScan(c, id)
      PROVE  call' \in [Calls -> CallStates]
  <2>1. CASE Owns(c, id)
    <3>1. "details" \in PCs /\ id \in Nat /\ scans[id].report \in Nat
      BY <1>0, <1>b, <2>1 DEF Owns
    <3>2. call' = [call EXCEPT ![c].pc = "details", ![c].scan = id, ![c].report = scans[id].report]
      BY <1>4, <2>1 DEF ReadScan
    <3>. QED
      BY <1>0, <3>1, <3>2, SetReport
  <2>2. CASE ~Owns(c, id)
    <3>1. "missing" \in PCs /\ id \in Nat
      BY <1>0, <1>b
    <3>2. call' = [call EXCEPT ![c].pc = "missing", ![c].scan = id]
      BY <1>4, <2>2 DEF ReadScan
    <3>. QED
      BY <1>0, <3>1, <3>2, SetScan
  <2>. QED
    BY <2>1, <2>2
<1>5. ASSUME NEW c \in Calls, ReadChildren(c) PROVE call' \in [Calls -> CallStates]
  <2>. DEFINE t == call[c].read + 1
              rows == {r \in children[t] : r.scan = call[c].scan}
              q == call[c].parts \cup {<<r.report, t>> : r \in rows}
              p == IF t = Tables THEN "answered" ELSE call[c].pc
  <2>1. t \in 1..Tables
    <3>1. call[c].read + 1 \leq Tables
      BY <1>5 DEF ReadChildren
    <3>. QED
      BY <1>a, <3>1, AccountsAssumption
  <2>2. {<<r.report, t>> : r \in rows} \subseteq Nat \X Nat
    <3>1. \A r \in rows : r.report \in Nat
      BY <1>0, <2>1
    <3>. HIDE DEF t, rows
    <3>. QED
      BY <2>1, <3>1
  <2>3. p \in PCs /\ t \in Nat /\ q \in PartsRead
    BY <1>a, <1>b, <2>1, <2>2 DEF PartsRead
  <2>4. call' = [call EXCEPT ![c].read = t, ![c].parts = q, ![c].pc = p]
    BY <1>0, <1>5 DEF ReadChildren, CallStates
  <2>. HIDE DEF t, p, q
  <2>. QED
    BY <1>0, <2>3, <2>4, SetParts
<1>6. ASSUME NEW c \in Calls, NEW id \in 1..scanSeq, FindScan(c, id)
      PROVE  call' \in [Calls -> CallStates]
  <2>. DEFINE p == IF Owns(c, id) THEN "found" ELSE "missing"
  <2>1. p \in PCs /\ id \in Nat
    BY <1>0, <1>b
  <2>2. call' = [call EXCEPT ![c].pc = p, ![c].scan = id]
    BY <1>6 DEF FindScan
  <2>. HIDE DEF p
  <2>. QED
    BY <1>0, <2>1, <2>2, SetScan
<1>7. ASSUME NEW c \in Calls, DeleteScan(c) PROVE call' \in [Calls -> CallStates]
  BY <1>0, <1>b, <1>7, SetPc DEF DeleteScan
<1>8. CASE Restart
  <2>1. Idle \in CallStates
    BY DEF Idle, CallStates, PCs, PartsRead, Nobody
  <2>. HIDE DEF Idle
  <2>2. [Idle EXCEPT !.pc = "lost"] \in CallStates
    BY <1>b, <2>1 DEF CallStates
  <2>. QED
    BY <1>8, <2>1, <2>2 DEF Restart
<1>9. CASE UNCHANGED call
  BY <1>0, <1>9
<1>. QED
  BY <1>1, <1>2, <1>3, <1>4, <1>5, <1>6, <1>7, <1>8, <1>9
  DEF Next, vars, Register, Login, Expire, DeleteUser

\* Tokens, keys and the number of people.
LEMMA TokensStep == IInv /\ [Next]_vars => TokensOk'
<1>. SUFFICES ASSUME IInv, [Next]_vars PROVE TokensOk'
  OBVIOUS
<1>0. TypeOk /\ OnePerson /\ ChildrenFollow /\ Complete /\ \A c \in Calls : Reading(c) /\ Saving(c)
  BY DEF IInv
<1>1. CASE Register
  BY <1>0, <1>1 DEF TokensOk, TypeOk, Register
<1>2. ASSUME NEW id \in DOMAIN users, Login(id) PROVE TokensOk'
  BY <1>0, <1>2 DEF TokensOk, TypeOk, Token, dbVars, Login
<1>3. ASSUME NEW token \in tokens, Expire(token) PROVE TokensOk'
  BY <1>0, <1>3 DEF TokensOk, TypeOk, dbVars, Expire
<1>4. CASE Restart
  BY <1>0, <1>4 DEF TokensOk, TypeOk, dbVars, Restart
<1>5. CASE UNCHANGED <<tokens, people, key>>
  BY <1>0, <1>5 DEF TokensOk, TypeOk
<1>. QED
  BY <1>1, <1>2, <1>3, <1>4, <1>5 DEF Next, DeleteUser, Authenticate, ReadScan,
     FindScan, FindOwner, SaveScan, ReadChildren, DeleteScan, vars, dbVars

\* The table of users.
LEMMA UsersStep == IInv /\ [Next]_vars => UsersOk'
<1>. SUFFICES ASSUME IInv, [Next]_vars PROVE UsersOk'
  OBVIOUS
<1>0. TypeOk /\ OnePerson /\ ChildrenFollow /\ Complete /\ \A c \in Calls : Reading(c) /\ Saving(c)
  BY DEF IInv
<1>1. CASE Register
  BY <1>0, <1>1 DEF UsersOk, TypeOk, Register
<1>2. ASSUME NEW id \in DOMAIN users, NEW enforced \in BOOLEAN, DeleteUser(id, enforced)
      PROVE  UsersOk'
  BY <1>0, <1>2 DEF UsersOk, TypeOk, Restrict, DeleteUser
<1>3. CASE UNCHANGED <<users, userSeq>>
  BY <1>0, <1>3 DEF UsersOk, TypeOk
<1>. QED
  BY <1>1, <1>2, <1>3 DEF Next, Login, Expire, Authenticate, ReadScan, FindScan,
     FindOwner, SaveScan, ReadChildren, DeleteScan, Restart, vars, dbVars

\* What save_scan writes, when it is not refused.
NewReport(c) ==
    LET id == scanSeq + 1
        r == Cardinality(Reports) + 1
    IN
    /\ scanSeq' = id /\ id \notin DOMAIN scans
    /\ DOMAIN scans' = DOMAIN scans \cup {id}
    /\ scans'[id] = [owner |-> call[c].owner, report |-> r]
    /\ \A s \in DOMAIN scans : scans'[s] = scans[s]
    /\ children' = [t \in 1..Tables |-> children[t] \cup {[scan |-> id, report |-> r]}]
    /\ r \notin Reports /\ Reports' = Reports \cup {r} /\ Reports' = 1..r
    /\ author'[r] = call[c].who
    /\ \A x \in Reports : author'[x] = author[x]
    /\ call[c].owner # Nobody => call[c].owner \in DOMAIN users

\* What an insert adds.
LEMMA Saved ==
  ASSUME TypeOk, NEW c \in Calls, SaveScan(c)
  PROVE  /\ call[c].pc = "save" /\ UNCHANGED <<users, userSeq, tokens, key, people>>
         /\ \/ UNCHANGED <<scans, scanSeq, children, author>>
            \/ NewReport(c)
<1>. DEFINE id == scanSeq + 1
            r == Cardinality(Reports) + 1
<1>1. /\ id \in Nat /\ id \notin DOMAIN scans /\ r \in Nat /\ r \notin Reports
      /\ Reports \cup {r} = 1..r
  BY DEF TypeOk
<1>2. CASE ~(call[c].owner # Nobody /\ call[c].owner \notin DOMAIN users)
  <2>1. /\ scans' = [s \in DOMAIN scans \cup {id} |->
                       IF s = id THEN [owner |-> call[c].owner, report |-> r] ELSE scans[s]]
        /\ author' = [x \in Reports \cup {r} |-> IF x = r THEN call[c].who ELSE author[x]]
        /\ children' = [t \in 1..Tables |-> children[t] \cup {[scan |-> id, report |-> r]}]
        /\ scanSeq' = id
    BY <1>2 DEF SaveScan, Insert
  <2>2. DOMAIN author' = Reports \cup {r} /\ author'[r] = call[c].who
        /\ \A x \in Reports : author'[x] = author[x]
    BY <1>1, <2>1
  <2>3. DOMAIN scans' = DOMAIN scans \cup {id}
        /\ scans'[id] = [owner |-> call[c].owner, report |-> r]
        /\ \A s \in DOMAIN scans : scans'[s] = scans[s]
    BY <1>1, <2>1
  <2>4. Reports' = Reports \cup {r}
    BY <2>2 DEF Reports
  <2>5. NewReport(c)
    BY <1>1, <1>2, <2>1, <2>2, <2>3, <2>4 DEF NewReport
  <2>. QED
    BY <2>5 DEF SaveScan
<1>3. CASE call[c].owner # Nobody /\ call[c].owner \notin DOMAIN users
  BY <1>3 DEF SaveScan
<1>. QED
  BY <1>2, <1>3

\* The table of scans.
LEMMA RowsStep == IInv /\ [Next]_vars => ScansOk'
<1>. SUFFICES ASSUME IInv, [Next]_vars PROVE ScansOk'
  OBVIOUS
<1>0. TypeOk /\ OnePerson /\ ChildrenFollow /\ Complete /\ \A c \in Calls : Reading(c) /\ Saving(c)
  BY DEF IInv
<1>1. CASE Register
  BY <1>0, <1>1, Saved DEF ScansOk, TypeOk, Reports, Register
<1>2. ASSUME NEW id \in DOMAIN users, NEW enforced \in BOOLEAN, DeleteUser(id, enforced)
      PROVE  ScansOk'
  BY <1>0, <1>2, Saved DEF ScansOk, TypeOk, Reports, Restrict, DeleteUser
<1>3. ASSUME NEW c \in Calls, SaveScan(c) PROVE ScansOk'
  <2>0. call[c] \in CallStates
    BY <1>0 DEF TypeOk
  <2>1. CASE UNCHANGED <<scans, scanSeq, children, author>>
    BY <1>0, <1>3, <2>1, Saved DEF ScansOk, TypeOk, Reports
  <2>2. CASE NewReport(c)
    <3>. DEFINE id == scanSeq + 1
                r == Cardinality(Reports) + 1
    <3>1. id \in Nat /\ scanSeq' = id /\ DOMAIN scans' \subseteq 1..id
      BY <1>0, <2>2 DEF NewReport, TypeOk
    <3>2. userSeq' = userSeq /\ DOMAIN users \subseteq 1..userSeq /\ userSeq \in Nat
      BY <1>0, <1>3, Saved DEF TypeOk
    <3>3. call[c].owner \in 0..userSeq
      BY <2>0, <2>2, <3>2 DEF NewReport, Nobody, CallStates
    <3>4. \A i \in DOMAIN scans : scans'[i] \in [owner : 0..userSeq', report : Reports']
      BY <1>0, <2>2, <3>2 DEF NewReport, TypeOk
    <3>5. scans'[id] \in [owner : 0..userSeq', report : Reports']
      BY <2>2, <3>2, <3>3 DEF NewReport
    <3>. QED
      BY <2>2, <3>1, <3>4, <3>5 DEF NewReport, ScansOk
  <2>. QED
    BY <1>0, <1>3, <2>1, <2>2, Saved
<1>4. ASSUME NEW c \in Calls, DeleteScan(c) PROVE ScansOk'
  BY <1>0, <1>4, Saved DEF ScansOk, TypeOk, Reports, Restrict, DeleteScan
<1>5. CASE UNCHANGED <<scans, scanSeq, userSeq, author>>
  BY <1>0, <1>5 DEF ScansOk, TypeOk, Reports
<1>. QED
  BY <1>1, <1>2, <1>3, <1>4, <1>5 DEF Next, Login, Expire, Authenticate, ReadScan,
     FindScan, FindOwner, ReadChildren, Restart, vars, dbVars

\* The authors of the reports.
LEMMA AuthorsStep == IInv /\ [Next]_vars => AuthorsOk'
<1>. SUFFICES ASSUME IInv, [Next]_vars PROVE AuthorsOk'
  OBVIOUS
<1>0. TypeOk /\ OnePerson /\ ChildrenFollow /\ Complete /\ \A c \in Calls : Reading(c) /\ Saving(c)
  BY DEF IInv
<1>1. ASSUME NEW c \in Calls, SaveScan(c) PROVE AuthorsOk'
  <2>0. call[c].who \in Nat
    BY <1>0 DEF TypeOk, CallStates
  <2>1. CASE UNCHANGED <<scans, scanSeq, children, author>>
    BY <1>0, <1>1, <2>1 DEF AuthorsOk, TypeOk, Reports
  <2>2. CASE NewReport(c)
    <3>. DEFINE r == Cardinality(Reports) + 1
    <3>1. r \in Nat
      BY <1>0 DEF TypeOk
    <3>2. Reports' = 1..r /\ \A x \in Reports' : author'[x] \in Nat
      BY <1>0, <2>0, <2>2 DEF NewReport, TypeOk
    <3>3. Cardinality(1..r) = r
      BY <3>1, FS_Interval
    <3>. QED
      BY <3>1, <3>2, <3>3 DEF AuthorsOk
  <2>. QED
    BY <1>0, <1>1, <2>1, <2>2, Saved
<1>2. CASE UNCHANGED author
  BY <1>0, <1>2 DEF AuthorsOk, TypeOk, Reports
<1>. QED
  BY <1>1, <1>2 DEF Next, Register, Login, Expire, DeleteUser, Authenticate, ReadScan,
     FindScan, FindOwner, ReadChildren, DeleteScan, Restart, vars, dbVars

\* The child tables.
LEMMA ChildTablesStep == IInv /\ [Next]_vars => ChildTablesOk'
<1>. SUFFICES ASSUME IInv, [Next]_vars PROVE ChildTablesOk'
  OBVIOUS
<1>0. TypeOk /\ OnePerson /\ ChildrenFollow /\ Complete /\ \A c \in Calls : Reading(c) /\ Saving(c)
  BY DEF IInv
<1>1. ASSUME NEW id \in DOMAIN users, NEW enforced \in BOOLEAN, DeleteUser(id, enforced)
      PROVE  ChildTablesOk'
  BY <1>0, <1>1 DEF ChildTablesOk, TypeOk, Reports, DeleteUser
<1>2. ASSUME NEW c \in Calls, SaveScan(c) PROVE ChildTablesOk'
  <2>1. CASE UNCHANGED <<scans, scanSeq, children, author>>
    BY <1>0, <1>2, <2>1 DEF ChildTablesOk, TypeOk
  <2>2. CASE NewReport(c)
    <3>. DEFINE new == [scan |-> scanSeq + 1, report |-> Cardinality(Reports) + 1]
    <3>1. new \in [scan : Nat, report : Nat]
      BY <1>0 DEF TypeOk
    <3>2. children' = [t \in 1..Tables |-> children[t] \cup {new}]
      BY <2>2 DEF NewReport
    <3>. HIDE DEF new
    <3>. QED
      BY <1>0, <3>1, <3>2 DEF ChildTablesOk, TypeOk
  <2>. QED
    BY <1>0, <1>2, <2>1, <2>2, Saved
<1>3. ASSUME NEW c \in Calls, DeleteScan(c) PROVE ChildTablesOk'
  BY <1>0, <1>3 DEF ChildTablesOk, TypeOk, Reports, DeleteScan
<1>4. CASE UNCHANGED children
  BY <1>0, <1>4 DEF ChildTablesOk, TypeOk
<1>. QED
  BY <1>1, <1>2, <1>3, <1>4 DEF Next, Register, Login, Expire, Authenticate, ReadScan,
     FindScan, FindOwner, ReadChildren, Restart, vars, dbVars

\* Child rows follow their scan.
LEMMA ChildrenStep == IInv /\ [Next]_vars => ChildrenFollow'
<1>. SUFFICES ASSUME IInv, [Next]_vars PROVE ChildrenFollow'
  OBVIOUS
<1>0. TypeOk /\ OnePerson /\ ChildrenFollow /\ Complete /\ \A c \in Calls : Reading(c) /\ Saving(c)
  BY DEF IInv
<1>1. ASSUME NEW id \in DOMAIN users, NEW enforced \in BOOLEAN, DeleteUser(id, enforced)
      PROVE  ChildrenFollow'
  BY <1>0, <1>1 DEF TypeOk, ChildrenFollow, Reports, Restrict, DeleteUser
<1>2. ASSUME NEW c \in Calls, SaveScan(c) PROVE ChildrenFollow'
  <2>1. CASE UNCHANGED <<scans, scanSeq, children, author>>
    BY <1>0, <1>2, <2>1 DEF ChildrenFollow
  <2>2. CASE NewReport(c)
    BY <1>0, <2>2 DEF NewReport, ChildrenFollow, TypeOk
  <2>. QED
    BY <1>0, <1>2, <2>1, <2>2, Saved
<1>3. ASSUME NEW c \in Calls, DeleteScan(c) PROVE ChildrenFollow'
  BY <1>0, <1>3 DEF TypeOk, ChildrenFollow, Reports, Restrict, Owns, DeleteScan
<1>4. CASE UNCHANGED <<scans, children>>
  BY <1>0, <1>4 DEF ChildrenFollow
<1>. QED
  BY <1>1, <1>2, <1>3, <1>4 DEF Next, Register, Login, Expire, Authenticate, ReadScan,
     FindScan, FindOwner, ReadChildren, Restart, vars, dbVars

\* A stored report stays complete.
LEMMA CompleteStep == IInv /\ [Next]_vars => Complete'
<1>. SUFFICES ASSUME IInv, [Next]_vars PROVE Complete'
  OBVIOUS
<1>0. TypeOk /\ OnePerson /\ ChildrenFollow /\ Complete /\ \A c \in Calls : Reading(c) /\ Saving(c)
  BY DEF IInv
<1>1. ASSUME NEW id \in DOMAIN users, NEW enforced \in BOOLEAN, DeleteUser(id, enforced)
      PROVE  Complete'
  BY <1>0, <1>1 DEF TypeOk, Complete, Reports, Restrict, DeleteUser
<1>2. ASSUME NEW c \in Calls, SaveScan(c) PROVE Complete'
  <2>1. CASE UNCHANGED <<scans, scanSeq, children, author>>
    BY <1>0, <1>2, <2>1 DEF Complete
  <2>2. CASE NewReport(c)
    BY <1>0, <2>2 DEF NewReport, Complete, TypeOk
  <2>. QED
    BY <1>0, <1>2, <2>1, <2>2, Saved
<1>3. ASSUME NEW c \in Calls, DeleteScan(c) PROVE Complete'
  BY <1>0, <1>3 DEF TypeOk, Complete, Reports, Restrict, Owns, DeleteScan
<1>4. CASE UNCHANGED <<scans, children>>
  BY <1>0, <1>4 DEF Complete
<1>. QED
  BY <1>1, <1>2, <1>3, <1>4 DEF Next, Register, Login, Expire, Authenticate, ReadScan,
     FindScan, FindOwner, ReadChildren, Restart, vars, dbVars

-----------------------------------------------------------------------------
(* Who an id stands for *)

SpeaksAsBefore(c) ==
    Active(c)' =>
        \/ Active(c) /\ call'[c].user = call[c].user /\ call'[c].who = call[c].who
        \/ \E t \in tokens : call'[c].user = t.user /\ call'[c].who = t.who

NewIdsOnly ==
    \/ userSeq' = userSeq /\ UserClaims' \subseteq UserClaims
    \/ /\ userSeq' = userSeq + 1
       /\ UserClaims' \subseteq UserClaims \cup {<<userSeq + 1, people + 1>>}

\* A call speaks for whom it spoke before, or for whom its token does.
LEMMA WhoStep == IInv /\ [Next]_vars => \A x \in Calls : SpeaksAsBefore(x)
<1>. SUFFICES ASSUME IInv, [Next]_vars PROVE \A x \in Calls : SpeaksAsBefore(x)
  OBVIOUS
<1>a. /\ call \in [Calls -> CallStates]
      /\ \A c \in Calls : ~Active(c) => call[c].user = 0
      /\ \A s \in DOMAIN scans : scans[s].report \in Reports
  BY DEF IInv, TypeOk, Saving
<1>0. TypeOk /\ OnePerson /\ ChildrenFollow /\ Complete /\ \A c \in Calls : Reading(c) /\ Saving(c)
  BY DEF IInv
<1>1. ASSUME NEW c \in Calls, NEW token \in tokens, Authenticate(c, token)
      PROVE  \A x \in Calls : SpeaksAsBefore(x)
  BY <1>0, <1>1, <1>a DEF SpeaksAsBefore, CallStates, Active, dbVars, Authenticate
<1>2. ASSUME NEW c \in Calls, NEW id \in 1..scanSeq, ReadScan(c, id)
      PROVE  \A x \in Calls : SpeaksAsBefore(x)
  BY <1>0, <1>2, <1>a DEF SpeaksAsBefore, CallStates, Active, dbVars, ReadScan
<1>3. ASSUME NEW c \in Calls, NEW id \in 1..scanSeq, FindScan(c, id)
      PROVE  \A x \in Calls : SpeaksAsBefore(x)
  BY <1>0, <1>3, <1>a DEF SpeaksAsBefore, CallStates, Active, dbVars, FindScan
<1>4. ASSUME NEW c \in Calls, FindOwner(c) PROVE \A x \in Calls : SpeaksAsBefore(x)
  BY <1>0, <1>4, <1>a DEF SpeaksAsBefore, CallStates, Active, dbVars, FindOwner
<1>5. ASSUME NEW c \in Calls, SaveScan(c) PROVE \A x \in Calls : SpeaksAsBefore(x)
  BY <1>0, <1>5, <1>a DEF SpeaksAsBefore, CallStates, Active, SaveScan
<1>6. ASSUME NEW c \in Calls, ReadChildren(c) PROVE \A x \in Calls : SpeaksAsBefore(x)
  BY <1>0, <1>6, <1>a DEF SpeaksAsBefore, CallStates, Active, dbVars, ReadChildren
<1>7. ASSUME NEW c \in Calls, DeleteScan(c) PROVE \A x \in Calls : SpeaksAsBefore(x)
  BY <1>0, <1>7, <1>a DEF SpeaksAsBefore, CallStates, Active, DeleteScan
<1>8. CASE Restart
  BY <1>0, <1>8, <1>a DEF SpeaksAsBefore, CallStates, Active, dbVars, Idle, Restart
<1>9. CASE UNCHANGED call
  BY <1>0, <1>9 DEF SpeaksAsBefore, Active
<1>. QED
  BY <1>1, <1>2, <1>3, <1>4, <1>5, <1>6, <1>7, <1>8, <1>9 DEF Next, Register, Login,
     Expire, DeleteUser, vars, dbVars

\* Accounts: a registration takes an id never used.
LEMMA UserClaimsStep == IInv /\ [Next]_vars => NewIdsOnly
<1>. SUFFICES ASSUME IInv, [Next]_vars PROVE NewIdsOnly
  OBVIOUS
<1>0. TypeOk /\ OnePerson /\ ChildrenFollow /\ Complete /\ \A c \in Calls : Reading(c) /\ Saving(c)
  BY DEF IInv
<1>1. CASE Register
  BY <1>0, <1>1 DEF NewIdsOnly, TypeOk, UserClaims, Register
<1>2. ASSUME NEW id \in DOMAIN users, NEW enforced \in BOOLEAN, DeleteUser(id, enforced)
      PROVE  NewIdsOnly
  BY <1>0, <1>2 DEF NewIdsOnly, TypeOk, UserClaims, Restrict, DeleteUser
<1>3. CASE UNCHANGED <<users, userSeq>>
  BY <1>0, <1>3 DEF NewIdsOnly, UserClaims
<1>. QED
  BY <1>1, <1>2, <1>3 DEF Next, Login, Expire, Authenticate, ReadScan, FindScan,
     FindOwner, SaveScan, ReadChildren, DeleteScan, Restart, vars, dbVars

\* Sessions.
LEMMA TokenClaimsStep ==
  IInv /\ [Next]_vars => TokenClaims' \subseteq TokenClaims \cup UserClaims
<1>. SUFFICES ASSUME IInv, [Next]_vars PROVE TokenClaims' \subseteq TokenClaims \cup UserClaims
  OBVIOUS
<1>0. TypeOk /\ OnePerson /\ ChildrenFollow /\ Complete /\ \A c \in Calls : Reading(c) /\ Saving(c)
  BY DEF IInv
<1>1. ASSUME NEW id \in DOMAIN users, Login(id)
      PROVE  TokenClaims' \subseteq TokenClaims \cup UserClaims
  BY <1>0, <1>1 DEF TokenClaims, UserClaims, Token, dbVars, Login
<1>2. ASSUME NEW token \in tokens, Expire(token)
      PROVE  TokenClaims' \subseteq TokenClaims \cup UserClaims
  BY <1>0, <1>2 DEF TokenClaims, UserClaims, dbVars, Expire
<1>3. CASE UNCHANGED tokens
  BY <1>0, <1>3 DEF TokenClaims
<1>. QED
  BY <1>1, <1>2, <1>3 DEF Next, Register, DeleteUser, Authenticate, ReadScan, FindScan,
     FindOwner, SaveScan, ReadChildren, DeleteScan, Restart, vars, dbVars

\* What the calls in progress say of the ids.
LEMMA CallClaimsStep ==
  IInv /\ [Next]_vars => CallClaims' \subseteq CallClaims \cup TokenClaims
BY WhoStep DEF SpeaksAsBefore, CallClaims, TokenClaims

\* What the reports say of their owners.
LEMMA ReportClaimsStep ==
  IInv /\ [Next]_vars => ReportClaims' \subseteq ReportClaims \cup CallClaims
<1>. SUFFICES ASSUME IInv, [Next]_vars PROVE ReportClaims' \subseteq ReportClaims \cup CallClaims
  OBVIOUS
<1>a. /\ call \in [Calls -> CallStates]
      /\ \A c \in Calls : ~Active(c) => call[c].user = 0
      /\ \A s \in DOMAIN scans : scans[s].report \in Reports
  BY DEF IInv, TypeOk, Saving
<1>0. TypeOk /\ OnePerson /\ ChildrenFollow /\ Complete /\ \A c \in Calls : Reading(c) /\ Saving(c)
  BY DEF IInv
<1>1. ASSUME NEW id \in DOMAIN users, NEW enforced \in BOOLEAN, DeleteUser(id, enforced)
      PROVE  ReportClaims' \subseteq ReportClaims \cup CallClaims
  BY <1>0, <1>1, <1>a DEF ReportClaims, Nobody, Restrict, DeleteUser
<1>2. ASSUME NEW c \in Calls, SaveScan(c)
      PROVE  ReportClaims' \subseteq ReportClaims \cup CallClaims
  <2>1. CASE UNCHANGED <<scans, scanSeq, children, author>>
    BY <2>1 DEF ReportClaims
  <2>2. CASE NewReport(c)
    <3>. DEFINE id == scanSeq + 1
                r == Cardinality(Reports) + 1
    <3>1. call[c].pc = "save" /\ Active(c) /\ call[c].owner \in {call[c].user, Nobody}
      BY <1>0, <1>2, Saved DEF Active, Saving
    <3>2. \A s \in DOMAIN scans : scans'[s] = scans[s]
                                  /\ author'[scans[s].report] = author[scans[s].report]
      BY <1>a, <2>2 DEF NewReport
    <3>3. scans'[id].owner = call[c].owner /\ author'[scans'[id].report] = call[c].who
      BY <2>2 DEF NewReport
    <3>4. DOMAIN scans' = DOMAIN scans \cup {id}
      BY <2>2 DEF NewReport
    <3>. QED
      BY <3>1, <3>2, <3>3, <3>4 DEF ReportClaims, CallClaims, Nobody
  <2>. QED
    BY <1>0, <1>2, <2>1, <2>2, Saved
<1>3. ASSUME NEW c \in Calls, DeleteScan(c)
      PROVE  ReportClaims' \subseteq ReportClaims \cup CallClaims
  BY <1>0, <1>3, <1>a DEF ReportClaims, Nobody, Restrict, Owns, DeleteScan
<1>4. CASE UNCHANGED <<scans, author>>
  BY <1>0, <1>4 DEF ReportClaims
<1>. QED
  BY <1>1, <1>2, <1>3, <1>4 DEF Next, Register, Login, Expire, Authenticate, ReadScan,
     FindScan, FindOwner, ReadChildren, Restart, vars, dbVars

\* An id that stands for somebody never stands for anybody else.
LEMMA OnePersonStep == IInv /\ [Next]_vars => OnePerson'
<1>. SUFFICES ASSUME IInv, [Next]_vars PROVE OnePerson'
  OBVIOUS
<1>. DEFINE new == <<userSeq + 1, people + 1>>
<1>1. OnePerson /\ userSeq \in Nat
  BY DEF IInv, TypeOk
<1>2. \/ userSeq' = userSeq /\ Claims' \subseteq Claims
      \/ userSeq' = userSeq + 1 /\ Claims' \subseteq Claims \cup {new}
  BY UserClaimsStep, TokenClaimsStep, CallClaimsStep, ReportClaimsStep DEF NewIdsOnly,
     Claims
<1>3. new[1] = userSeq + 1
  OBVIOUS
<1>4. CASE userSeq' = userSeq /\ Claims' \subseteq Claims
  BY <1>1, <1>4 DEF OnePerson
<1>5. CASE userSeq' = userSeq + 1 /\ Claims' \subseteq Claims \cup {new}
  <2>. HIDE DEF new
  <2>1. \A p \in Claims : p[1] \in 1..userSeq /\ p[1] # new[1]
    BY <1>1, <1>3 DEF OnePerson
  <2>2. \A p \in Claims' : p[1] \in 1..userSeq'
    BY <1>1, <1>3, <1>5, <2>1
  <2>3. \A p, q \in Claims' : p[1] = q[1] => p[2] = q[2]
    BY <1>1, <1>5, <2>1 DEF OnePerson
  <2>. QED
    BY <2>2, <2>3 DEF OnePerson
<1>. QED
  BY <1>2, <1>4, <1>5

\* What a call has read is of the report it asked for.
LEMMA ReadingStep == IInv /\ [Next]_vars => (\A x \in Calls : Reading(x)')
<1>. SUFFICES ASSUME IInv, [Next]_vars PROVE (\A x \in Calls : Reading(x)')
  OBVIOUS
<1>a. call \in [Calls -> CallStates] /\ scanSeq \in Nat /\ userSeq \in Nat
  BY DEF IInv, TypeOk
<1>0. TypeOk /\ OnePerson /\ ChildrenFollow /\ Complete /\ \A c \in Calls : Reading(c) /\ Saving(c)
  BY DEF IInv
<1>1. ASSUME NEW id \in DOMAIN users, NEW enforced \in BOOLEAN, DeleteUser(id, enforced)
      PROVE  (\A x \in Calls : Reading(x)')
  BY <1>0, <1>1, <1>a DEF Reading, CallStates, Restrict, DeleteUser
<1>2. ASSUME NEW c \in Calls, NEW token \in tokens, Authenticate(c, token)
      PROVE  (\A x \in Calls : Reading(x)')
  BY <1>0, <1>2, <1>a DEF Reading, CallStates, dbVars, Authenticate
<1>3. ASSUME NEW c \in Calls, NEW id \in 1..scanSeq, ReadScan(c, id)
      PROVE  (\A x \in Calls : Reading(x)')
  <2>1. \A d \in Calls \ {c} : call'[d] = call[d]
    BY <1>a, <1>3 DEF ReadScan
  <2>2. UNCHANGED <<scans, scanSeq>> /\ call[c].pc = "in"
    BY <1>3 DEF ReadScan, dbVars
  <2>3. Reading(c)'
    BY <1>0, <1>a, <1>3, <2>2 DEF ReadScan, Reading, Owns, CallStates
  <2>4. ASSUME NEW d \in Calls \ {c} PROVE Reading(d)'
    BY <1>0, <2>1, <2>2, <2>4 DEF Reading
  <2>. QED
    BY <2>3, <2>4
<1>4. ASSUME NEW c \in Calls, NEW id \in 1..scanSeq, FindScan(c, id)
      PROVE  (\A x \in Calls : Reading(x)')
  BY <1>0, <1>4, <1>a DEF Reading, CallStates, dbVars, Owns, FindScan
<1>5. ASSUME NEW c \in Calls, FindOwner(c) PROVE (\A x \in Calls : Reading(x)')
  BY <1>0, <1>5, <1>a DEF Reading, CallStates, dbVars, FindOwner
<1>6. ASSUME NEW c \in Calls, SaveScan(c) PROVE (\A x \in Calls : Reading(x)')
  <2>1. \A d \in Calls \ {c} : call'[d] = call[d]
    BY <1>a, <1>6 DEF SaveScan
  <2>2. call'[c].pc \notin {"idle", "in", "details", "answered"}
    BY <1>a, <1>6 DEF SaveScan, CallStates
  <2>3. CASE UNCHANGED <<scans, scanSeq, children, author>>
    BY <1>0, <2>1, <2>2, <2>3 DEF Reading
  <2>4. CASE NewReport(c)
    <3>1. ASSUME NEW d \in Calls \ {c} PROVE Reading(d)'
      <4>1. call'[d] = call[d] /\ scanSeq' = scanSeq + 1
        BY <2>1, <2>4 DEF NewReport
      <4>2. ASSUME call[d].pc \in {"details", "answered"}
            PROVE  /\ call[d].scan \in 1..scanSeq
                   /\ call[d].scan \in DOMAIN scans' =>
                         call[d].scan \in DOMAIN scans
                         /\ scans'[call[d].scan] = scans[call[d].scan]
        BY <1>0, <1>a, <2>4, <4>2 DEF NewReport, Reading
      <4>. QED
        BY <1>0, <1>a, <4>1, <4>2 DEF Reading
    <3>. QED
      BY <2>2, <3>1 DEF Reading
  <2>. QED
    BY <1>0, <1>6, <2>3, <2>4, Saved
<1>7. ASSUME NEW c \in Calls, ReadChildren(c) PROVE (\A x \in Calls : Reading(x)')
  <2>. DEFINE t == call[c].read + 1
              k == call[c].scan
              q == call[c].parts \cup {<<r.report, t>> : r \in {r \in children[t] : r.scan = k}}
  <2>1. \A d \in Calls \ {c} : call'[d] = call[d]
    BY <1>a, <1>7 DEF ReadChildren
  <2>2. /\ call'[c].scan = k /\ call'[c].report = call[c].report
        /\ call'[c].read = t /\ call'[c].parts = q
        /\ call'[c].pc = "answered" => t = Tables
    BY <1>a, <1>7 DEF ReadChildren, CallStates
  <2>3. call[c].pc = "details" /\ UNCHANGED <<scans, scanSeq>> /\ call[c].read \in Nat
        /\ call'[c].pc \in {"details", "answered"}
        /\ t \in 1..Tables
    <3>1. call[c].pc = "details" /\ UNCHANGED <<scans, scanSeq>> /\ call[c].read + 1 \leq Tables
      BY <1>7 DEF ReadChildren, dbVars
    <3>2. call'[c].pc \in {"details", "answered"}
      BY <1>a, <1>7, <3>1 DEF ReadChildren, CallStates
    <3>. QED
      BY <1>a, <3>1, <3>2, AccountsAssumption DEF CallStates
  <2>4. k \in 1..scanSeq
    BY <1>0, <2>3 DEF Reading
  <2>5. ASSUME k \in DOMAIN scans
        PROVE  /\ scans[k].report = call[c].report
               /\ \A i \in 1..t : <<call[c].report, i>> \in q
    <3>1. /\ scans[k].report = call[c].report
          /\ \A i \in 1..call[c].read : <<call[c].report, i>> \in call[c].parts
      BY <1>0, <2>3, <2>5 DEF Reading
    <3>2. [scan |-> k, report |-> call[c].report] \in children[t]
      BY <1>0, <2>3, <2>5, <3>1 DEF Complete
    <3>3. <<call[c].report, t>> \in q
      BY <3>2
    <3>. HIDE DEF q
    <3>4. \A i \in 1..t : i = t \/ i \in 1..call[c].read
      BY <2>3
    <3>5. call[c].parts \subseteq q
      BY DEF q
    <3>. QED
      BY <3>1, <3>3, <3>4, <3>5
  <2>. HIDE DEF t, k, q
  <2>6. Reading(c)'
    BY <2>2, <2>3, <2>4, <2>5 DEF Reading
  <2>7. ASSUME NEW d \in Calls \ {c} PROVE Reading(d)'
    BY <1>0, <2>1, <2>3 DEF Reading
  <2>. QED
    BY <2>6, <2>7
<1>8. ASSUME NEW c \in Calls, DeleteScan(c) PROVE (\A x \in Calls : Reading(x)')
  BY <1>0, <1>8, <1>a DEF Reading, CallStates, Restrict, Owns, DeleteScan
<1>9. CASE Restart
  BY <1>0, <1>9, <1>a DEF Reading, CallStates, dbVars, Idle, Restart
<1>10. CASE UNCHANGED <<call, scans, scanSeq>>
  BY <1>0, <1>10 DEF Reading
<1>. QED
  BY <1>1, <1>2, <1>3, <1>4, <1>5, <1>6, <1>7, <1>8, <1>9, <1>10 DEF Next, Register,
     Login, Expire, vars, dbVars

\* The owner of a report to be saved.
LEMMA SavingStep == IInv /\ [Next]_vars => (\A x \in Calls : Saving(x)')
<1>. SUFFICES ASSUME IInv, [Next]_vars PROVE (\A x \in Calls : Saving(x)')
  OBVIOUS
<1>a. call \in [Calls -> CallStates] /\ scanSeq \in Nat /\ userSeq \in Nat
  BY DEF IInv, TypeOk
<1>0. TypeOk /\ OnePerson /\ ChildrenFollow /\ Complete /\ \A c \in Calls : Reading(c) /\ Saving(c)
  BY DEF IInv
<1>1. CASE Register
  BY <1>0, <1>1, <1>a DEF Saving, Active, CallStates, Nobody, Register
<1>2. ASSUME NEW id \in DOMAIN users, NEW enforced \in BOOLEAN, DeleteUser(id, enforced)
      PROVE  (\A x \in Calls : Saving(x)')
  BY <1>0, <1>2, <1>a DEF Saving, Active, CallStates, Restrict, Nobody, DeleteUser
<1>3. ASSUME NEW c \in Calls, NEW token \in tokens, Authenticate(c, token)
      PROVE  (\A x \in Calls : Saving(x)')
  BY <1>0, <1>3, <1>a DEF Saving, Active, CallStates, dbVars, Nobody, Authenticate
<1>4. ASSUME NEW c \in Calls, NEW id \in 1..scanSeq, ReadScan(c, id)
      PROVE  (\A x \in Calls : Saving(x)')
  BY <1>0, <1>4, <1>a DEF Saving, Active, CallStates, dbVars, Nobody, ReadScan
<1>5. ASSUME NEW c \in Calls, NEW id \in 1..scanSeq, FindScan(c, id)
      PROVE  (\A x \in Calls : Saving(x)')
  BY <1>0, <1>5, <1>a DEF Saving, Active, CallStates, dbVars, Nobody, FindScan
<1>6. ASSUME NEW c \in Calls, FindOwner(c) PROVE (\A x \in Calls : Saving(x)')
  BY <1>0, <1>6, <1>a DEF Saving, Active, CallStates, dbVars, Nobody, FindOwner
<1>7. ASSUME NEW c \in Calls, SaveScan(c) PROVE (\A x \in Calls : Saving(x)')
  <2>1. \A d \in Calls \ {c} : call'[d] = call[d]
    BY <1>a, <1>7 DEF SaveScan
  <2>2. UNCHANGED <<users, userSeq>> /\ call[c].pc = "save"
    BY <1>7 DEF SaveScan
  <2>3. /\ call'[c].alive = call[c].alive /\ call'[c].owner = call[c].owner
        /\ call'[c].pc \in {"raised", "saved"}
        /\ call'[c].pc = "raised" => call[c].owner # Nobody /\ call[c].owner \notin DOMAIN users
    BY <1>a, <1>7 DEF SaveScan, CallStates
  <2>4. call[c].user \in 1..userSeq
    <3>1. <<call[c].user, call[c].who>> \in Claims
      BY <2>2 DEF Claims, CallClaims, Active
    <3>. QED
      BY <1>0, <3>1 DEF OnePerson
  <2>5. Saving(c)'
    BY <1>0, <2>2, <2>3, <2>4 DEF Saving, Active, Nobody
  <2>6. ASSUME NEW d \in Calls \ {c} PROVE Saving(d)'
    BY <1>0, <2>1, <2>2 DEF Saving, Active
  <2>. QED
    BY <2>5, <2>6
<1>8. ASSUME NEW c \in Calls, ReadChildren(c) PROVE (\A x \in Calls : Saving(x)')
  BY <1>0, <1>8, <1>a DEF Saving, Active, CallStates, dbVars, Nobody, ReadChildren
<1>9. ASSUME NEW c \in Calls, DeleteScan(c) PROVE (\A x \in Calls : Saving(x)')
  BY <1>0, <1>9, <1>a DEF Saving, Active, CallStates, Restrict, Nobody, DeleteScan
<1>10. CASE Restart
  BY <1>0, <1>10, <1>a DEF Saving, Active, CallStates, dbVars, Idle, Nobody, Restart
<1>11. CASE UNCHANGED <<call, users, userSeq>>
  BY <1>0, <1>11 DEF Saving, Active
<1>. QED
  BY <1>1, <1>2, <1>3, <1>4, <1>5, <1>6, <1>7, <1>8, <1>9, <1>10, <1>11 DEF Next, Login,
     Expire, vars, dbVars

\* The step, part by part.
LEMMA InvStep == IInv /\ [Next]_vars => IInv'
<1>. SUFFICES ASSUME IInv, [Next]_vars PROVE IInv'
  OBVIOUS
<1>1. TypeOk'
  BY CallsStep, TokensStep, UsersStep, RowsStep, AuthorsStep, ChildTablesStep
  DEF TypeOk, TokensOk, UsersOk, ScansOk, AuthorsOk, ChildTablesOk
<1>. QED
  BY <1>1, OnePersonStep, ChildrenStep, CompleteStep, ReadingStep, SavingStep DEF IInv

-----------------------------------------------------------------------------
(* What follows *)

\* The inductive invariant holds of every use of accounts, sessions and reports.
THEOREM Invariance == Spec => []IInv
BY InvInit, InvStep, PTL DEF Spec

\* The tables, tokens and local states keep their shape.
THEOREM TypeCorrect == Spec => []TypeOk
<1>1. IInv => TypeOk
  BY DEF IInv
<1>. QED
  BY <1>1, Invariance, PTL

\* A session never speaks for anybody but the person who logged in, however many
\* accounts come and go (db.py 31, main.py 214-232).
THEOREM SessionsAreOnesOwn == Spec => []NoImpersonation
<1>1. IInv => NoImpersonation
  <2>. SUFFICES ASSUME IInv PROVE NoImpersonation
    OBVIOUS
  <2>1. OnePerson /\ \A c \in Calls : Saving(c)
    BY DEF IInv
  <2>2. \A id \in DOMAIN users : <<id, users[id]>> \in Claims /\ id # 0
    <3>1. \A id \in DOMAIN users : id \in 1..userSeq /\ userSeq \in Nat
      BY DEF IInv, TypeOk
    <3>. QED
      BY <3>1 DEF Claims, UserClaims
  <2>3. ASSUME NEW t \in tokens, t.user \in DOMAIN users PROVE users[t.user] = t.who
    <3>1. <<t.user, t.who>> \in Claims
      BY DEF Claims, TokenClaims
    <3>. QED
      BY <2>1, <2>2, <2>3, <3>1 DEF OnePerson
  <2>4. ASSUME NEW c \in Calls, call[c].user \in DOMAIN users
        PROVE  users[call[c].user] = call[c].who
    <3>1. Active(c)
      BY <2>1, <2>2, <2>4 DEF Saving
    <3>2. <<call[c].user, call[c].who>> \in Claims
      BY <3>1 DEF Claims, CallClaims
    <3>. QED
      BY <2>1, <2>2, <2>4, <3>2 DEF OnePerson
  <2>. QED
    BY <2>3, <2>4 DEF NoImpersonation
<1>. QED
  BY <1>1, Invariance, PTL

\* An answer that lacks the rows of a child table is of a report deleted meanwhile,
\* for any number of child tables (db.py 350-422).
THEOREM AnswersAreWhole == Spec => []TornOnlyByDeletion
<1>1. IInv => TornOnlyByDeletion
  BY DEF IInv, Reading, TornOnlyByDeletion
<1>. QED
  BY <1>1, Invariance, PTL

\* No child row outlives its report or is found under another (db.py 52-110, 425-446).
THEOREM ChildRowsFollow == Spec => []ChildrenFollow
<1>1. IInv => ChildrenFollow
  BY DEF IInv
<1>. QED
  BY <1>1, Invariance, PTL

\* Only the deletion of an account between look-up and write makes a save raise
\* (main.py 374-391).
THEOREM SavesRaiseByRace == Spec => []RefusedOnlyByRace
<1>1. IInv => RefusedOnlyByRace
  BY DEF IInv, Saving, RefusedOnlyByRace
<1>. QED
  BY <1>1, Invariance, PTL

\* A stored report changes in nothing, and goes with its account or at the wish of
\* the person who asked for it (db.py 425-446).
THEOREM ReportsStay == Spec => OnlyOwnersDelete
<1>. DEFINE A(id) == \/ id \in DOMAIN scans' /\ scans'[id] = scans[id]
                     \/ DOMAIN users' # DOMAIN users
                     \/ \E c \in Calls : /\ call[c].pc = "found" /\ call'[c].pc = "deleted"
                                         /\ call[c].who = author[scans[id].report]
<1>1. ASSUME IInv, [Next]_vars, NEW id \in DOMAIN scans PROVE A(id)
  <2>0. /\ call \in [Calls -> CallStates] /\ OnePerson
        /\ \A i \in DOMAIN users : i \in 1..userSeq
        /\ id \in 1..scanSeq /\ scanSeq \in Nat /\ TypeOk
    BY <1>1 DEF IInv, TypeOk
  <2>1. ASSUME NEW c \in Calls, DeleteScan(c) PROVE A(id)
    <3>1. CASE id \notin {call[c].scan} \cap {s \in DOMAIN scans : Owns(c, s)}
      BY <2>1, <3>1 DEF DeleteScan, Restrict
    <3>2. CASE id \in {call[c].scan} \cap {s \in DOMAIN scans : Owns(c, s)}
      <4>1. call[c].pc = "found" /\ scans[id].owner = call[c].user
        BY <2>1, <3>2 DEF DeleteScan, Owns
      <4>2. call'[c].pc = "deleted"
        BY <2>0, <2>1 DEF DeleteScan, CallStates
      <4>3. <<call[c].user, call[c].who>> \in Claims
        BY <4>1 DEF Claims, CallClaims, Active
      <4>4. call[c].user # Nobody
        BY <2>0, <4>3 DEF OnePerson, Nobody, TypeOk
      <4>5. <<scans[id].owner, author[scans[id].report]>> \in Claims
        BY <4>1, <4>4 DEF Claims, ReportClaims
      <4>. QED
        BY <2>0, <4>1, <4>2, <4>3, <4>5 DEF OnePerson
    <3>. QED
      BY <3>1, <3>2
  <2>2. ASSUME NEW c \in Calls, SaveScan(c) PROVE A(id)
    BY <2>0, <2>2, Saved DEF NewReport
  <2>3. ASSUME NEW u \in DOMAIN users, NEW enforced \in BOOLEAN, DeleteUser(u, enforced) PROVE A(id)
    BY <2>3 DEF DeleteUser, Restrict
  <2>4. CASE UNCHANGED scans
    BY <2>4
  <2>. QED
    BY <1>1, <2>1, <2>2, <2>3, <2>4
    DEF Next, vars, dbVars, Register, Login, Expire, Authenticate, ReadScan, FindScan,
        FindOwner, ReadChildren, Restart
<1>2. IInv /\ [Next]_vars => [\A id \in DOMAIN scans : A(id)]_vars
  BY <1>1
<1>. QED
  BY <1>2, Invariance, PTL DEF Spec, OnlyOwnersDelete

=============================================================================
