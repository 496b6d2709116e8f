----------------------- MODULE SchemaMigrationProofs -----------------------
(***************************************************************************)
(* Proofs about SchemaMigration, for any number of old rows, reports and   *)
(* crashes: the database is kept wherever init_db stops, and serves only   *)
(* when it is usable.  The invariant is IInv of SchemaMigration.           *)
(***************************************************************************)
EXTENDS SchemaMigration, TLAPS

LEMMA FirstRowsFacts ==
  ASSUME NEW shape \in Shapes
  PROVE  /\ FirstRows(shape) \subseteq Rows
         /\ \A r \in FirstRows(shape) : r.id \in 1..Legacy /\ (r.legacy <=> shape # "new")
         /\ \A r, s \in FirstRows(shape) : r.id = s.id => r = s
<1>1. CASE shape = "none"
  BY <1>1 DEF FirstRows
<1>2. CASE shape # "none"
  <2>. DEFINE b == shape # "new"
  <2>1. FirstRows(shape) = [id : 1..Legacy, legacy : {b}]
    BY <1>2 DEF FirstRows
  <2>2. b \in BOOLEAN
    OBVIOUS
  <2>. HIDE DEF b
  <2>3. \A r \in [id : 1..Legacy, legacy : {b}] : r.id \in 1..Legacy /\ r.legacy = b
    OBVIOUS
  <2>4. \A r, s \in [id : 1..Legacy, legacy : {b}] : r.id = s.id => r = s
    OBVIOUS
  <2>5. [id : 1..Legacy, legacy : {b}] \subseteq Rows
    BY <2>2, LegacyAssumption DEF Rows
  <2>6. \A r \in FirstRows(shape) : r.id \in 1..Legacy /\ r.legacy = b
    BY <2>1, <2>3
  <2>. QED
    BY <2>1, <2>4, <2>5, <2>6 DEF b
<1>. QED
  BY <1>1, <1>2

\* The fields of a database after each statement.
LEMMA Updates ==
  ASSUME NEW d \in Databases
  PROVE  /\ [d EXCEPT !.users = TRUE] \in Databases
         /\ [d EXCEPT !.admin = TRUE] \in Databases
         /\ [d EXCEPT !.scans = IF @ = "none" THEN "new" ELSE @] \in Databases
         /\ [d EXCEPT !.fk = IF @ = "none" THEN "scans" ELSE @] \in Databases
         /\ [d EXCEPT !.scans = "none", !.rows = {}, !.old = d.scans,
                      !.oldRows = d.rows, !.fk = "scans_old"] \in Databases
         /\ [d EXCEPT !.scans = "new", !.seq = 0] \in Databases
         /\ [d EXCEPT !.rows = d.oldRows, !.seq = Legacy] \in Databases
         /\ [d EXCEPT !.old = "none", !.oldRows = {}] \in Databases
<1>1. [d EXCEPT !.users = TRUE] \in Databases
  BY DEF Databases
<1>2. [d EXCEPT !.admin = TRUE] \in Databases
  BY DEF Databases
<1>3. [d EXCEPT !.scans = IF @ = "none" THEN "new" ELSE @] \in Databases
  BY DEF Databases, Shapes
<1>4. [d EXCEPT !.fk = IF @ = "none" THEN "scans" ELSE @] \in Databases
  BY DEF Databases
<1>5. [d EXCEPT !.scans = "none", !.rows = {}, !.old = d.scans,
                !.oldRows = d.rows, !.fk = "scans_old"] \in Databases
  BY DEF Databases, Shapes
<1>6. [d EXCEPT !.scans = "new", !.seq = 0] \in Databases
  BY DEF Databases, Shapes
<1>7. [d EXCEPT !.rows = d.oldRows, !.seq = Legacy] \in Databases
  BY LegacyAssumption DEF Databases
<1>8. [d EXCEPT !.old = "none", !.oldRows = {}] \in Databases
  BY DEF Databases, Shapes
<1>. QED
  BY <1>1, <1>2, <1>3, <1>4, <1>5, <1>6, <1>7, <1>8

\* The steps of init_db keep the types.
LEMMA TypeStep == IInv /\ [Next]_vars => TypeOk'
<1>. SUFFICES ASSUME IInv, [Next]_vars PROVE TypeOk'
  OBVIOUS
<1>. USE DEF At, Write, Raise, Stopped, Steps, served
<1>0. TypeOk /\ Copied /\ (pc = "drop" => tx)
  BY DEF IInv
<1>1. CASE Start
  BY <1>0, <1>1, Updates, LegacyAssumption, BoundsAssumption DEF TypeOk, Copied, Start
<1>2. CASE CreateUsers
  BY <1>0, <1>2, Updates, LegacyAssumption, BoundsAssumption DEF TypeOk, Copied, CreateUsers
<1>3. CASE CreateScans
  BY <1>0, <1>3, Updates, LegacyAssumption, BoundsAssumption DEF TypeOk, Copied, CreateScans
<1>4. CASE CreateChildren
  BY <1>0, <1>4, Updates, LegacyAssumption, BoundsAssumption DEF TypeOk, Copied,
     CreateChildren
<1>5. CASE Inspect
  BY <1>0, <1>5, Updates, LegacyAssumption, BoundsAssumption DEF TypeOk, Copied, Inspect
<1>6. CASE Rename
  BY <1>0, <1>6, Updates, LegacyAssumption, BoundsAssumption DEF TypeOk, Copied, Rename
<1>7. CASE Create
  BY <1>0, <1>7, Updates, LegacyAssumption, BoundsAssumption DEF TypeOk, Copied, Create
<1>8. CASE Copy
  BY <1>0, <1>8, Updates, LegacyAssumption, BoundsAssumption DEF TypeOk, Copied, Copy
<1>9. CASE Drop
  BY <1>0, <1>9, Updates, LegacyAssumption, BoundsAssumption DEF TypeOk, Copied, Drop
<1>10. CASE Index
  BY <1>0, <1>10, Updates, LegacyAssumption, BoundsAssumption DEF TypeOk, Copied, Index
<1>11. CASE Lookup
  BY <1>0, <1>11, Updates, LegacyAssumption, BoundsAssumption DEF TypeOk, Copied, Lookup
<1>12. CASE CreateAdmin
  BY <1>0, <1>12, Updates, LegacyAssumption, BoundsAssumption DEF TypeOk, Copied,
     CreateAdmin
<1>13. CASE Commit
  BY <1>0, <1>13, Updates, LegacyAssumption, BoundsAssumption DEF TypeOk, Copied, Commit
<1>14. CASE Crash
  <2>1. crashes' \in 0..MaxCrashes
    BY <1>0, <1>14, BoundsAssumption DEF TypeOk, Crash
  <2>. QED
    BY <1>0, <1>14, <2>1 DEF TypeOk, Crash
<1>15. ASSUME NEW children \in BOOLEAN, Save(children) PROVE TypeOk'
  <2>1. disk \in Databases /\ disk.seq \in Nat
    BY <1>0 DEF TypeOk, Databases
  <2>. DEFINE id == disk.seq + 1
              saved == [disk EXCEPT !.seq = id,
                            !.rows = @ \cup {[id |-> id, legacy |-> FALSE]},
                            !.kids = IF children THEN @ \cup {id} ELSE @]
  <2>2. id \in Nat /\ [id |-> id, legacy |-> FALSE] \in Rows
    BY <2>1 DEF Rows
  <2>3. saved \in Databases
    <3>. HIDE DEF id
    <3>. QED
      BY <2>1, <2>2 DEF Databases
  <2>4. disk' \in Databases /\ work' \in Databases /\ (~tx' => work' = disk')
    BY <1>0, <1>15, <2>3 DEF TypeOk, Save
  <2>5. saves' \in 0..MaxSaves
    BY <1>0, <1>15, BoundsAssumption DEF TypeOk, Save
  <2>6. acked' \subseteq Nat /\ refused' \in BOOLEAN
    BY <1>0, <1>15, <2>2 DEF TypeOk, Save
  <2>. QED
    BY <1>0, <1>15, <2>4, <2>5, <2>6 DEF TypeOk, Save
<1>16. ASSUME NEW id \in acked, Delete(id) PROVE TypeOk'
  BY <1>0, <1>16 DEF TypeOk, Delete, Databases
<1>17. CASE UNCHANGED vars
  BY <1>0, <1>17 DEF TypeOk, vars
<1>. QED
  BY <1>1, <1>2, <1>3, <1>4, <1>5, <1>6, <1>7, <1>8, <1>9, <1>10, <1>11, <1>12, <1>13,
     <1>14, <1>15, <1>16, <1>17 DEF Next, InitDb

\* Steps that leave the rows alone keep the database good.
LEMMA GoodFrame ==
  ASSUME Good(disk), UNCHANGED <<origin, acked>>,
         UNCHANGED <<disk.rows, disk.oldRows, disk.seq, disk.scans>>
  PROVE  Good(disk)'
BY DEF Good, Migrating

LEMMA GoodStep == IInv /\ [Next]_vars => Good(disk)'
<1>. SUFFICES ASSUME IInv, [Next]_vars PROVE Good(disk)'
  OBVIOUS
<1>. USE DEF At, Write, Raise, Stopped, served
<1>0. TypeOk /\ Good(disk) /\ Progress /\ Copied /\ (pc = "drop" => tx)
  BY DEF IInv
<1>a. origin \in Shapes /\ disk \in Databases /\ work \in Databases /\ (~tx => work = disk)
  BY <1>0 DEF TypeOk
<1>1. CASE Start
  BY <1>0, <1>a, <1>1, GoodFrame DEF Databases, Start
<1>2. CASE CreateUsers
  BY <1>0, <1>a, <1>2, GoodFrame DEF Databases, CreateUsers
<1>3. CASE CreateScans
  BY <1>0, <1>a, <1>3, FirstRowsFacts, LegacyAssumption, SMTT(30) DEF TypeOk, Databases, Good,
     Progress, Copied, Migrating, CreateScans
<1>4. CASE CreateChildren
  BY <1>0, <1>a, <1>4, GoodFrame DEF Databases, CreateChildren
<1>5. CASE Inspect
  BY <1>0, <1>a, <1>5, GoodFrame DEF Databases, Inspect
<1>6. CASE Rename
  BY <1>0, <1>a, <1>6, FirstRowsFacts, LegacyAssumption, SMTT(30) DEF TypeOk, Databases, Good,
     Progress, Copied, Migrating, Rename
<1>7. CASE Create
  BY <1>0, <1>a, <1>7, FirstRowsFacts, LegacyAssumption, SMTT(30) DEF TypeOk, Databases, Good,
     Progress, Copied, Migrating, Create
<1>8. CASE Copy
  BY <1>0, <1>a, <1>8, GoodFrame DEF Databases, Copy
<1>9. CASE Drop
  BY <1>0, <1>a, <1>9, GoodFrame DEF Databases, Drop
<1>10. CASE Index
  BY <1>0, <1>a, <1>10, GoodFrame DEF Databases, Index
<1>11. CASE Lookup
  BY <1>0, <1>a, <1>11, GoodFrame DEF Databases, Lookup
<1>12. CASE CreateAdmin
  BY <1>0, <1>a, <1>12, GoodFrame DEF Databases, CreateAdmin
<1>13. CASE Commit
  BY <1>0, <1>a, <1>13, FirstRowsFacts, LegacyAssumption, SMTT(30) DEF TypeOk, Databases, Good,
     Progress, Copied, Migrating, Commit
<1>14. CASE Crash
  BY <1>0, <1>a, <1>14, GoodFrame DEF Databases, Crash
<1>15. ASSUME NEW children \in BOOLEAN, Save(children) PROVE Good(disk)'
  <2>. DEFINE new == [id |-> disk.seq + 1, legacy |-> FALSE]
  <2>1. CASE children /\ ~Accepts(disk, disk.seq + 1)
    BY <1>0, <1>15, <2>1, GoodFrame DEF Save
  <2>2. CASE ~(children /\ ~Accepts(disk, disk.seq + 1))
    <3>1. /\ disk'.rows = disk.rows \cup {new} /\ disk'.seq = disk.seq + 1
          /\ disk'.scans = disk.scans /\ disk'.oldRows = disk.oldRows
          /\ acked' = acked \cup {disk.seq + 1} /\ origin' = origin
      BY <1>a, <1>15, <2>2 DEF Save, Databases
    <3>2. disk.scans = "new" /\ disk.seq \in Nat /\ disk.rows \subseteq Rows
      BY <1>0, <1>a, <1>15 DEF Save, Progress, TypeOk, Copied, Databases
    <3>3. \A r \in disk.rows : r.id \in Nat /\ r.id <= disk.seq
      BY <1>0, <3>2 DEF Good, Rows
    <3>4. new.id = disk.seq + 1 /\ new.legacy = FALSE
      OBVIOUS
    <3>. HIDE DEF new
    <3>5. \A r \in disk.rows : r.id # new.id
      BY <3>2, <3>3, <3>4
    <3>6. \A r, q \in disk'.rows : r.id = q.id => r = q
      BY <1>0, <3>1, <3>5 DEF Good
    <3>7. \A r \in disk'.rows : r.id <= disk'.seq
      BY <3>1, <3>2, <3>3, <3>4
    <3>8. \A id \in acked' : [id |-> id, legacy |-> FALSE] \in disk'.rows
      BY <1>0, <3>1 DEF Good, new
    <3>9. disk'.oldRows # {} => /\ Migrating /\ disk'.oldRows = FirstRows(origin)
                                /\ \A r \in disk'.rows : ~r.legacy
      BY <1>0, <3>1, <3>4 DEF Good
    <3>. QED
      BY <1>0, <3>1, <3>2, <3>6, <3>7, <3>8, <3>9 DEF Good, Migrating
  <2>. QED
    BY <2>1, <2>2
<1>16. ASSUME NEW id \in acked, Delete(id) PROVE Good(disk)'
  <2>1. /\ disk'.rows = {r \in disk.rows : r.id # id} /\ disk'.seq = disk.seq
        /\ disk'.scans = disk.scans /\ disk'.oldRows = disk.oldRows
        /\ acked' = acked \ {id} /\ origin' = origin
    BY <1>a, <1>16 DEF Delete, Databases
  <2>2. disk.scans = "new" /\ [id |-> id, legacy |-> FALSE] \in disk.rows
    BY <1>0, <1>a, <1>16 DEF Delete, Progress, TypeOk, Good
  <2>3. \A r \in disk.rows : r.id = id => ~r.legacy
    BY <1>0, <2>2 DEF Good
  <2>4. \A k \in acked' : [id |-> k, legacy |-> FALSE] \in disk'.rows
    BY <1>0, <2>1 DEF Good
  <2>5. origin # "new" => \A r \in FirstRows(origin) : r.legacy
    BY <1>a, FirstRowsFacts
  <2>6. Migrating => FirstRows(origin) = disk'.oldRows \/ FirstRows(origin) \subseteq disk'.rows
    BY <1>0, <2>1, <2>3, <2>5 DEF Good, Migrating
  <2>7. origin = "plain" => FirstRows(origin) \subseteq disk'.rows
    BY <1>0, <2>1, <2>3, <2>5 DEF Good
  <2>8. \A r, q \in disk'.rows : r.id = q.id => r = q
    BY <1>0, <2>1 DEF Good
  <2>. QED
    BY <1>0, <2>1, <2>2, <2>4, <2>6, <2>7, <2>8 DEF Good, Migrating
<1>17. CASE UNCHANGED vars
  BY <1>0, <1>17, GoodFrame DEF vars
<1>. QED
  BY <1>1, <1>2, <1>3, <1>4, <1>5, <1>6, <1>7, <1>8, <1>9, <1>10, <1>11, <1>12, <1>13,
     <1>14, <1>15, <1>16, <1>17 DEF Next, InitDb

\* Nor do the others lose what child rows refer to.
LEMMA UnmigratedFrame ==
  ASSUME Unmigrated(disk), UNCHANGED origin,
         UNCHANGED <<disk.rows, disk.oldRows, disk.kids>>, disk'.fk \in {disk.fk, "scans"}
  PROVE  Unmigrated(disk)'
BY DEF Unmigrated, Migrating, Ids

LEMMA UnmigratedStep == IInv /\ [Next]_vars => Unmigrated(disk)' /\ (~Migrating => ~refused)'
<1>. SUFFICES ASSUME IInv, [Next]_vars PROVE Unmigrated(disk)' /\ (~Migrating => ~refused)'
  OBVIOUS
<1>. USE DEF At, Write, Raise, Stopped, served
<1>0. /\ TypeOk /\ Good(disk) /\ Unmigrated(disk) /\ Progress /\ Copied
      /\ (pc = "drop" => tx) /\ (~Migrating => ~refused)
  BY DEF IInv
<1>a. origin \in Shapes /\ disk \in Databases /\ work \in Databases /\ (~tx => work = disk)
  BY <1>0 DEF TypeOk
<1>. DEFINE Goal == Unmigrated(disk)' /\ (~Migrating => ~refused)'
<1>1. CASE Start
  BY <1>0, <1>a, <1>1, UnmigratedFrame DEF Databases, Migrating, Start
<1>2. CASE CreateUsers
  BY <1>0, <1>a, <1>2, UnmigratedFrame DEF Databases, Migrating, CreateUsers
<1>3. CASE CreateScans
  BY <1>0, <1>a, <1>3, UnmigratedFrame DEF Databases, Migrating, CreateScans
<1>4. CASE CreateChildren
  BY <1>0, <1>a, <1>4, UnmigratedFrame DEF Databases, Migrating, CreateChildren
<1>5. CASE Inspect
  BY <1>0, <1>a, <1>5, UnmigratedFrame DEF Databases, Migrating, Inspect
<1>6. CASE Rename
  BY <1>0, <1>a, <1>6, SMTT(30) DEF Databases, Unmigrated, Progress, Copied, Migrating, Rename
<1>7. CASE Create
  BY <1>0, <1>a, <1>7, UnmigratedFrame DEF Databases, Migrating, Create
<1>8. CASE Copy
  BY <1>0, <1>a, <1>8, UnmigratedFrame DEF Databases, Migrating, Copy
<1>9. CASE Drop
  BY <1>0, <1>a, <1>9, UnmigratedFrame DEF Databases, Migrating, Drop
<1>10. CASE Index
  BY <1>0, <1>a, <1>10, UnmigratedFrame DEF Databases, Migrating, Index
<1>11. CASE Lookup
  BY <1>0, <1>a, <1>11, UnmigratedFrame DEF Databases, Migrating, Lookup
<1>12. CASE CreateAdmin
  BY <1>0, <1>a, <1>12, UnmigratedFrame DEF Databases, Migrating, CreateAdmin
<1>13. CASE Commit
  BY <1>0, <1>a, <1>13, SMTT(30) DEF Databases, Unmigrated, Progress, Copied, Migrating, Commit
<1>14. CASE Crash
  BY <1>0, <1>a, <1>14, UnmigratedFrame DEF Databases, Migrating, Crash
<1>15. ASSUME NEW children \in BOOLEAN, Save(children) PROVE Goal
  <2>1. disk.fk # "none"
    BY <1>0, <1>15 DEF Save, TypeOk, Progress
  <2>2. CASE children /\ ~Accepts(disk, disk.seq + 1)
    BY <1>0, <1>a, <1>15, <2>1, <2>2, UnmigratedFrame DEF Save, Accepts, Databases,
       Unmigrated, Migrating
  <2>3. CASE ~(children /\ ~Accepts(disk, disk.seq + 1))
    <3>1. /\ disk'.rows = disk.rows \cup {[id |-> disk.seq + 1, legacy |-> FALSE]}
          /\ disk'.kids \subseteq disk.kids \cup {disk.seq + 1}
          /\ disk'.fk = disk.fk /\ disk'.oldRows = disk.oldRows
          /\ UNCHANGED <<origin, refused>>
      BY <1>a, <1>15, <2>3 DEF Save, Databases
    <3>2. Ids(disk'.rows) = Ids(disk.rows) \cup {disk.seq + 1}
      <4>. DEFINE new == [id |-> disk.seq + 1, legacy |-> FALSE]
      <4>1. new.id = disk.seq + 1 /\ disk'.rows = disk.rows \cup {new}
        BY <3>1
      <4>. HIDE DEF new
      <4>. QED
        BY <4>1 DEF Ids
    <3>. QED
      BY <1>0, <3>1, <3>2 DEF Unmigrated, Migrating
  <2>. QED
    BY <2>2, <2>3
<1>16. ASSUME NEW id \in acked, Delete(id) PROVE Goal
  <2>1. /\ disk'.rows = {r \in disk.rows : r.id # id}
        /\ disk'.kids = (IF disk.fk = "scans" THEN disk.kids \ {id} ELSE disk.kids)
        /\ disk'.fk = disk.fk /\ disk'.oldRows = disk.oldRows
        /\ UNCHANGED <<origin, refused>>
    BY <1>a, <1>16 DEF Delete, Databases
  <2>2. disk.fk # "none" /\ disk.fk \in {"none", "scans", "scans_old"}
    BY <1>0, <1>a, <1>16 DEF Delete, TypeOk, Progress, Databases
  <2>3. Ids(disk'.rows) = Ids(disk.rows) \ {id}
    BY <2>1 DEF Ids
  <2>. QED
    BY <1>0, <2>1, <2>2, <2>3 DEF Unmigrated, Migrating
<1>17. CASE UNCHANGED vars
  BY <1>0, <1>17, UnmigratedFrame DEF vars, Migrating
<1>. QED
  BY <1>1, <1>2, <1>3, <1>4, <1>5, <1>6, <1>7, <1>8, <1>9, <1>10, <1>11, <1>12, <1>13,
     <1>14, <1>15, <1>16, <1>17 DEF Next, InitDb

\* Each statement leaves what the next one relies on.
LEMMA ProgressStep == IInv /\ [Next]_vars => Progress' /\ Copied' /\ (pc = "drop" => tx)'
<1>. SUFFICES ASSUME IInv, [Next]_vars PROVE Progress' /\ Copied' /\ (pc = "drop" => tx)'
  OBVIOUS
<1>. USE DEF At, Write, Raise, Stopped, served
<1>0. TypeOk /\ Good(disk) /\ Progress /\ Copied /\ (pc = "drop" => tx)
  BY DEF IInv
<1>a. /\ origin \in Shapes /\ disk \in Databases /\ work \in Databases /\ tx \in BOOLEAN
      /\ (~tx => work = disk) /\ (tx => pc \in {"drop", "index", "lookup", "admin", "commit"})
  BY <1>0 DEF TypeOk
<1>. DEFINE Goal == Progress' /\ Copied' /\ (pc = "drop" => tx)'
<1>1. CASE Start
  BY <1>0, <1>a, <1>1, SMTT(30) DEF Databases, Shapes, Good, Progress, Copied, Migrating, Start
<1>2. CASE CreateUsers
  BY <1>0, <1>a, <1>2, SMTT(30) DEF Databases, Shapes, Good, Progress, Copied, Migrating,
     CreateUsers
<1>3. CASE CreateScans
  BY <1>0, <1>a, <1>3, SMTT(30) DEF Databases, Shapes, Good, Progress, Copied, Migrating,
     CreateScans
<1>4. CASE CreateChildren
  BY <1>0, <1>a, <1>4, SMTT(30) DEF Databases, Shapes, Good, Progress, Copied, Migrating,
     CreateChildren
<1>5. CASE Inspect
  BY <1>0, <1>a, <1>5, SMTT(30) DEF Databases, Shapes, Good, Progress, Copied, Migrating,
     Inspect
<1>6. CASE Rename
  BY <1>0, <1>a, <1>6, SMTT(30) DEF Databases, Shapes, Good, Progress, Copied, Migrating, Rename
<1>7. CASE Create
  BY <1>0, <1>a, <1>7, SMTT(30) DEF Databases, Shapes, Good, Progress, Copied, Migrating, Create
<1>8. CASE Copy
  <2>1. CASE work.old = "bare"
    BY <1>0, <1>a, <1>8, <2>1 DEF Databases, Progress, Copied, Migrating, Copy
  <2>2. CASE work.old # "bare"
    <3>1. /\ pc = "copy" /\ pc' = "drop" /\ tx' /\ ~tx /\ work = disk
          /\ UNCHANGED <<disk, origin, acked>>
          /\ work' = [work EXCEPT !.rows = work.oldRows, !.seq = Legacy]
      BY <1>a, <1>8, <2>2 DEF Copy
    <3>2. /\ work'.rows = work.oldRows /\ work'.seq = Legacy
          /\ UNCHANGED <<work.users, work.admin, work.scans, work.fk, work.oldRows>>
      BY <1>a, <3>1 DEF Databases
    <3>3. /\ Migrating /\ work.users /\ work.rows = {} /\ work.oldRows = FirstRows(origin)
          /\ work.scans = "new" /\ work.fk # "none"
      BY <1>0, <3>1 DEF Progress
    <3>4. acked = {}
      BY <1>0, <3>1, <3>3 DEF Good
    <3>5. Migrating'
      BY <3>1, <3>3 DEF Migrating
    <3>6. Progress'
      BY <3>1, <3>2, <3>3 DEF Progress
    <3>7. Copied'
      BY <3>1, <3>2, <3>3, <3>4, <3>5 DEF Copied
    <3>. QED
      BY <3>1, <3>6, <3>7
  <2>. QED
    BY <2>1, <2>2
<1>9. CASE Drop
  BY <1>0, <1>a, <1>9, SMTT(30) DEF Databases, Shapes, Good, Progress, Copied, Migrating, Drop
<1>10. CASE Index
  BY <1>0, <1>a, <1>10, SMTT(30) DEF Databases, Shapes, Good, Progress, Copied, Migrating, Index
<1>11. CASE Lookup
  BY <1>0, <1>a, <1>11, SMTT(30) DEF Databases, Shapes, Good, Progress, Copied, Migrating,
     Lookup
<1>12. CASE CreateAdmin
  BY <1>0, <1>a, <1>12, SMTT(30) DEF Databases, Shapes, Good, Progress, Copied, Migrating,
     CreateAdmin
<1>13. CASE Commit
  BY <1>0, <1>a, <1>13, SMTT(30) DEF Databases, Shapes, Good, Progress, Copied, Migrating,
     Commit
<1>14. CASE Crash
  BY <1>0, <1>a, <1>14, SMTT(30) DEF Databases, Shapes, Good, Progress, Copied, Migrating, Crash
<1>15. ASSUME NEW children \in BOOLEAN, Save(children) PROVE Goal
  <2>1. pc = "up" /\ ~tx /\ work = disk /\ UNCHANGED <<pc, tx, origin>>
    BY <1>a, <1>15 DEF Save
  <2>2. work' = work \/ work' = [disk EXCEPT !.seq = disk.seq + 1,
             !.rows = @ \cup {[id |-> disk.seq + 1, legacy |-> FALSE]},
             !.kids = IF children THEN @ \cup {disk.seq + 1} ELSE @]
    BY <1>15 DEF Save
  <2>3. UNCHANGED <<work.users, work.scans, work.fk, work.admin>>
    BY <1>a, <2>1, <2>2 DEF Databases
  <2>. QED
    BY <1>0, <2>1, <2>3 DEF Progress, Copied
<1>16. ASSUME NEW id \in acked, Delete(id) PROVE Goal
  BY <1>0, <1>a, <1>16, SMTT(30) DEF Databases, Progress, Copied, Migrating, Delete
<1>17. CASE UNCHANGED vars
  BY <1>0, <1>17, SMTT(30) DEF vars, Progress, Copied, Migrating
<1>. QED
  BY <1>1, <1>2, <1>3, <1>4, <1>5, <1>6, <1>7, <1>8, <1>9, <1>10, <1>11, <1>12, <1>13,
     <1>14, <1>15, <1>16, <1>17 DEF Next, InitDb

-----------------------------------------------------------------------------

LEMMA InvInit == Init => IInv
<1>. SUFFICES ASSUME Init PROVE IInv
  OBVIOUS
<1>1. /\ origin \in Shapes /\ pc = "down" /\ tx = FALSE /\ work = disk /\ refused = FALSE
      /\ saves = 0 /\ crashes = 0 /\ acked = disk.kids
  BY DEF Init
<1>2. PICK users, admin \in BOOLEAN :
         disk = [users |-> users, admin |-> admin, scans |-> origin,
                 rows |-> FirstRows(origin),
                 seq |-> IF origin = "none" THEN 0 ELSE Legacy,
                 old |-> "none", oldRows |-> {},
                 fk |-> IF origin = "new" THEN "scans" ELSE "none",
                 kids |-> IF origin = "new" THEN 1..Legacy ELSE {}]
  BY DEF Init
<1>3. /\ disk.scans = origin /\ disk.rows = FirstRows(origin) /\ disk.oldRows = {}
      /\ disk.seq = (IF origin = "none" THEN 0 ELSE Legacy)
      /\ disk.fk = (IF origin = "new" THEN "scans" ELSE "none")
      /\ disk.kids = (IF origin = "new" THEN 1..Legacy ELSE {})
  BY <1>2
<1>4. disk \in Databases
  <2>1. FirstRows(origin) \subseteq Rows
    BY <1>1, FirstRowsFacts
  <2>. QED
    BY <1>1, <1>2, <2>1, LegacyAssumption DEF Databases, Shapes
<1>5. TypeOk
  <2>1. acked \subseteq Nat
    BY <1>1, <1>4 DEF Databases
  <2>2. saves \in 0..MaxSaves /\ crashes \in 0..MaxCrashes
    BY <1>1, BoundsAssumption
  <2>. QED
    BY <1>1, <1>4, <2>1, <2>2 DEF TypeOk, Stopped
<1>6. origin = "new" =>
         \A id \in 1..Legacy : [id |-> id, legacy |-> FALSE] \in FirstRows(origin)
  BY DEF FirstRows
<1>7. Good(disk)
  <2>1. \A id \in acked : [id |-> id, legacy |-> FALSE] \in disk.rows
    BY <1>1, <1>3, <1>6
  <2>2. \A r \in disk.rows : r.id <= disk.seq
    <3>1. CASE origin = "none"
      BY <1>3, <3>1 DEF FirstRows
    <3>2. CASE origin # "none"
      BY <1>1, <1>3, <3>2, FirstRowsFacts, LegacyAssumption
    <3>. QED
      BY <3>1, <3>2
  <2>3. origin = "none" => disk.rows = {}
    BY <1>3 DEF FirstRows
  <2>4. origin # "new" => acked = {}
    BY <1>1, <1>3
  <2>5. \A r, q \in disk.rows : r.id = q.id => r = q
    BY <1>1, <1>3, FirstRowsFacts
  <2>. QED
    BY <1>3, <2>1, <2>2, <2>3, <2>4, <2>5 DEF Good
<1>8. Unmigrated(disk)
  <2>1. origin = "new" => 1..Legacy \subseteq Ids(disk.rows)
    <3>1. \A id \in 1..Legacy : [id |-> id, legacy |-> FALSE].id = id
      OBVIOUS
    <3>. QED
      BY <1>3, <1>6, <3>1 DEF Ids
  <2>. QED
    BY <1>3, <2>1 DEF Unmigrated
<1>9. Progress /\ Copied
  BY <1>1 DEF Progress, Copied, Stopped
<1>. QED
  BY <1>1, <1>5, <1>7, <1>8, <1>9 DEF IInv

LEMMA InvStep == IInv /\ [Next]_vars => IInv'
BY TypeStep, GoodStep, UnmigratedStep, ProgressStep DEF IInv

\* The inductive invariant holds of every start, crash and migration.
THEOREM Invariance == Safe => []IInv
BY InvInit, InvStep, PTL DEF Safe

\* The state of database and migration keeps its shape (24-152): the connection of
\* init_db differs from the disk only while its transaction is open.
THEOREM TypeCorrect == Spec => []TypeOk
<1>1. IInv => TypeOk
  BY DEF IInv
<1>. QED
  BY <1>1, Invariance, PTL DEF Spec

\* No row is lost or doubled, whatever the shape of the database and wherever the
\* process stops, and every saved report is found until it is deleted (112-151, 332).
THEOREM RowsAreKept == Spec => []StoredIsKept
<1>1. IInv => StoredIsKept
  <2>. SUFFICES ASSUME IInv PROVE StoredIsKept
    OBVIOUS
  <2>1. Good(disk) /\ origin \in Shapes
    BY DEF IInv, TypeOk
  <2>2. origin # "new" => FirstRows(origin) \subseteq disk.rows \cup disk.oldRows
    BY <2>1 DEF Good, Migrating, FirstRows, Shapes
  <2>3. disk.rows \cap disk.oldRows = {}
    <3>1. Migrating => \A r \in FirstRows(origin) : r.legacy
      BY <2>1, FirstRowsFacts DEF Migrating
    <3>. QED
      BY <2>1, <3>1 DEF Good
  <2>. QED
    BY <2>1, <2>2, <2>3 DEF Good, StoredIsKept
<1>. QED
  BY <1>1, Invariance, PTL DEF Spec

\* The program serves only on a schema its handlers can use, with admin (24-152).
THEOREM ServesOnlyUsable == Spec => []UpIsUsable
<1>1. IInv => UpIsUsable
  BY DEF IInv, TypeOk, Progress, UpIsUsable, Stopped
<1>. QED
  BY <1>1, Invariance, PTL DEF Spec

\* Without a migration child rows follow their scan and no report is refused.
THEOREM SoundWithoutMigration == Spec => []SoundUnlessMigrated
<1>1. IInv => SoundUnlessMigrated
  BY DEF IInv, Unmigrated, Migrating, SoundUnlessMigrated
<1>. QED
  BY <1>1, Invariance, PTL DEF Spec
=============================================================================
