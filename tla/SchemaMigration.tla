--------------------------- MODULE SchemaMigration ---------------------------
(***************************************************************************)
(* init_db of backend/db.py, run at import of main.py before anything is   *)
(* served, on every shape of database the repository has had, in a process *)
(* that may stop anywhere and is started again; and what the schema it     *)
(* leaves means for save_scan and delete_scan.                             *)
(*                                                                         *)
(* A statement commits by itself until the first INSERT of the connection  *)
(* opens a transaction; from there on DDL is part of the transaction.      *)
(* RENAME makes the child tables refer to scans_old.                       *)
(*                                                                         *)
(* A_x is A with the mistake x in it; no specification uses it.            *)
(***************************************************************************)
EXTENDS Naturals, FiniteSets

CONSTANTS
    Legacy,      \* number of rows a database starts with
    MaxSaves,    \* bound on the reports saved
    MaxCrashes   \* bound on the times the process is stopped

ASSUME LegacyAssumption == Legacy \in Nat
ASSUME BoundsAssumption == MaxSaves \in Nat /\ MaxCrashes \in Nat

VARIABLES
    disk,      \* the committed database
    work,      \* the database as the connection of init_db sees it
    tx,        \* that connection has a transaction open
    pc,        \* where init_db stands; "up": the program serves
    origin,    \* history: the shape of scans before the first start
    acked,     \* history: ids of the reports saved and not deleted since
    refused,   \* history: a report could not be saved
    saves, crashes

served == <<acked, refused, saves>>
vars == <<disk, work, tx, pc, origin, served, crashes>>

\* scans: "bare" lacks report and created_at, "plain" has no user column.
Shapes == {"none", "plain", "bare", "old", "new"}
Steps  == {"users", "scans", "children", "inspect", "rename", "create", "copy",
           "drop", "index", "lookup", "admin", "commit"}
Stopped == {"down", "raised"}

\* A row is its id and whether an earlier program wrote it.
Rows == [id : Nat, legacy : BOOLEAN]
FirstRows(shape) ==
    IF shape = "none" THEN {} ELSE [id : 1..Legacy, legacy : {shape # "new"}]
Ids(rows)  == {r.id : r \in rows}

(* users, admin: the table, its row; scans, old: the shapes of scans and   *)
(* scans_old; fk: the parent the child tables name;                        *)
(* kids: ids of the scans with rows in child tables; seq: AUTOINCREMENT.   *)
Databases == [users : BOOLEAN, admin : BOOLEAN, scans : Shapes,
              rows : SUBSET Rows, seq : Nat, old : Shapes,
              oldRows : SUBSET Rows, fk : {"none", "scans", "scans_old"},
              kids : SUBSET Nat]

TypeOk ==
    /\ disk \in Databases /\ work \in Databases
    /\ tx \in BOOLEAN
    /\ tx => pc \in {"drop", "index", "lookup", "admin", "commit"}
    /\ ~tx => work = disk
    /\ pc \in Steps \cup Stopped \cup {"up"}
    /\ origin \in Shapes
    /\ acked \subseteq Nat
    /\ refused \in BOOLEAN
    /\ saves \in 0..MaxSaves
    /\ crashes \in 0..MaxCrashes

\* Nothing at all; a table scans of an earlier program; the present schema.
Init ==
    /\ origin \in Shapes
    /\ \E users, admin \in BOOLEAN :
          /\ admin => users
          /\ origin = "none" => ~users
          /\ origin = "new" => users
          /\ disk = [users |-> users, admin |-> admin, scans |-> origin,
                     rows |-> FirstRows(origin),
                     seq |-> IF origin = "none" THEN 0 ELSE Legacy,
                     old |-> "none", oldRows |-> {},
                     fk |-> IF origin = "new" THEN "scans" ELSE "none",
                     kids |-> IF origin = "new" THEN 1..Legacy ELSE {}]
    /\ acked = disk.kids
    /\ work = disk
    /\ tx = FALSE
    /\ pc = "down"
    /\ refused = FALSE /\ saves = 0 /\ crashes = 0

-----------------------------------------------------------------------------
(* init_db *)

At(here, there) == pc = here /\ pc' = there
\* a statement of init_db's connection
Write(d) == /\ work' = d
            /\ disk' = IF tx THEN disk ELSE d
            /\ UNCHANGED tx

\* the exception leaves init_db and closes its connection
Raise == /\ pc' = "raised"
         /\ work' = disk /\ tx' = FALSE
         /\ UNCHANGED disk

Start == /\ pc \in Stopped
         /\ pc' = "users"
         /\ UNCHANGED <<disk, work, tx, origin, served, crashes>>

CreateUsers == /\ At("users", "scans")
               /\ Write([work EXCEPT !.users = TRUE])
               /\ UNCHANGED <<origin, served, crashes>>

\* IF NOT EXISTS left out
CreateScans_always ==
    /\ pc = "scans"
    /\ IF work.scans = "none"
       THEN pc' = "children" /\ Write([work EXCEPT !.scans = "new"])
       ELSE Raise
    /\ UNCHANGED <<origin, served, crashes>>

CreateScans == /\ At("scans", "children")
               /\ Write([work EXCEPT !.scans = IF @ = "none" THEN "new" ELSE @])
               /\ UNCHANGED <<origin, served, crashes>>

\* The four child tables: they are read by nothing before the next statement.
CreateChildren == /\ At("children", "inspect")
                  /\ Write([work EXCEPT !.fk = IF @ = "none" THEN "scans" ELSE @])
                  /\ UNCHANGED <<origin, served, crashes>>

\* "user" in columns and "user_id" not in columns
Inspect == /\ At("inspect", IF work.scans \in {"bare", "old"} THEN "rename"
                                                               ELSE "index")
           /\ UNCHANGED <<disk, work, tx, origin, served, crashes>>

Rename == /\ At("rename", "create")
          /\ Write([work EXCEPT !.scans = "none", !.rows = {}, !.old = work.scans,
                                !.oldRows = work.rows, !.fk = "scans_old"])
          /\ UNCHANGED <<origin, served, crashes>>

\* the copy left out
Create_uncopied == /\ At("create", "drop")
                   /\ Write([work EXCEPT !.scans = "new", !.seq = 0])
                   /\ UNCHANGED <<origin, served, crashes>>

Create == /\ At("create", "copy")
          /\ Write([work EXCEPT !.scans = "new", !.seq = 0])
          /\ UNCHANGED <<origin, served, crashes>>

\* INSERT ... SELECT: fails on a column scans_old does not have.
Copy ==
    /\ pc = "copy"
    /\ IF work.old = "bare" THEN Raise
       ELSE /\ pc' = "drop" /\ tx' = TRUE
            /\ work' = [work EXCEPT !.rows = work.oldRows, !.seq = Legacy]
            /\ UNCHANGED disk
    /\ UNCHANGED <<origin, served, crashes>>

Drop == /\ At("drop", "index")
        /\ Write([work EXCEPT !.old = "none", !.oldRows = {}])
        /\ UNCHANGED <<origin, served, crashes>>

\* The first index is on scans(user_id).
Index == /\ pc = "index"
         /\ IF work.scans = "plain" THEN Raise
            ELSE pc' = "lookup" /\ UNCHANGED <<disk, work, tx>>
         /\ UNCHANGED <<origin, served, crashes>>

\* get_user_by_username, on a connection of its own
Lookup == /\ At("lookup", IF disk.admin THEN "commit" ELSE "admin")
          /\ UNCHANGED <<disk, work, tx, origin, served, crashes>>

\* create_user that takes every error for a user who is there already
CreateAdmin_swallowed ==
    /\ At("admin", "commit")
    /\ IF tx THEN UNCHANGED <<disk, work>>
       ELSE /\ disk' = [disk EXCEPT !.admin = TRUE]
            /\ work' = [work EXCEPT !.admin = TRUE]
    /\ UNCHANGED <<tx, origin, served, crashes>>

\* create_user, on a third connection: locked out by an open transaction.
CreateAdmin ==
    /\ pc = "admin"
    /\ IF tx THEN Raise
       ELSE /\ pc' = "commit"
            /\ disk' = [disk EXCEPT !.admin = TRUE]
            /\ work' = [work EXCEPT !.admin = TRUE]
            /\ UNCHANGED tx
    /\ UNCHANGED <<origin, served, crashes>>

Commit == /\ At("commit", "up")
          /\ disk' = work /\ tx' = FALSE
          /\ UNCHANGED <<work, origin, served, crashes>>

InitDb == \/ Start \/ CreateUsers \/ CreateScans \/ CreateChildren \/ Inspect
          \/ Rename \/ Create \/ Copy \/ Drop \/ Index \/ Lookup \/ CreateAdmin
          \/ Commit

-----------------------------------------------------------------------------
(* the program that serves, and its end *)

\* rows of child tables can name a scan with this id
Accepts(d, id) == \/ d.fk = "scans"
                  \/ d.fk = "scans_old" /\ id \in Ids(d.oldRows)

\* rolled back before it is answered
Save_uncommitted(children) ==
    LET id == disk.seq + 1 IN
    /\ pc = "up" /\ saves < MaxSaves
    /\ saves' = saves + 1
    /\ acked' = acked \cup {id}
    /\ UNCHANGED <<disk, work, refused, tx, pc, origin, crashes>>

\* save_scan of a report with or without findings, in one transaction
Save(children) ==
    LET id == disk.seq + 1 IN
    /\ pc = "up" /\ saves < MaxSaves
    /\ saves' = saves + 1
    /\ IF children /\ ~Accepts(disk, id)
       THEN refused' = TRUE /\ UNCHANGED <<disk, work, acked>>
       ELSE /\ disk' = [disk EXCEPT !.seq = id,
                            !.rows = @ \cup {[id |-> id, legacy |-> FALSE]},
                            !.kids = IF children THEN @ \cup {id} ELSE @]
            /\ work' = disk'
            /\ acked' = acked \cup {id}
            /\ UNCHANGED refused
    /\ UNCHANGED <<tx, pc, origin, crashes>>

\* PRAGMA foreign_keys left out
Delete_unenforced(id) ==
    /\ pc = "up" /\ id \in acked
    /\ disk' = [disk EXCEPT !.rows = {r \in @ : r.id # id}]
    /\ work' = disk'
    /\ acked' = acked \ {id}
    /\ UNCHANGED <<tx, pc, origin, refused, saves, crashes>>

\* delete_scan: only a report with an owner; child rows go by their key.
Delete(id) ==
    /\ pc = "up" /\ id \in acked
    /\ disk' = [disk EXCEPT !.rows = {r \in @ : r.id # id},
                            !.kids = IF disk.fk = "scans" THEN @ \ {id} ELSE @]
    /\ work' = disk'
    /\ acked' = acked \ {id}
    /\ UNCHANGED <<tx, pc, origin, refused, saves, crashes>>

\* The process is killed: what is not committed is rolled back.
Crash == /\ pc \notin Stopped /\ crashes < MaxCrashes
         /\ pc' = "down"
         /\ work' = disk /\ tx' = FALSE
         /\ crashes' = crashes + 1
         /\ UNCHANGED <<disk, origin, served>>

Next == \/ InitDb
        \/ \E children \in BOOLEAN : Save(children)
        \/ \E id \in acked : Delete(id)
        \/ Crash

Safe == Init /\ [][Next]_vars
\* The host starts the program again whenever it has stopped.
Spec == Safe /\ WF_vars(InitDb)

-----------------------------------------------------------------------------
(* What holds. *)

\* Whatever the shape and wherever the process stops, every row of an earlier
\* program is committed in scans or in scans_old, but not in both, as copy and drop
\* are one transaction; every report a user was told is saved is in scans until it
\* is deleted; and no two rows of scans share an id (lines 112-151, 332).
StoredIsKept ==
    /\ origin # "new" => FirstRows(origin) \subseteq disk.rows \cup disk.oldRows
    /\ disk.rows \cap disk.oldRows = {}
    /\ \A id \in acked : [id |-> id, legacy |-> FALSE] \in disk.rows
    /\ \A r, s \in disk.rows : r.id = s.id => r = s

\* When init_db returns, every table the handlers use is there with the column
\* user_id, and admin can log in (lines 24-152).
UpIsUsable ==
    pc = "up" => /\ disk.users /\ disk.admin
                 /\ disk.scans = "new" /\ disk.fk # "none"

\* Unless a migration has run, child rows follow their scan and no report is
\* refused (lines 52-110, 434-446).
SoundUnlessMigrated ==
    origin \notin {"bare", "old"} =>
        ~refused /\ disk.kids \subseteq Ids(disk.rows)

\* From every shape but the one without a user column, the program is up in the
\* end and stays up, when it is started again and not killed for ever.
ComesUp == origin # "plain" => <>[](pc = "up")

-----------------------------------------------------------------------------
(* The inductive invariant behind the safety properties *)

Migrating == origin \in {"bare", "old"}

\* A database that is kept: the rows of the earlier program are in one of the two
\* tables, all or none; whoever was told of a report finds it.
Good(d) ==
    /\ Migrating => FirstRows(origin) = d.oldRows \/ FirstRows(origin) \subseteq d.rows
    /\ origin = "plain" => FirstRows(origin) \subseteq d.rows
    /\ d.oldRows # {} => /\ Migrating /\ d.oldRows = FirstRows(origin)
                         /\ \A r \in d.rows : ~r.legacy
    /\ \A id \in acked : [id |-> id, legacy |-> FALSE] \in d.rows
    /\ \A r, s \in d.rows : r.id = s.id => r = s
    /\ \A r \in d.rows : r.id <= d.seq
    /\ d.scans = "none" => d.rows = {}
    /\ d.scans # "new" => acked = {}
    /\ d.scans \in {"bare", "old"} => /\ origin = d.scans /\ d.oldRows = {}
                                      /\ d.rows = FirstRows(origin)

\* Without a migration the children name scans and nothing else, from first to last.
Unmigrated(d) ==
    ~Migrating => /\ d.fk # "scans_old" /\ d.oldRows = {}
                  /\ d.kids \subseteq Ids(d.rows)

\* How far init_db is says what it finds.
Progress ==
    /\ pc \notin Stopped \cup {"users"} => work.users
    /\ pc \in {"rename", "create", "copy"} => Migrating
    /\ pc = "rename" => work.scans \in {"bare", "old"}
    /\ pc = "create" => work.scans = "none"
    /\ pc \in {"create", "copy"} => work.rows = {} /\ work.oldRows = FirstRows(origin)
    /\ pc \in {"copy", "drop"} => work.scans = "new"
    /\ pc \in {"children", "inspect"} => work.scans # "none"
    /\ pc = "index" => work.scans \in {"plain", "new"}
    /\ pc \in {"lookup", "admin", "commit", "up"} => work.scans = "new"
    /\ pc \in {"inspect", "rename", "create", "copy", "drop", "index", "lookup",
               "admin", "commit", "up"} => work.fk # "none"
    /\ pc \in {"commit", "up"} => work.admin

\* What the open transaction of the copy has done to the committed database.
Copied ==
    tx => /\ Migrating /\ acked = {}
          /\ disk.rows = {} /\ disk.oldRows = FirstRows(origin)
          /\ work.rows = FirstRows(origin) /\ work.seq = Legacy
          /\ work.oldRows = IF pc = "drop" THEN disk.oldRows ELSE {}
          /\ work.admin = disk.admin /\ work.scans = "new"

IInv ==
    /\ TypeOk /\ Good(disk) /\ Unmigrated(disk) /\ Progress /\ Copied
    /\ pc = "drop" => tx
    /\ ~Migrating => ~refused

-----------------------------------------------------------------------------
(* What the repository says and the code does not do. *)

\* Decisions.md: "no stale tables".
NoStaleTable == pc = "up" => disk.old = "none"
=============================================================================
