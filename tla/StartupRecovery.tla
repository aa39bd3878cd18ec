--------------------------- MODULE StartupRecovery ---------------------------
(***************************************************************************)
(* The start of the server in Docker mode (api.py, _run_startup): schema   *)
(* migrations with a backup before them (migrate.py), detection of data    *)
(* loss and restore of the newest backup (auto_recovery.py), and the       *)
(* startup backup with its rotation (auto_backup.py).                      *)
(*                                                                         *)
(* The start runs on a thread of its own.  The endpoints do not wait for   *)
(* init_complete, so clients index and delete documents between its steps. *)
(* The server may be killed at any step and started again; backups live on *)
(* the host and survive even the loss of the database volume.              *)
(***************************************************************************)
EXTENDS Integers, FiniteSets

CONSTANTS
    Doc,
    Head,                     \* number of schema revisions
    KeepMigrate, KeepStartup, \* backups the rotation keeps (5 and 3)
    MaxOps, MaxFaults, MaxBoots, MaxWipes  \* bounds of the exploration

ASSUME HeadAssumption == Head \in Nat \ {0}
ASSUME KeepAssumption == KeepMigrate \in Nat \ {0} /\ KeepStartup \in Nat \ {0}

VARIABLES
    db,       \* the database: does it exist, with its table, revision, documents
    backups,  \* the .sql files of the backup directory
    clock,    \* the modification time of the next file
    pc,       \* the step the start has reached, "off" when the server is down
    after,    \* where the running migration returns to
    message,  \* services.recovery_message
    ops, faults, boots, wipes,
    kept,     \* history: documents acknowledged, outside a recovery
    dumped,   \* history: prefixes under which a whole backup was taken
    owed      \* history: what the newest backup held when the volume was lost

history == <<kept, dumped, owed>>
bounds  == <<ops, faults, boots, wipes>>
files   == <<backups, clock, dumped>>
vars    == <<db, backups, clock, pc, after, message, bounds, history>>

----------------------------------------------------------------------------
(* The database and the backup files *)

NoDb    == [up |-> FALSE, table |-> FALSE, rev |-> 0, docs |-> {}]
EmptyDb == [NoDb EXCEPT !.up = TRUE]

\* A new volume: empty, or with the table that init-db.sql makes.
NewVolume == {EmptyDb, [EmptyDb EXCEPT !.table = TRUE]}

\* What an interrupted dump or load of the database x may have transferred.
Parts(x) == {EmptyDb} \union {[x EXCEPT !.docs = S] : S \in SUBSET x.docs}

\* find_latest_backup: the youngest file under any of the prefixes.
Newest(B) == CHOOSE b \in B : \A c \in B : c.at <= b.at

\* Mutant: the oldest backups are kept, not the youngest.
MutRotated(B, p, keep) ==
    {b \in B : b.prefix = p =>
                 Cardinality({c \in B : c.prefix = p /\ c.at < b.at}) < keep}

\* rotate_backups
Rotated(B, p, keep) ==
    {b \in B : b.prefix = p =>
                 Cardinality({c \in B : c.prefix = p /\ c.at > b.at}) < keep}

File(p, whole, x) == [at |-> clock, prefix |-> p, whole |-> whole, db |-> x]

Fault == faults < MaxFaults /\ faults' = faults + 1

\* pg_dump succeeds, and the older backups of its prefix are rotated.
DumpOk(p, keep) ==
    /\ backups' = Rotated(backups \union {File(p, TRUE, db)}, p, keep)
    /\ clock' = clock + 1
    /\ dumped' = dumped \union {p}
    /\ UNCHANGED faults

\* pg_dump is missing, fails or times out; the file it had begun stays.
Unfinished(p) ==
    /\ backups' \in {backups} \union {backups \union {File(p, FALSE, x)} : x \in Parts(db)}
    /\ clock' = clock + 1
    /\ UNCHANGED dumped

DumpFails(p) == Fault /\ Unfinished(p)

----------------------------------------------------------------------------
(* run_migrations *)

\* Frame of the steps that change neither the bounds nor what clients have.
StartFrame == UNCHANGED <<ops, boots, wipes, kept, owed>>

Goto(s) == pc' = s

Start ==
    /\ pc = "off" /\ boots < MaxBoots
    /\ boots' = boots + 1
    /\ Goto("pending") /\ after' = "detect"
    /\ message' = "none"
    /\ UNCHANGED <<db, files, ops, faults, wipes, kept, owed>>

\* _get_pending_migrations: without a connection the migrations are given up.
CheckPending ==
    /\ pc = "pending"
    /\ \/ db.up /\ db.rev = Head /\ Goto(after) /\ UNCHANGED faults
       \/ db.up /\ db.rev # Head /\ Goto("dump") /\ UNCHANGED faults
       \/ ~db.up /\ Goto(after) /\ UNCHANGED faults
       \/ Fault /\ Goto(after)
    /\ UNCHANGED <<db, files, after, message>> /\ StartFrame

\* The backup before the migration.  Its failure does not stop the migration,
\* unless the backup directory cannot even be made.
PreMigrate ==
    /\ pc = "dump"
    /\ \/ DumpOk("pre_migrate", KeepMigrate) /\ Goto("upgrade")
       \/ DumpFails("pre_migrate") /\ Goto("upgrade")
       \/ Fault /\ Goto(after) /\ UNCHANGED files
    /\ UNCHANGED <<db, after, message>> /\ StartFrame

\* command.upgrade commits one revision after the other.
Upgrade ==
    /\ pc = "upgrade"
    /\ \/ /\ db' = [db EXCEPT !.rev = @ + 1, !.table = TRUE]
          /\ Goto(IF db.rev + 1 = Head THEN after ELSE "upgrade")
          /\ UNCHANGED faults
       \/ Fault /\ Goto(after) /\ UNCHANGED db
    /\ UNCHANGED <<files, after, message>> /\ StartFrame

----------------------------------------------------------------------------
(* auto_recover_if_needed *)

\* Mutant: a backup alone is taken for data loss.
MutLost == backups # {} /\ db.up /\ db.table

\* detect_data_loss
Lost == backups # {} /\ db.up /\ db.table /\ db.docs = {}

Detect ==
    /\ pc = "detect"
    /\ \/ Goto(IF Lost THEN "drop" ELSE "services") /\ UNCHANGED faults
       \/ Fault /\ Goto("services")
    /\ UNCHANGED <<db, files, after, message>> /\ StartFrame

\* A step of restore_from_pg_dump that fails or times out ends the recovery.
GiveUp == message' = "failed" /\ Goto("services")

\* Mutant: the database is only marked as gone.
MutDrop ==
    /\ pc = "drop"
    /\ db' = [db EXCEPT !.up = FALSE] /\ Goto("create")
    /\ UNCHANGED <<faults, files, after, message>> /\ StartFrame

\* Connections are terminated and the database is dropped, with whatever a
\* client has put there since it was found empty.
Drop ==
    /\ pc = "drop"
    /\ \/ db' = NoDb /\ Goto("create") /\ UNCHANGED <<faults, message>>
       \/ Fault /\ GiveUp /\ UNCHANGED db
    /\ UNCHANGED <<files, after>> /\ StartFrame

Create ==
    /\ pc = "create"
    /\ \/ db' = EmptyDb /\ Goto("load") /\ UNCHANGED <<faults, message>>
       \/ Fault /\ GiveUp /\ UNCHANGED db
    /\ UNCHANGED <<files, after>> /\ StartFrame

\* CREATE EXTENSION and psql, whose errors are not fatal: a file cut short
\* loads what it holds.  A timeout leaves a part of it.
Load ==
    /\ pc = "load"
    /\ \/ db' = Newest(backups).db /\ Goto("verify") /\ UNCHANGED <<faults, message>>
       \/ Fault /\ GiveUp /\ db' \in Parts(Newest(backups).db)
    /\ UNCHANGED <<files, after>> /\ StartFrame

\* Any row counts as success; the migrations then run again.
Verify ==
    /\ pc = "verify"
    /\ \/ /\ db.docs # {}
          /\ message' = "restored" /\ kept' = db.docs
          /\ Goto("pending") /\ after' = "services"
          /\ UNCHANGED faults
       \/ db.docs = {} /\ GiveUp /\ UNCHANGED <<after, kept, faults>>
       \/ Fault /\ GiveUp /\ UNCHANGED <<after, kept>>
    /\ UNCHANGED <<db, files, ops, boots, wipes, owed>>

----------------------------------------------------------------------------
(* The services and the startup backup *)

\* The database manager connects, unless a request has already made it do so.
Services ==
    /\ pc = "services"
    /\ \/ Goto("count") /\ UNCHANGED faults
       \/ ~db.up /\ Goto("failed") /\ UNCHANGED faults
       \/ Fault /\ Goto("failed")
    /\ UNCHANGED <<db, files, after, message>> /\ StartFrame

\* An empty database is not backed up; an error is only logged.
CountDocuments ==
    /\ pc = "count"
    /\ \/ Goto(IF db.docs # {} THEN "backup" ELSE "up") /\ UNCHANGED faults
       \/ Fault /\ Goto("up")
    /\ UNCHANGED <<db, files, after, message>> /\ StartFrame

StartupBackup ==
    /\ pc = "backup"
    /\ \/ DumpOk("startup_backup", KeepStartup)
       \/ DumpFails("startup_backup")
       \/ Fault /\ UNCHANGED files
    /\ Goto("up")
    /\ UNCHANGED <<db, after, message>> /\ StartFrame

----------------------------------------------------------------------------
(* Clients, crashes and the loss of the volume *)

Recovering == {"drop", "create", "load", "verify"}

\* A client has a document indexed, whatever the start is doing.
Index(d) ==
    /\ pc # "off" /\ ops < MaxOps /\ db.table /\ d \notin db.docs
    /\ ops' = ops + 1
    /\ db' = [db EXCEPT !.docs = @ \union {d}]
    /\ kept' = IF pc \in Recovering THEN kept ELSE kept \union {d}
    /\ UNCHANGED <<files, pc, after, message, faults, boots, wipes, owed>>

Delete(d) ==
    /\ pc # "off" /\ ops < MaxOps /\ d \in db.docs
    /\ ops' = ops + 1
    /\ db' = [db EXCEPT !.docs = @ \ {d}]
    /\ kept' = kept \ {d} /\ owed' = owed \ {d}
    /\ UNCHANGED <<files, pc, after, message, faults, boots, wipes>>

\* The containers stop.  A dump or a load that was running is cut short.
Stop ==
    /\ pc # "off"
    /\ Goto("off")
    /\ CASE pc = "dump"   -> Unfinished("pre_migrate") /\ UNCHANGED db
         [] pc = "backup" -> Unfinished("startup_backup") /\ UNCHANGED db
         [] pc = "load"   -> db' \in Parts(Newest(backups).db) /\ UNCHANGED files
         [] OTHER         -> UNCHANGED <<db, files>>
    /\ UNCHANGED <<after, message, bounds, kept, owed>>

\* The volume of the database is lost while the containers are down.
Wipe ==
    /\ pc = "off" /\ wipes < MaxWipes
    /\ wipes' = wipes + 1
    /\ db' \in NewVolume
    /\ kept' = {}
    /\ owed' = IF backups # {} /\ Newest(backups).whole THEN Newest(backups).db.docs ELSE {}
    /\ UNCHANGED <<files, pc, after, message, ops, faults, boots>>

\* The first start of an installation.
Init ==
    /\ db \in NewVolume
    /\ backups = {} /\ clock = 0
    /\ pc = "off" /\ after = "detect" /\ message = "none"
    /\ ops = 0 /\ faults = 0 /\ boots = 0 /\ wipes = 0
    /\ kept = {} /\ dumped = {} /\ owed = {}

StartStep == CheckPending \/ PreMigrate \/ Upgrade \/ Detect \/ Drop \/ Create \/ Load
               \/ Verify \/ Services \/ CountDocuments \/ StartupBackup

Next ==
    \/ Start
    \/ StartStep
    \/ \E d \in Doc : Index(d) \/ Delete(d)
    \/ Stop
    \/ Wipe

Spec == Init /\ [][Next]_vars

----------------------------------------------------------------------------
(* Properties *)

Database == [up : BOOLEAN, table : BOOLEAN, rev : 0..Head, docs : SUBSET Doc]
Backup   == [at : Nat, prefix : {"pre_migrate", "startup_backup"},
             whole : BOOLEAN, db : Database]

\* Types of the start, with the shape of the databases and of the files: a
\* table needs its database, a document its table, and files differ in time.
TypeOK ==
    /\ db \in Database
    /\ backups \in SUBSET Backup /\ clock \in Nat
    /\ pc \in Recovering \union {"off", "pending", "dump", "upgrade", "detect",
                                 "services", "count", "backup", "up", "failed"}
    /\ after \in {"detect", "services"}
    /\ message \in {"none", "restored", "failed"}
    /\ kept \in SUBSET Doc /\ owed \in SUBSET Doc
    /\ dumped \subseteq {"pre_migrate", "startup_backup"}
    /\ \A x \in {db} \union {b.db : b \in backups} :
         (x.table => x.up) /\ (x.docs # {} => x.table)
    /\ \A b \in backups : b.at < clock /\ b.db.up
    /\ \A b, c \in backups : b.at = c.at => b = c

\* A document a client was told is indexed, and has not deleted, is in the
\* database at every later step of every start, crash and migration, and so is
\* every document a recovery reported as restored.  Only the loss of the
\* volume, or indexing while the recovery is replacing the database, escapes.
AcknowledgedSurvive == kept \subseteq db.docs

\* Once a whole backup has been taken under a prefix, a whole one remains there,
\* however many dumps are cut short: rotation runs only after a success.
WholeBackupRemains ==
    \A p \in dumped : \E b \in backups : b.prefix = p /\ b.whole

\* After the loss of the volume a start without faults brings back what the
\* newest backup held.  ("If the database is empty but backups exist (e.g.,
\* after a Docker volume wipe), the system automatically restores from the most
\* recent backup on startup")
RestoredAfterWipe == pc = "up" => owed \subseteq db.docs
=============================================================================
