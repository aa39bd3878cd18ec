----------------------- MODULE StartupRecoveryProofs -----------------------
(***************************************************************************)
(* Proofs about StartupRecovery, for any documents, revisions, rotation    *)
(* limits and bounds: its types, that no start loses an acknowledged       *)
(* document, and that a whole backup remains once one has been taken.      *)
(***************************************************************************)
EXTENDS StartupRecovery, FiniteSetTheorems, TLAPS

Prefix == {"pre_migrate", "startup_backup"}

\* A database that can exist: documents need a table, a table a database.
Sound(x) == x \in Database /\ (x.table => x.up) /\ (x.docs # {} => x.table)

\* The backup directory: well-formed files, told apart by their times, one of
\* which is the youngest.
FilesOK ==
    /\ backups \in SUBSET Backup /\ clock \in Nat /\ dumped \subseteq Prefix
    /\ \A b \in backups : Sound(b.db) /\ b.db.up /\ b.at < clock
    /\ \A b, c \in backups : b.at = c.at => b = c
    /\ backups # {} => \E b \in backups : \A c \in backups : c.at <= b.at

\* Where the start stands, and what it may rely on there.
StartOK ==
    /\ pc \in Recovering \union {"off", "pending", "dump", "upgrade", "detect",
                                 "services", "count", "backup", "up", "failed"}
    /\ after \in {"detect", "services"}
    /\ message \in {"none", "restored", "failed"}
    /\ pc \in {"dump", "upgrade"} => db.up /\ db.rev # Head
    /\ pc = "backup" => db.up
    /\ pc \in Recovering => backups # {}

ClientsOK == kept \in SUBSET Doc /\ owed \in SUBSET Doc

TypeInv == Sound(db) /\ FilesOK /\ StartOK /\ ClientsOK

\* The inductive invariant is at least the type invariant.
LEMMA TypeInvSuffices == TypeInv => TypeOK
BY DEF TypeInv, TypeOK, FilesOK, StartOK, ClientsOK, Sound, Prefix

(***************************************************************************)
(* Databases and files.                                                    *)
(***************************************************************************)

\* New volumes, and the database that was dropped.
LEMMA VolumeSound ==
    /\ Sound(NoDb) /\ Sound(EmptyDb) /\ EmptyDb.up /\ EmptyDb.docs = {}
    /\ \A x \in NewVolume : Sound(x) /\ x.docs = {}
<1>1. 0 \in 0..Head
  BY HeadAssumption
<1> QED BY <1>1 DEF Sound, NoDb, EmptyDb, NewVolume, Database

\* Whatever an interrupted transfer leaves is a database.
LEMMA PartsSound ==
    ASSUME NEW x, Sound(x), x.up, NEW y \in Parts(x)
    PROVE  Sound(y) /\ y.up
<1>1. CASE y = EmptyDb
  BY <1>1, VolumeSound
<1>2. CASE \E S \in SUBSET x.docs : y = [x EXCEPT !.docs = S]
  BY <1>2 DEF Sound, Database
<1> QED BY <1>1, <1>2 DEF Parts

\* The newest backup is one of the backups.
LEMMA NewestSound ==
    ASSUME FilesOK, backups # {}
    PROVE  Newest(backups) \in backups /\ Sound(Newest(backups).db) /\ Newest(backups).db.up
BY DEF FilesOK, Newest

\* Adding a youngest file to some of the files keeps the directory in order.
LEMMA AddFile ==
    ASSUME FilesOK, NEW f \in Backup, Sound(f.db), f.db.up, f.at = clock,
           backups' \subseteq backups \union {f}, f \in backups',
           clock' = clock + 1, dumped' \subseteq Prefix
    PROVE  FilesOK' /\ backups' # {}
<1>1. \A b \in backups' : b \in Backup /\ Sound(b.db) /\ b.db.up /\ b.at <= clock /\ b.at \in Nat
  BY DEF FilesOK, Backup
<1>2. \A b, c \in backups' : b.at = c.at => b = c
  BY DEF FilesOK, Backup
<1>3. \A c \in backups' : c.at <= f.at
  BY <1>1
<1> QED BY <1>1, <1>2, <1>3 DEF FilesOK, Sound, Database

\* Rotation after a success never takes the file that was just written.
LEMMA RotatedKeeps ==
    ASSUME FilesOK, NEW p \in Prefix, NEW keep \in Nat \ {0}, Sound(db), db.up
    PROVE  /\ File(p, TRUE, db) \in Rotated(backups \union {File(p, TRUE, db)}, p, keep)
           /\ \A b \in backups : b.prefix # p
                  => b \in Rotated(backups \union {File(p, TRUE, db)}, p, keep)
<1> DEFINE f == File(p, TRUE, db)
           B == backups \union {f}
<1>1. f.at = clock
  BY DEF File
<1>2. {c \in B : c.prefix = p /\ c.at > f.at} = {}
  <2>1. \A c \in B : c = f \/ (c.at \in Nat /\ c.at < clock)
    BY DEF FilesOK, Backup
  <2> HIDE DEF f
  <2> QED BY <1>1, <2>1 DEF FilesOK
<1>3. Cardinality({c \in B : c.prefix = p /\ c.at > f.at}) < keep
  <2>1. Cardinality({c \in B : c.prefix = p /\ c.at > f.at}) = 0
    BY <1>2, FS_EmptySet, Zenon
  <2>2. 0 < keep
    OBVIOUS
  <2> QED BY <2>1, <2>2
<1> QED BY <1>3 DEF Rotated

\* A dump that succeeds leaves the directory in order, and its file in it.
LEMMA DumpOkFiles ==
    ASSUME FilesOK, NEW p \in Prefix, NEW keep \in Nat \ {0}, Sound(db), db.up,
           DumpOk(p, keep)
    PROVE  FilesOK' /\ backups' # {}
<1> DEFINE f == File(p, TRUE, db)
<1>1. f \in Backup /\ Sound(f.db) /\ f.db.up /\ f.at = clock
  BY DEF FilesOK, File, Backup, Sound, Prefix
<1>2. f \in backups' /\ backups' \subseteq backups \union {f}
  BY RotatedKeeps DEF DumpOk, Rotated
<1>3. clock' = clock + 1 /\ dumped' \subseteq Prefix
  BY DEF DumpOk, FilesOK
<1> HIDE DEF f
<1> QED BY <1>1, <1>2, <1>3, AddFile

\* So does one that fails, with or without a file.
LEMMA UnfinishedFiles ==
    ASSUME FilesOK, NEW p \in Prefix, Sound(db), db.up, Unfinished(p)
    PROVE  FilesOK' /\ (backups # {} => backups' # {})
<1>1. CASE backups' = backups
  BY <1>1 DEF Unfinished, FilesOK, Backup, Sound, Database
<1>2. CASE \E x \in Parts(db) : backups' = backups \union {File(p, FALSE, x)}
  <2>1. PICK x \in Parts(db) : backups' = backups \union {File(p, FALSE, x)}
    BY <1>2
  <2> DEFINE f == File(p, FALSE, x)
  <2>2. f \in Backup /\ Sound(f.db) /\ f.db.up /\ f.at = clock
    BY PartsSound DEF FilesOK, File, Backup, Sound, Prefix
  <2>3. f \in backups' /\ backups' \subseteq backups \union {f}
    BY <2>1
  <2>4. clock' = clock + 1 /\ dumped' \subseteq Prefix
    BY DEF Unfinished, FilesOK
  <2> HIDE DEF f
  <2> QED BY <2>2, <2>3, <2>4, AddFile
<1> QED BY <1>1, <1>2 DEF Unfinished

\* Files that nobody touches stay in order.
LEMMA FilesKeep == FilesOK /\ UNCHANGED files => FilesOK'
BY DEF FilesOK, files, Sound, Database

\* Transfers that end early, and those that do not happen, in one step.
LEMMA DumpFiles ==
    ASSUME FilesOK, NEW p \in Prefix, NEW keep \in Nat \ {0}, Sound(db), db.up,
           DumpOk(p, keep) \/ DumpFails(p) \/ UNCHANGED files
    PROVE  FilesOK'
<1>1. CASE DumpOk(p, keep)
  BY <1>1, DumpOkFiles
<1>2. CASE DumpFails(p)
  BY <1>2, UnfinishedFiles DEF DumpFails
<1> QED BY <1>1, <1>2, FilesKeep

(***************************************************************************)
(* The type invariant.                                                     *)
(***************************************************************************)

\* The first start.
LEMMA InitTypeInv == Init => TypeInv
<1> SUFFICES ASSUME Init PROVE TypeInv
  OBVIOUS
<1>1. Sound(db)
  BY VolumeSound DEF Init
<1>2. FilesOK
  BY DEF Init, FilesOK
<1>3. StartOK /\ ClientsOK
  BY DEF Init, StartOK, ClientsOK, Recovering
<1> QED BY <1>1, <1>2, <1>3 DEF TypeInv

\* The migrations.
LEMMA MigrateTypeInv ==
    ASSUME TypeInv, Start \/ CheckPending \/ PreMigrate \/ Upgrade
    PROVE  TypeInv'
<1>1. CASE Start
  BY <1>1, FilesKeep DEF TypeInv, Start, StartOK, ClientsOK, Recovering, Goto, Sound, Database
<1>2. CASE CheckPending
  BY <1>2, FilesKeep
  DEF TypeInv, CheckPending, StartFrame, StartOK, ClientsOK, Recovering, Goto, Sound, Database
<1>3. CASE PreMigrate
  <2>1. FilesOK'
    BY <1>3, DumpFiles, KeepAssumption DEF TypeInv, StartOK, PreMigrate, Prefix
  <2>2. Sound(db)' /\ StartOK' /\ ClientsOK'
    BY <1>3
    DEF TypeInv, PreMigrate, StartFrame, StartOK, ClientsOK, Recovering, Goto, Sound, Database
  <2> QED BY <2>1, <2>2 DEF TypeInv
<1>4. CASE Upgrade
  <2>1. FilesOK'
    BY <1>4, FilesKeep DEF TypeInv, Upgrade
  <2>2. db.up /\ db.rev \in 0..Head /\ db.rev # Head
    BY <1>4 DEF TypeInv, Upgrade, StartOK, Sound, Database
  <2>3. db.rev + 1 \in 0..Head
    BY <2>2, HeadAssumption
  <2>4. Sound(db)'
    BY <1>4, <2>2, <2>3 DEF TypeInv, Upgrade, Sound, Database
  <2>5. db' = db \/ db' = [db EXCEPT !.rev = @ + 1, !.table = TRUE]
    BY <1>4 DEF Upgrade
  <2>6. db'.up
    BY <2>2, <2>5 DEF TypeInv, Sound, Database
  <2>7. pc' = "upgrade" => db'.rev # Head
    BY <1>4, <2>2 DEF TypeInv, Upgrade, Goto, StartOK, Sound, Database
  <2>8. StartOK'
    BY <1>4, <2>6, <2>7 DEF TypeInv, Upgrade, StartFrame, Goto, StartOK, Recovering
  <2> QED BY <1>4, <2>1, <2>4, <2>8 DEF TypeInv, Upgrade, StartFrame, ClientsOK
<1> QED BY <1>1, <1>2, <1>3, <1>4

\* The recovery.
LEMMA RecoverTypeInv ==
    ASSUME TypeInv, Detect \/ Drop \/ Create \/ Load \/ Verify
    PROVE  TypeInv'
<1>1. FilesOK'
  BY FilesKeep DEF TypeInv, Detect, Drop, Create, Load, Verify
<1>2. Sound(db)'
  <2>1. CASE Load
    <3>1. backups # {}
      BY <2>1 DEF TypeInv, Load, StartOK, Recovering
    <3>2. Sound(Newest(backups).db) /\ Newest(backups).db.up
      BY <3>1, NewestSound DEF TypeInv
    <3>3. db' = Newest(backups).db \/ db' \in Parts(Newest(backups).db)
      BY <2>1 DEF Load
    <3>4. CASE db' = Newest(backups).db
      BY <3>2, <3>4 DEF Sound
    <3>5. ASSUME NEW y \in Parts(Newest(backups).db), db' = y
          PROVE  Sound(db)'
      <4>1. Sound(y)
        BY <3>2, <3>5, PartsSound
      <4> QED BY <3>5, <4>1 DEF Sound
    <3> QED BY <3>3, <3>4, <3>5
  <2>2. CASE db' \in {db, NoDb, EmptyDb}
    BY <2>2, VolumeSound DEF TypeInv, Sound
  <2> QED BY <2>1, <2>2 DEF Detect, Drop, Create, Verify
<1>3. StartOK'
  BY DEF TypeInv, Detect, Lost, Drop, Create, Load, Verify, GiveUp, files, StartOK,
         Recovering, Goto
<1>4. ClientsOK'
  BY DEF TypeInv, Detect, Drop, Create, Load, Verify, StartFrame, ClientsOK, Sound, Database
<1> QED BY <1>1, <1>2, <1>3, <1>4 DEF TypeInv

\* The services and the startup backup.
LEMMA ServicesTypeInv ==
    ASSUME TypeInv, Services \/ CountDocuments \/ StartupBackup
    PROVE  TypeInv'
<1>1. FilesOK'
  <2>1. CASE StartupBackup
    BY <2>1, DumpFiles, KeepAssumption DEF TypeInv, StartOK, StartupBackup, Prefix
  <2> QED BY <2>1, FilesKeep DEF TypeInv, Services, CountDocuments
<1>2. Sound(db)' /\ ClientsOK'
  BY DEF TypeInv, Services, CountDocuments, StartupBackup, StartFrame, ClientsOK, Sound
<1>3. StartOK'
  BY DEF TypeInv, Services, CountDocuments, StartupBackup, Goto, StartOK, Recovering, Sound
<1> QED BY <1>1, <1>2, <1>3 DEF TypeInv

\* Clients, kills and the loss of the volume.
LEMMA OutsideTypeInv ==
    ASSUME TypeInv, (\E d \in Doc : Index(d) \/ Delete(d)) \/ Stop \/ Wipe \/ UNCHANGED vars
    PROVE  TypeInv'
<1>1. CASE \E d \in Doc : Index(d) \/ Delete(d)
  <2>1. PICK d \in Doc : Index(d) \/ Delete(d)
    BY <1>1
  <2>2. \E S \in SUBSET Doc : db' = [db EXCEPT !.docs = S] /\ (S # {} => db.table)
    BY <2>1 DEF TypeInv, Index, Delete, Sound, Database
  <2>3. Sound(db)' /\ db'.up = db.up /\ db'.rev = db.rev
    BY <2>2 DEF TypeInv, Sound, Database
  <2>4. FilesOK'
    BY <2>1, FilesKeep DEF TypeInv, Index, Delete
  <2>5. StartOK'
    BY <2>1, <2>3 DEF TypeInv, Index, Delete, files, StartOK
  <2>6. ClientsOK'
    BY <2>1 DEF TypeInv, Index, Delete, ClientsOK
  <2> QED BY <2>3, <2>4, <2>5, <2>6 DEF TypeInv
<1>2. CASE Stop
  <2>1. FilesOK'
    <3>1. CASE pc \in {"dump", "backup"}
      BY <1>2, <3>1, UnfinishedFiles DEF TypeInv, Stop, StartOK, Prefix
    <3>2. CASE pc \notin {"dump", "backup"}
      BY <1>2, <3>2, FilesKeep DEF TypeInv, Stop
    <3> QED BY <3>1, <3>2
  <2>2. Sound(db)'
    <3>1. CASE pc = "load"
      <4>1. backups # {} /\ db' \in Parts(Newest(backups).db)
        BY <1>2, <3>1 DEF TypeInv, Stop, StartOK, Recovering
      <4>2. Sound(Newest(backups).db) /\ Newest(backups).db.up
        BY <4>1, NewestSound DEF TypeInv
      <4>3. ASSUME NEW y \in Parts(Newest(backups).db), db' = y
            PROVE  Sound(db)'
        <5>1. Sound(y)
          BY <4>2, <4>3, PartsSound
        <5> QED BY <4>3, <5>1 DEF Sound
      <4> QED BY <4>1, <4>3
    <3>2. CASE pc # "load"
      <4>1. db' = db
        BY <1>2, <3>2 DEF Stop
      <4> QED BY <4>1 DEF TypeInv, Sound
    <3> QED BY <3>1, <3>2
  <2>3. StartOK' /\ ClientsOK'
    BY <1>2 DEF TypeInv, Stop, Goto, StartOK, ClientsOK, Recovering
  <2> QED BY <2>1, <2>2, <2>3 DEF TypeInv
<1>3. CASE Wipe
  <2>1. FilesOK'
    BY <1>3, FilesKeep DEF TypeInv, Wipe
  <2>2. Sound(db)'
    BY <1>3, VolumeSound DEF Wipe, Sound
  <2>3. StartOK'
    BY <1>3 DEF TypeInv, Wipe, StartOK, Recovering
  <2>4. ClientsOK'
    BY <1>3, NewestSound DEF TypeInv, Wipe, ClientsOK, Sound, Database
  <2> QED BY <2>1, <2>2, <2>3, <2>4 DEF TypeInv
<1>4. CASE UNCHANGED vars
  BY <1>4, FilesKeep
  DEF TypeInv, vars, history, files, StartOK, ClientsOK, Recovering, Sound, Database
<1> QED BY <1>1, <1>2, <1>3, <1>4

\* The inductive invariant: the shape of the databases and the files, that files differ
\* in time, and that the recovery has a backup while it runs.
THEOREM TypeInvHolds == Spec => []TypeInv
<1>1. Init => TypeInv
  BY InitTypeInv
<1>2. TypeInv /\ [Next]_vars => TypeInv'
  BY MigrateTypeInv, RecoverTypeInv, ServicesTypeInv, OutsideTypeInv DEF Next, StartStep
<1> QED BY <1>1, <1>2, PTL DEF Spec

\* The databases and the files stay well-formed, whatever fails or is killed.
THEOREM TypeCorrect == Spec => []TypeOK
BY TypeInvHolds, TypeInvSuffices, PTL

(***************************************************************************)
(* Acknowledged documents.                                                 *)
(***************************************************************************)

\* What makes AcknowledgedSurvive inductive: a recovery begins only in an empty
\* database, and nothing is acknowledged until it ends.
NothingAtStake == pc \in Recovering => kept = {}

\* The steps that replace the database find nothing acknowledged in it.
LEMMA StartKeeps ==
    ASSUME TypeInv, AcknowledgedSurvive, NothingAtStake, Start \/ StartStep
    PROVE  AcknowledgedSurvive' /\ NothingAtStake'
<1>1. CASE Drop \/ Create \/ Load
  <2>1. kept = {} /\ kept' = kept
    BY <1>1 DEF NothingAtStake, Drop, Create, Load, StartFrame, Recovering
  <2> QED BY <2>1 DEF AcknowledgedSurvive, NothingAtStake
<1>2. CASE Verify
  BY <1>2 DEF AcknowledgedSurvive, NothingAtStake, Verify, GiveUp, Goto, Recovering
<1>3. CASE Detect
  BY <1>3 DEF AcknowledgedSurvive, NothingAtStake, Detect, Lost, StartFrame, Goto, Recovering
<1>4. CASE Upgrade
  <2>1. db'.docs = db.docs
    BY <1>4 DEF TypeInv, Upgrade, Sound, Database
  <2> QED BY <1>4, <2>1 DEF TypeInv, StartOK, AcknowledgedSurvive, NothingAtStake, Upgrade,
          StartFrame, Goto, Recovering
<1>5. CASE Start \/ CheckPending \/ PreMigrate
  <2>1. db' = db /\ kept' = kept /\ pc' \notin Recovering
    BY <1>5 DEF TypeInv, StartOK, Start, CheckPending, PreMigrate, StartFrame, Goto, Recovering
  <2> QED BY <2>1 DEF AcknowledgedSurvive, NothingAtStake
<1>6. CASE Services \/ CountDocuments \/ StartupBackup
  <2>1. db' = db /\ kept' = kept /\ pc' \notin Recovering
    BY <1>6 DEF Services, CountDocuments, StartupBackup, StartFrame, Goto, Recovering
  <2> QED BY <2>1 DEF AcknowledgedSurvive, NothingAtStake
<1> QED BY <1>1, <1>2, <1>3, <1>4, <1>5, <1>6 DEF StartStep

\* A client's step, a kill and the loss of the volume.
LEMMA OutsideKeeps ==
    ASSUME TypeInv, AcknowledgedSurvive, NothingAtStake,
           (\E d \in Doc : Index(d) \/ Delete(d)) \/ Stop \/ Wipe \/ UNCHANGED vars
    PROVE  AcknowledgedSurvive' /\ NothingAtStake'
<1>1. CASE \E d \in Doc : Index(d)
  <2>1. PICK d \in Doc : Index(d)
    BY <1>1
  <2>2. db'.docs = db.docs \union {d}
    BY <2>1 DEF TypeInv, Index, Sound, Database
  <2> QED BY <2>1, <2>2 DEF Index, AcknowledgedSurvive, NothingAtStake
<1>2. CASE \E d \in Doc : Delete(d)
  <2>1. PICK d \in Doc : Delete(d)
    BY <1>2
  <2>2. db'.docs = db.docs \ {d}
    BY <2>1 DEF TypeInv, Delete, Sound, Database
  <2> QED BY <2>1, <2>2 DEF Delete, AcknowledgedSurvive, NothingAtStake
<1>3. CASE Stop
  <2>1. pc' \notin Recovering /\ kept' = kept /\ (pc # "load" => db' = db)
    BY <1>3 DEF Stop, Goto, Recovering
  <2>2. pc = "load" => kept = {}
    BY DEF NothingAtStake, Recovering
  <2> QED BY <2>1, <2>2 DEF AcknowledgedSurvive, NothingAtStake
<1>4. CASE Wipe
  BY <1>4 DEF Wipe, AcknowledgedSurvive, NothingAtStake
<1>5. CASE UNCHANGED vars
  BY <1>5 DEF vars, history, AcknowledgedSurvive, NothingAtStake
<1> QED BY <1>1, <1>2, <1>3, <1>4, <1>5

\* No start loses a document that a client was told is indexed and has not
\* deleted, nor one that a recovery reported, through any number of kills,
\* faults, migrations and starts.
THEOREM AcknowledgedSurviveHolds == Spec => []AcknowledgedSurvive
<1>1. Init => AcknowledgedSurvive /\ NothingAtStake
  BY DEF Init, AcknowledgedSurvive, NothingAtStake
<1>2. TypeInv /\ AcknowledgedSurvive /\ NothingAtStake /\ [Next]_vars
          => AcknowledgedSurvive' /\ NothingAtStake'
  BY StartKeeps, OutsideKeeps DEF Next
<1> QED BY <1>1, <1>2, TypeInvHolds, PTL DEF Spec

(***************************************************************************)
(* Whole backups.                                                          *)
(***************************************************************************)

\* A success leaves a whole backup of its prefix, and those of the other.
LEMMA DumpOkRemains ==
    ASSUME TypeInv, WholeBackupRemains, NEW p \in Prefix, NEW keep \in Nat \ {0}, db.up,
           DumpOk(p, keep)
    PROVE  WholeBackupRemains'
<1> DEFINE f == File(p, TRUE, db)
<1>1. f \in backups' /\ f.prefix = p /\ f.whole
  BY RotatedKeeps DEF TypeInv, DumpOk, File
<1>2. \A b \in backups : b.prefix # p => b \in backups'
  BY RotatedKeeps DEF TypeInv, DumpOk
<1> SUFFICES ASSUME NEW q \in dumped'
             PROVE  \E b \in backups' : b.prefix = q /\ b.whole
  BY DEF WholeBackupRemains
<1>3. CASE q = p
  BY <1>1, <1>3
<1>4. CASE q # p
  <2>1. PICK b \in backups : b.prefix = q /\ b.whole
    BY <1>4 DEF WholeBackupRemains, DumpOk
  <2> QED BY <1>2, <1>4, <2>1
<1> QED BY <1>3, <1>4

\* Files are only added otherwise.
LEMMA MoreRemains ==
    ASSUME WholeBackupRemains, backups \subseteq backups', dumped' = dumped
    PROVE  WholeBackupRemains'
BY DEF WholeBackupRemains

\* However many dumps are cut short, a prefix that ever had a whole backup has
\* one: the rotation that could take it follows a success.
THEOREM WholeBackupRemainsHolds == Spec => []WholeBackupRemains
<1>1. Init => WholeBackupRemains
  BY DEF Init, WholeBackupRemains
<1>2. TypeInv /\ WholeBackupRemains /\ [Next]_vars => WholeBackupRemains'
  <2> SUFFICES ASSUME TypeInv, WholeBackupRemains, [Next]_vars PROVE WholeBackupRemains'
    OBVIOUS
  <2>1. CASE PreMigrate
    <3>1. db.up
      BY <2>1 DEF TypeInv, StartOK, PreMigrate
    <3>2. CASE DumpOk("pre_migrate", KeepMigrate)
      BY <3>1, <3>2, DumpOkRemains, KeepAssumption DEF Prefix
    <3>3. CASE DumpFails("pre_migrate") \/ UNCHANGED files
      BY <3>3, MoreRemains DEF DumpFails, Unfinished, files
    <3> QED BY <2>1, <3>2, <3>3 DEF PreMigrate
  <2>2. CASE StartupBackup
    <3>1. db.up
      BY <2>2 DEF TypeInv, StartOK, StartupBackup
    <3>2. CASE DumpOk("startup_backup", KeepStartup)
      BY <3>1, <3>2, DumpOkRemains, KeepAssumption DEF Prefix
    <3>3. CASE DumpFails("startup_backup") \/ UNCHANGED files
      BY <3>3, MoreRemains DEF DumpFails, Unfinished, files
    <3> QED BY <2>2, <3>2, <3>3 DEF StartupBackup
  <2>3. CASE Stop
    BY <2>3, MoreRemains DEF Stop, Unfinished, files
  <2>4. CASE \/ Start \/ CheckPending \/ Upgrade \/ Detect \/ Drop \/ Create \/ Load \/ Verify
             \/ Services \/ CountDocuments \/ Wipe \/ UNCHANGED vars
             \/ \E d \in Doc : Index(d) \/ Delete(d)
    <3>1. backups' = backups /\ dumped' = dumped
      BY <2>4 DEF Start, CheckPending, Upgrade, Detect, Drop, Create, Load, Verify, Services,
           CountDocuments, Wipe, Index, Delete, vars, history, files
    <3> QED BY <3>1, MoreRemains
  <2> QED BY <2>1, <2>2, <2>3, <2>4 DEF Next, StartStep
<1> QED BY <1>1, <1>2, TypeInvHolds, PTL DEF Spec
============================================================================
