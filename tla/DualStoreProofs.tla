-------------------------- MODULE DualStoreProofs --------------------------
(***************************************************************************)
(* Proofs about the two stores, for any sets of documents, versions and    *)
(* scanners and any bounds: the types, that no document ever holds chunks  *)
(* of two versions, that the mutation counter is exact, that a cached      *)
(* READY is true unless an invalidation was missed, and that an            *)
(* undisturbed repair is exact; and, with one writer at a time, that they  *)
(* implement a DocumentStore.                                              *)
(***************************************************************************)
EXTENDS SerialStore, FiniteSetTheorems, SequenceTheorems, TLAPS

(***************************************************************************)
(* Data.                                                                   *)
(***************************************************************************)

\* Every version has a first chunk, so two whole versions always collide.
LEMMA ChunksFacts ==
    ASSUME NEW v \in Version
    PROVE  Chunks(v) \subseteq Chunk /\ <<1, v>> \in Chunks(v)
<1>1. 1 \in 1..Size[v]
  BY VersionAssumption
<1> QED BY <1>1 DEF Chunks, Chunk

\* The writes on the LanceDB tables return tables.
LEMMA TablesClosed ==
    ASSUME NEW L \in Tables, NEW D \in SUBSET Doc, NEW f \in [Doc -> SUBSET Chunk]
    PROVE  /\ NoParents(L, D) \in Tables
           /\ Cleared(L, D) \in Tables
           /\ AddParents(L, f) \in Tables
           /\ AddRows(L, f) \in Tables
<1>1. NoParents(L, D) \in Tables
  BY DEF NoParents, Tables
<1>2. Cleared(L, D) \in Tables
  BY <1>1 DEF Cleared, Tables
<1>3. AddParents(L, f) \in Tables
  BY DEF AddParents, Tables
<1>4. AddRows(L, f) \in Tables
  BY DEF AddRows, Tables
<1> QED BY <1>1, <1>2, <1>3, <1>4

\* A row set for one document is one for every document.
LEMMA OnlyType ==
    ASSUME NEW d, NEW S \in SUBSET Chunk
    PROVE  Only(d, S) \in [Doc -> SUBSET Chunk]
BY DEF Only

\* An upsert, complete or not, leaves tables.
LEMMA UpsertType ==
    ASSUME NEW d \in Doc, NEW S \in SUBSET Chunk, lance \in Tables, faults \in Nat,
           UpsertOk(d, S) \/ UpsertFails(d, S)
    PROVE  lance' \in Tables /\ faults' \in Nat
<1> DEFINE C == Cleared(lance, {d})
<1>1. C \in Tables /\ NoParents(lance, {d}) \in Tables
  BY TablesClosed, OnlyType
<1>2. AddParents(C, Only(d, S)) \in Tables
  BY <1>1, TablesClosed, OnlyType
<1>3. AddRows(AddParents(C, Only(d, S)), Only(d, S)) \in Tables
  BY <1>2, TablesClosed, OnlyType
<1> QED BY <1>1, <1>2, <1>3 DEF UpsertOk, UpsertFails, Upserted, UpsertPartial, Fault

\* A delete from both tables, complete or not, leaves tables.
LEMMA ClearType ==
    ASSUME NEW D \in SUBSET Doc, lance \in Tables, faults \in Nat,
           ClearOk(D) \/ ClearFails(D)
    PROVE  lance' \in Tables /\ faults' \in Nat
<1>1. Cleared(lance, D) \in Tables /\ NoParents(lance, D) \in Tables
  BY TablesClosed, OnlyType
<1> QED BY <1>1 DEF ClearOk, ClearFails, Fault

(***************************************************************************)
(* The jobs: a thread inside the index write works on one document and one *)
(* version; the other steps belong to the other operations.                *)
(***************************************************************************)
IndexSteps == {"backup", "pgDelete", "pgInsert", "upsert", "rollback", "reinsert",
               "cleanLance"}
RestoreSteps == {"restorePg", "restoreLance", "restoreUndo"}

JobsOK ==
    \A t \in Thread :
        /\ job[t].op = "index" =>
              \E d \in Doc, v \in Version : job[t].docs = {d} /\ job[t].ver = Chunks(v)
        /\ pc[t] = "begin" => job[t].op # "none"
        /\ pc[t] \in IndexSteps => job[t].op = "index"
        /\ pc[t] \in RestoreSteps => job[t].op = "restore"
        /\ job[t].op = "restore" => "restore" \in Ops

TypeInv == TypeOK /\ JobsOK

\* The document of an index write is a document, its new rows are a version.
LEMMA TheDocType ==
    ASSUME NEW t \in Thread, JobsOK, pc[t] \in IndexSteps
    PROVE  /\ TheDoc(t) \in Doc
           /\ \E v \in Version : job[t].ver = Chunks(v)
BY DEF JobsOK, TheDoc

\* The server starts in a state of the right type, with no request in hand.
LEMMA InitTypeInv == Init => TypeInv
<1> SUFFICES ASSUME Init PROVE TypeInv
  OBVIOUS
<1>1. pg \in [Doc -> SUBSET Chunk]
  <2>1. {{}} \union {Chunks(v) : v \in Version} \subseteq SUBSET Chunk
    BY ChunksFacts
  <2> QED BY <2>1 DEF Init
<1>2. lance \in Tables
  BY DEF Init, EmptyLance, Tables
<1>3. NoJob \in Job
  BY DEF NoJob, Job
<1>4. SyncOff \in Repair
  BY DEF SyncOff, Repair
<1>5. TypeOK
  BY <1>1, <1>2, <1>3, <1>4 DEF Init, TypeOK
<1>6. JobsOK
  BY DEF Init, JobsOK, NoJob, IndexSteps, RestoreSteps
<1> QED BY <1>5, <1>6 DEF TypeInv

\* A request that arrives gives its thread a job of the right shape.
LEMMA RequestTypeInv ==
    ASSUME TypeInv, NEW t \in Thread, NEW op \in {"index", "delete", "restore"},
           NEW D \in SUBSET Doc, NEW S \in SUBSET Chunk, NEW r \in BOOLEAN,
           Request(t, op, D, S, r),
           op = "index" => \E d \in Doc, v \in Version : D = {d} /\ S = Chunks(v)
    PROVE  TypeInv'
<1> DEFINE j == [NoJob EXCEPT !.op = op, !.docs = D, !.todo = D, !.ver = S, !.replace = r]
<1>1. j \in Job /\ j.op = op /\ j.docs = D /\ j.ver = S
  BY DEF NoJob, Job
<1>2. job' = [job EXCEPT ![t] = j] /\ op \in Ops
  BY DEF Request
<1>3. TypeOK'
  BY <1>1, <1>2 DEF TypeInv, TypeOK, Request, Goto, stores, cache, repair, Steps
<1>4. JobsOK'
  <2> HIDE DEF j
  <2> QED BY <1>1, <1>2 DEF TypeInv, TypeOK, JobsOK, Request, Goto, IndexSteps, RestoreSteps
<1> QED BY <1>3, <1>4 DEF TypeInv

\* The first step of a write is one of its operation's own.
LEMMA BeginTypeInv ==
    ASSUME TypeInv, NEW t \in Thread, Begin(t)
    PROVE  TypeInv'
<1>1. FirstStep(job[t]) \in Steps
  BY DEF FirstStep, Steps
<1>2. sync' \in Repair
  BY DEF TypeInv, TypeOK, Begin, Repair
<1>3. TypeOK'
  BY <1>1, <1>2 DEF TypeInv, TypeOK, Begin, Goto, stores, cache
<1>4. JobsOK'
  <2>1. job[t].op \in {"index", "delete", "restore"}
    BY DEF TypeInv, TypeOK, Job, JobsOK, Begin
  <2>2. /\ FirstStep(job[t]) \in IndexSteps => job[t].op = "index"
        /\ FirstStep(job[t]) \in RestoreSteps => job[t].op = "restore"
        /\ FirstStep(job[t]) # "begin"
    BY <2>1 DEF FirstStep, IndexSteps, RestoreSteps
  <2> QED BY <2>2 DEF TypeInv, TypeOK, JobsOK, Begin, Goto
<1> QED BY <1>3, <1>4 DEF TypeInv

\* The finally clause of a write leaves a thread with no job.
LEMMA FinishTypeInv ==
    ASSUME TypeInv, NEW t \in Thread, Finish(t)
    PROVE  TypeInv'
<1>1. NoJob \in Job /\ NoJob.op = "none"
  BY DEF NoJob, Job
<1>2. job[t] \in Job
  BY DEF TypeInv, TypeOK
<1>3. ack' \in [Doc -> SUBSET Chunk]
  BY <1>2 DEF TypeInv, TypeOK, Finish, Job
<1>4. mutations' \in Nat
  BY DEF TypeInv, TypeOK, Finish
<1>5. TypeOK'
  BY <1>1, <1>3, <1>4 DEF TypeInv, TypeOK, Finish, Goto, Invalidate, stores, repair
<1>6. JobsOK'
  BY <1>1 DEF TypeInv, TypeOK, JobsOK, Finish, Goto, IndexSteps, RestoreSteps
<1> QED BY <1>5, <1>6 DEF TypeInv

\* What a step of a write in progress owes: the type of what it changes, a next
\* step of the same operation, and a job that differs in its flags only.
LEMMA WriteTypeInv ==
    ASSUME TypeInv, NEW t \in Thread, WriteFrame,
           pg' \in [Doc -> SUBSET Chunk], lance' \in Tables, faults' \in Nat,
           backup' \in [Thread -> SUBSET Chunk],
           NEW s \in Steps, pc' = [pc EXCEPT ![t] = s], s # "begin",
           s \in IndexSteps => job[t].op = "index",
           s \in RestoreSteps => job[t].op = "restore",
           NEW j \in Job, job' = [job EXCEPT ![t] = j],
           j.op = job[t].op, j.docs = job[t].docs, j.ver = job[t].ver
    PROVE  TypeInv'
<1>1. TypeOK'
  BY DEF TypeInv, TypeOK, WriteFrame, cache, repair
<1>2. JobsOK'
  BY DEF TypeInv, TypeOK, JobsOK
<1> QED BY <1>1, <1>2 DEF TypeInv

\* The two ways out of a step of the index write.
LEMMA FailedMoves ==
    ASSUME TypeInv, NEW t \in Thread, pc[t] \in IndexSteps, Failed(t) \/ Done(t, TRUE)
    PROVE  \E s \in {"rollback", "finish"}, j \in Job :
              /\ pc' = [pc EXCEPT ![t] = s] /\ job' = [job EXCEPT ![t] = j]
              /\ j.op = job[t].op /\ j.docs = job[t].docs /\ j.ver = job[t].ver
<1>1. job[t] \in Job /\ job = [job EXCEPT ![t] = job[t]]
  BY DEF TypeInv, TypeOK
<1>2. ASSUME NEW b \in BOOLEAN
      PROVE  /\ [job[t] EXCEPT !.ok = b] \in Job
             /\ [job[t] EXCEPT !.ok = b].op = job[t].op
             /\ [job[t] EXCEPT !.ok = b].docs = job[t].docs
             /\ [job[t] EXCEPT !.ok = b].ver = job[t].ver
  BY <1>1 DEF Job
<1>3. CASE \E b \in BOOLEAN : Done(t, b)
  <2>1. PICK b \in BOOLEAN : Done(t, b)
    BY <1>3
  <2>2. job' = [job EXCEPT ![t] = [job[t] EXCEPT !.ok = b]]
    BY <2>1 DEF Done
  <2> QED BY <1>2, <2>1, <2>2 DEF Done, Goto
<1>4. CASE Goto(t, "rollback") /\ UNCHANGED job
  BY <1>1, <1>4 DEF Goto
<1> QED BY <1>3, <1>4 DEF Failed

\* A refused statement leaves both stores as they were.
LEMMA PgFailsType ==
    ASSUME TypeInv, PgFails
    PROVE  pg' = pg /\ lance' = lance /\ faults' \in Nat
BY DEF TypeInv, TypeOK, PgFails, Fault, stores

\* The steps of write_indexed_document up to the upsert.
LEMMA IndexTypeInv ==
    ASSUME TypeInv, NEW t \in Thread,
           Backup(t) \/ DeleteOld(t) \/ InsertNew(t) \/ Upsert(t)
    PROVE  TypeInv'
<1>1. /\ pc[t] \in IndexSteps /\ job[t].op = "index" /\ job[t] \in Job
      /\ job = [job EXCEPT ![t] = job[t]]
  BY DEF TypeInv, TypeOK, JobsOK, Backup, DeleteOld, InsertNew, Upsert, IndexSteps
<1>2. TheDoc(t) \in Doc /\ job[t].ver \in SUBSET Chunk
  BY <1>1, TheDocType DEF TypeInv, Job
<1>3. \E s \in {"pgDelete", "pgInsert", "upsert", "rollback", "finish"}, j \in Job :
         /\ pc' = [pc EXCEPT ![t] = s] /\ job' = [job EXCEPT ![t] = j]
         /\ j.op = job[t].op /\ j.docs = job[t].docs /\ j.ver = job[t].ver
  <2>1. CASE Failed(t) \/ Done(t, TRUE)
    BY <1>1, <2>1, FailedMoves
  <2>2. CASE \E s \in {"pgDelete", "pgInsert"} : Goto(t, s) /\ UNCHANGED job
    BY <1>1, <2>2 DEF Goto
  <2>3. CASE Goto(t, "upsert") /\ job' = [job EXCEPT ![t].inserted = TRUE]
    <3> DEFINE j == [job[t] EXCEPT !.inserted = TRUE]
    <3>1. j \in Job /\ j.op = job[t].op /\ j.docs = job[t].docs /\ j.ver = job[t].ver
      BY <1>1 DEF Job
    <3>2. job' = [job EXCEPT ![t] = j] /\ pc' = [pc EXCEPT ![t] = "upsert"]
      BY <2>3 DEF Goto
    <3> QED BY <3>1, <3>2
  <2> QED BY <2>1, <2>2, <2>3 DEF Backup, DeleteOld, InsertNew, Upsert
<1>4. WriteFrame
  BY DEF Backup, DeleteOld, InsertNew, Upsert
<1>5. /\ pg' \in [Doc -> SUBSET Chunk] /\ lance' \in Tables /\ faults' \in Nat
      /\ backup' \in [Thread -> SUBSET Chunk]
  <2>1. CASE Backup(t)
    BY <1>2, <2>1, PgFailsType DEF TypeInv, TypeOK, Backup, stores
  <2>2. CASE DeleteOld(t)
    BY <1>2, <2>2, PgFailsType DEF TypeInv, TypeOK, DeleteOld
  <2>3. CASE InsertNew(t)
    BY <1>2, <2>3, PgFailsType DEF TypeInv, TypeOK, InsertNew, Fault, stores
  <2>4. CASE Upsert(t)
    BY <1>2, <2>4, UpsertType DEF TypeInv, TypeOK, Upsert
  <2> QED BY <2>1, <2>2, <2>3, <2>4
<1> QED BY <1>1, <1>3, <1>4, <1>5, WriteTypeInv DEF Steps, IndexSteps, RestoreSteps

\* The steps of its rollback.
LEMMA RollbackTypeInv ==
    ASSUME TypeInv, NEW t \in Thread,
           RollbackDelete(t) \/ Reinsert(t) \/ CleanLance(t)
    PROVE  TypeInv'
<1>1. /\ pc[t] \in IndexSteps /\ job[t].op = "index" /\ job[t] \in Job
      /\ job' = [job EXCEPT ![t] = job[t]]
  BY DEF TypeInv, TypeOK, JobsOK, RollbackDelete, Reinsert, CleanLance, IndexSteps
<1>2. TheDoc(t) \in Doc /\ backup[t] \in SUBSET Chunk
  BY <1>1, TheDocType DEF TypeInv, TypeOK
<1>3. \E s \in {"reinsert", "cleanLance", "finish"} : pc' = [pc EXCEPT ![t] = s]
  BY DEF RollbackDelete, Reinsert, CleanLance, AfterRollback, Goto
<1>4. WriteFrame /\ backup' = backup
  BY DEF RollbackDelete, Reinsert, CleanLance
<1>5. pg' \in [Doc -> SUBSET Chunk] /\ lance' \in Tables /\ faults' \in Nat
  <2>1. CASE RollbackDelete(t)
    BY <1>2, <2>1, PgFailsType DEF TypeInv, TypeOK, RollbackDelete, RollbackFails
  <2>2. CASE Reinsert(t)
    BY <1>2, <2>2, PgFailsType DEF TypeInv, TypeOK, Reinsert, RollbackFails, stores
  <2>3. CASE CleanLance(t)
    BY <1>1, <2>3, ClearType DEF TypeInv, TypeOK, CleanLance, Job
  <2> QED BY <2>1, <2>2, <2>3
<1> QED BY <1>1, <1>3, <1>4, <1>5, WriteTypeInv
        DEF TypeInv, TypeOK, Steps, IndexSteps, RestoreSteps

\* The steps of a delete.
LEMMA DeleteTypeInv ==
    ASSUME TypeInv, NEW t \in Thread, DropLance(t) \/ DropPg(t)
    PROVE  TypeInv'
<1>1. job[t] \in Job /\ job = [job EXCEPT ![t] = job[t]]
  BY DEF TypeInv, TypeOK
<1>2. \E s \in {"dropPg", "finish"}, j \in Job :
         /\ pc' = [pc EXCEPT ![t] = s] /\ job' = [job EXCEPT ![t] = j]
         /\ j.op = job[t].op /\ j.docs = job[t].docs /\ j.ver = job[t].ver
  <2>1. CASE \E b \in BOOLEAN : Done(t, b)
    <3>1. PICK b \in BOOLEAN : Done(t, b)
      BY <2>1
    <3> DEFINE j == [job[t] EXCEPT !.ok = b]
    <3>2. j \in Job /\ j.op = job[t].op /\ j.docs = job[t].docs /\ j.ver = job[t].ver
      BY <1>1 DEF Job
    <3>3. job' = [job EXCEPT ![t] = j] /\ pc' = [pc EXCEPT ![t] = "finish"]
      BY <3>1 DEF Done, Goto
    <3> QED BY <3>2, <3>3
  <2>2. CASE Goto(t, "dropPg") /\ UNCHANGED job
    BY <1>1, <2>2 DEF Goto
  <2> QED BY <2>1, <2>2 DEF DropLance, DropPg
<1>3. /\ WriteFrame /\ backup' = backup
      /\ pg' \in [Doc -> SUBSET Chunk] /\ lance' \in Tables /\ faults' \in Nat
  <2>1. CASE DropLance(t)
    BY <1>1, <2>1, ClearType DEF TypeInv, TypeOK, DropLance, Job
  <2>2. CASE DropPg(t)
    BY <2>2, PgFailsType DEF TypeInv, TypeOK, DropPg
  <2> QED BY <2>1, <2>2
<1> QED BY <1>2, <1>3, WriteTypeInv DEF TypeInv, TypeOK, Steps, IndexSteps, RestoreSteps

\* The steps of the restore of a backup.
LEMMA RestoreTypeInv ==
    ASSUME TypeInv, NEW t \in Thread, RestorePg(t) \/ RestoreLance(t) \/ RestoreUndo(t)
    PROVE  TypeInv'
<1>1. job[t] \in Job /\ job = [job EXCEPT ![t] = job[t]] /\ job[t].op = "restore"
  BY DEF TypeInv, TypeOK, JobsOK, RestorePg, RestoreLance, RestoreUndo, RestoreSteps
<1>2. \E s \in {"restoreLance", "restoreUndo", "finish"}, j \in Job :
         /\ pc' = [pc EXCEPT ![t] = s] /\ job' = [job EXCEPT ![t] = j]
         /\ j.op = job[t].op /\ j.docs = job[t].docs /\ j.ver = job[t].ver
  <2>1. CASE \E b \in BOOLEAN : Done(t, b)
    <3>1. PICK b \in BOOLEAN : Done(t, b)
      BY <2>1
    <3> DEFINE j == [job[t] EXCEPT !.ok = b]
    <3>2. j \in Job /\ j.op = job[t].op /\ j.docs = job[t].docs /\ j.ver = job[t].ver
      BY <1>1 DEF Job
    <3>3. job' = [job EXCEPT ![t] = j] /\ pc' = [pc EXCEPT ![t] = "finish"]
      BY <3>1 DEF Done, Goto
    <3> QED BY <3>2, <3>3
  <2>2. CASE \E s \in {"restoreLance", "restoreUndo"} : Goto(t, s) /\ UNCHANGED job
    BY <1>1, <2>2 DEF Goto
  <2>3. CASE /\ pc[t] = "restoreLance" /\ UNCHANGED pc
             /\ \E d \in job[t].todo : job' = [job EXCEPT ![t].todo = @ \ {d}]
    <3>1. PICK d : job' = [job EXCEPT ![t].todo = @ \ {d}]
      BY <2>3
    <3> DEFINE j == [job[t] EXCEPT !.todo = @ \ {d}]
    <3>2. j \in Job /\ j.op = job[t].op /\ j.docs = job[t].docs /\ j.ver = job[t].ver
      BY <1>1 DEF Job
    <3>3. job' = [job EXCEPT ![t] = j] /\ pc' = [pc EXCEPT ![t] = "restoreLance"]
      BY <3>1, <2>3 DEF TypeInv, TypeOK
    <3> QED BY <3>2, <3>3
  <2> QED BY <2>1, <2>2, <2>3 DEF RestorePg, RestoreLance, RestoreUndo
<1>3. /\ WriteFrame /\ backup' = backup
      /\ pg' \in [Doc -> SUBSET Chunk] /\ lance' \in Tables /\ faults' \in Nat
  <2>1. CASE RestorePg(t)
    <3>1. WriteFrame /\ backup' = backup
      BY <2>1 DEF RestorePg
    <3>2. CASE PgFails
      BY <3>1, <3>2, PgFailsType DEF TypeInv, TypeOK
    <3>3. CASE /\ pg' = [d \in Doc |->
                         IF d \notin job[t].docs THEN pg[d]
                         ELSE pg[d] \union {c \in job[t].ver : ~Collides(d, {c})}]
               /\ UNCHANGED <<lance, faults>>
      <4>1. job[t].ver \in SUBSET Chunk
        BY <1>1 DEF Job
      <4>2. pg' \in [Doc -> SUBSET Chunk]
        BY <3>3, <4>1 DEF TypeInv, TypeOK
      <4> QED BY <3>1, <3>3, <4>2 DEF TypeInv, TypeOK
    <3> QED BY <2>1, <3>2, <3>3 DEF RestorePg
  <2>2. CASE RestoreLance(t)
    BY <1>1, <2>2, UpsertType DEF TypeInv, TypeOK, RestoreLance, Job
  <2>3. CASE RestoreUndo(t)
    BY <2>3 DEF TypeInv, TypeOK, RestoreUndo, Fault
  <2> QED BY <2>1, <2>2, <2>3
<1> QED BY <1>1, <1>2, <1>3, WriteTypeInv DEF TypeInv, TypeOK, Steps, IndexSteps, RestoreSteps

\* Steps of the checks and of the repair: the stores' types, the cache and the
\* repair thread change; no job does.
LEMMA OtherTypeInv ==
    ASSUME TypeInv,
           pg' \in [Doc -> SUBSET Chunk], lance' \in Tables, UNCHANGED <<job, backup>>,
           \/ pc' = pc
           \/ \E s \in {"idle"} \union Checking : pc' = [pc EXCEPT ![Loop] = s],
           mutations' \in Nat, status' \in {"DIRTY", "READY", "NOT_READY", "FAILED"},
           missed' \in BOOLEAN, sync' \in Repair, ack' \in [Doc -> SUBSET Chunk],
           ops' \in Nat, faults' \in Nat, crashes' \in Nat, overtakes' \in Nat
    PROVE  TypeInv'
<1>1. TypeOK'
  BY DEF TypeInv, TypeOK, Thread
<1>2. JobsOK'
  BY DEF TypeInv, TypeOK, JobsOK, Thread, Checking, Reading, IndexSteps, RestoreSteps
<1> QED BY <1>1, <1>2 DEF TypeInv

\* A purge changes rows of PostgreSQL alone.
LEMMA PurgeTypeInv ==
    ASSUME TypeInv, NEW d \in Doc, Purge(d)
    PROVE  TypeInv'
<1>1. sync' \in Repair
  BY DEF TypeInv, TypeOK, Purge, Repair
<1> QED BY <1>1, OtherTypeInv DEF TypeInv, TypeOK, Purge, threads, cache

\* No repair, and the empty tables, are of the right type.
LEMMA SyncOffType == SyncOff \in Repair /\ EmptyLance \in Tables
BY DEF SyncOff, Repair, EmptyLance, Tables

\* One count of a check, whatever it counts.
LEMMA ReadsTypeInv ==
    ASSUME TypeInv, NEW here, NEW there \in Reading,
           NEW counts, NEW possible, Reads(here, there, counts, possible)
    PROVE  TypeInv'
<1>1. \E s \in {"idle"} \union Checking : pc' = [pc EXCEPT ![Loop] = s]
  BY DEF Reads, CheckRaises, Goto, Checking
<1>2. UNCHANGED <<stores, job, backup, mutations, status, repair, ops, crashes, overtakes, ack>>
  BY DEF Reads, CheckRaises, CheckFrame
<1>3. missed' = missed /\ (faults' = faults \/ Fault)
  BY DEF Reads, CheckRaises
<1>4. faults' \in Nat
  BY <1>3 DEF TypeInv, TypeOK, Fault
<1> QED BY <1>1, <1>2, <1>3, <1>4, OtherTypeInv DEF TypeInv, TypeOK, stores, repair

\* The steps of a readiness check and the launch of the repair.
LEMMA CheckTypeInv ==
    ASSUME TypeInv, CheckStep
    PROVE  TypeInv'
<1>1. CASE CheckLance
  <2>1. \E s \in {"idle"} \union Checking : pc' = [pc EXCEPT ![Loop] = s]
    BY <1>1 DEF CheckLance, CheckRaises, Goto, Checking, Reading
  <2>2. faults' \in Nat /\ missed' \in BOOLEAN /\ status' = status
    <3>1. faults' = faults \/ Fault
      BY <1>1 DEF CheckLance
    <3>2. missed' \in {missed, FALSE}
      BY <1>1 DEF CheckLance, CheckRaises
    <3>3. status' = status
      BY <1>1 DEF CheckLance, CheckRaises
    <3>4. faults' \in Nat
      BY <3>1 DEF TypeInv, TypeOK, Fault
    <3>5. missed' \in BOOLEAN
      BY <3>2, Zenon DEF TypeInv, TypeOK
    <3> QED BY <3>3, <3>4, <3>5
  <2> QED BY <1>1, <2>1, <2>2, OtherTypeInv
          DEF TypeInv, TypeOK, CheckLance, CheckFrame, stores, repair
<1>2. CASE CheckChunks \/ CheckPg \/ CheckPgDocs
  <2>1. CASE CheckChunks
    BY <2>1, ReadsTypeInv DEF CheckChunks, Reading
  <2>2. CASE CheckPg
    BY <2>2, ReadsTypeInv DEF CheckPg, Reading
  <2>3. CASE CheckPgDocs
    BY <2>3, ReadsTypeInv DEF CheckPgDocs, Reading
  <2> QED BY <1>2, <2>1, <2>2, <2>3
<1>3. CASE CheckSet
  BY <1>3, OtherTypeInv
  DEF TypeInv, TypeOK, CheckSet, CheckFrame, Goto, Checking, stores, repair
<1>4. CASE CheckCached
  BY <1>4, OtherTypeInv
  DEF TypeInv, TypeOK, CheckCached, CheckFrame, Goto, Checking, stores, cache, repair
<1>5. CASE Trigger
  <2>1. sync' \in Repair
    <3>1. [SyncOff EXCEPT !.pc = "drop", !.raced = (mutations > 0)] \in Repair
      <4> DEFINE b == mutations > 0
      <4>1. b \in BOOLEAN
        BY DEF TypeInv, TypeOK
      <4>2. ASSUME NEW r \in BOOLEAN
            PROVE  [SyncOff EXCEPT !.pc = "drop", !.raced = r] \in Repair
        BY SyncOffType DEF Repair
      <4> QED BY <4>1, <4>2
    <3> QED BY <1>5, <3>1 DEF TypeInv, TypeOK, Trigger, repair
  <2> QED BY <1>5, <2>1, OtherTypeInv
          DEF TypeInv, TypeOK, Trigger, CheckFrame, Goto, Checking, stores, cache
<1> QED BY <1>1, <1>2, <1>3, <1>4, <1>5 DEF CheckStep

\* Whatever a batch leaves of itself, the repair goes on.
LEMMA BatchDoneType ==
    ASSUME TypeInv, NEW D, NEW good \in BOOLEAN, BatchDone(D, good)
    PROVE  sync' \in Repair
<1> DEFINE rest == [d \in Doc |-> IF d \in D THEN {} ELSE sync.batch[d]]
           next == IF \E d \in Doc : rest[d] # {} THEN "add"
                   ELSE IF sync.todo # {} THEN "fetch" ELSE "parity"
<1>1. sync' = [sync EXCEPT !.batch = rest, !.bad = @ \/ ~good, !.pc = next]
  BY DEF BatchDone
<1>2. rest \in [Doc -> SUBSET Chunk] /\ sync \in Repair
  BY DEF TypeInv, TypeOK, Repair
<1>3. next \in {"add", "fetch", "parity"}
  OBVIOUS
<1>4. (sync.bad \/ ~good) \in BOOLEAN
  OBVIOUS
<1> HIDE DEF rest, next
<1> QED BY <1>1, <1>2, <1>3, <1>4 DEF Repair

RepairPc == {"off", "drop", "create", "list", "stat", "fetch", "add", "parity", "ending"}

\* A repair that raises only remembers the failure.
LEMMA SyncRaisesType ==
    ASSUME sync \in Repair, SyncRaises
    PROVE  sync' \in Repair /\ UNCHANGED <<status, missed, overtakes>>
<1>1. [sync EXCEPT !.pc = "ending"] \in Repair
  BY DEF Repair
<1> QED BY <1>1 DEF SyncRaises, SyncTo

\* The repair thread keeps its type.
LEMMA SyncType ==
    ASSUME TypeInv, SyncStep
    PROVE  sync' \in Repair
<1>1. sync \in Repair /\ pg \in [Doc -> SUBSET Chunk]
  BY DEF TypeInv, TypeOK
<1>2. CASE SyncRaises
  BY <1>1, <1>2, SyncRaisesType
<1>3. CASE \E p \in RepairPc : SyncTo(p)
  BY <1>1, <1>3 DEF SyncTo, Repair, RepairPc
<1>4. CASE SyncList /\ ~SyncRaises
  <2> DEFINE D == {d \in Doc : pg[d] # {}}
             p == IF PgCounts[1] = 0 THEN "parity" ELSE "stat"
  <2>1. sync' = [sync EXCEPT !.todo = D, !.pc = p]
    BY <1>4 DEF SyncList
  <2>2. D \in SUBSET Doc /\ p \in RepairPc
    BY DEF RepairPc
  <2> HIDE DEF D, p
  <2> QED BY <1>1, <2>1, <2>2 DEF Repair, RepairPc
<1>5. CASE SyncStat /\ ~SyncRaises
  <2> DEFINE b == (LanceCounts = <<0, 0>>)
  <2>1. sync' = [sync EXCEPT !.fast = b, !.pc = "fetch"] /\ b \in BOOLEAN
    BY <1>5 DEF SyncStat
  <2> HIDE DEF b
  <2> QED BY <1>1, <2>1 DEF Repair
<1>6. CASE SyncFetch /\ ~SyncRaises
  <2>1. PICK b \in SUBSET sync.todo :
           sync' = [sync EXCEPT !.pc = "add", !.todo = @ \ b,
                      !.batch = [d \in Doc |-> IF d \in b THEN pg[d] ELSE {}]]
    BY <1>6 DEF SyncFetch
  <2> DEFINE D == sync.todo \ b
             f == [d \in Doc |-> IF d \in b THEN pg[d] ELSE {}]
  <2>2. D \in SUBSET Doc /\ f \in [Doc -> SUBSET Chunk]
    BY <1>1 DEF Repair
  <2>3. sync' = [sync EXCEPT !.pc = "add", !.todo = D, !.batch = f]
    BY <2>1
  <2> HIDE DEF D, f
  <2> QED BY <1>1, <2>2, <2>3 DEF Repair
<1>7. CASE \E D \in SUBSET Doc, good \in BOOLEAN : BatchDone(D, good)
  BY <1>7, BatchDoneType
<1>8. CASE SyncParity /\ ~SyncRaises
  BY <1>1, <1>8 DEF SyncParity, Repair
<1>9. CASE SyncEnd
  BY <1>9, SyncOffType DEF SyncEnd
<1>10. Fetched \subseteq Doc /\ \A d \in Fetched : {d} \in SUBSET Doc
  BY DEF Fetched
<1>11. SyncDrop \/ SyncCreate => SyncRaises \/ \E p \in RepairPc : SyncTo(p)
  BY DEF SyncDrop, SyncCreate, RepairPc
<1>12. SyncAddBulk \/ SyncUpsert =>
         \E D \in SUBSET Doc, good \in BOOLEAN : BatchDone(D, good)
  BY <1>10 DEF SyncAddBulk, SyncUpsert
<1> QED BY <1>2, <1>3, <1>4, <1>5, <1>6, <1>7, <1>8, <1>9, <1>11, <1>12 DEF SyncStep

\* The LanceDB tables keep theirs, whatever the repair writes.
LEMMA SyncTablesType ==
    ASSUME TypeInv, SyncStep
    PROVE  lance' \in Tables /\ faults' \in Nat
<1>1. lance \in Tables /\ sync \in Repair /\ faults \in Nat /\ EmptyLance \in Tables
  BY SyncOffType DEF TypeInv, TypeOK
<1>2. ASSUME NEW L \in Tables, NEW b \in BOOLEAN PROVE [L EXCEPT !.up = b] \in Tables
  BY DEF Tables
<1>3. faults' = faults \/ Fault
  BY DEF SyncStep, SyncDrop, SyncCreate, SyncList, SyncStat, SyncFetch, SyncAddBulk,
         SyncUpsert, SyncParity, SyncEnd, UpsertOk, UpsertFails
<1>4. faults' \in Nat
  BY <1>1, <1>3 DEF Fault
<1>5. CASE SyncDrop
  BY <1>1, <1>2, <1>4, <1>5 DEF SyncDrop
<1>6. CASE SyncCreate
  BY <1>1, <1>2, <1>4, <1>6 DEF SyncCreate
<1>7. CASE SyncAddBulk
  <2>1. sync.batch \in [Doc -> SUBSET Chunk]
    BY <1>1 DEF Repair
  <2>2. AddRows(lance, sync.batch) \in Tables
    BY <1>1, <2>1, TablesClosed
  <2>3. AddParents(AddRows(lance, sync.batch), sync.batch) \in Tables
    BY <2>1, <2>2, TablesClosed
  <2>4. lance' \in {lance, AddRows(lance, sync.batch),
                   AddParents(AddRows(lance, sync.batch), sync.batch)}
    BY <1>7 DEF SyncAddBulk, BulkAdded, BulkPartial
  <2> QED BY <1>1, <1>4, <2>2, <2>3, <2>4
<1>8. CASE SyncUpsert
  <2>1. \A d \in Fetched : d \in Doc /\ sync.batch[d] \in SUBSET Chunk
    BY <1>1 DEF Fetched, Repair
  <2> QED BY <1>1, <1>8, <2>1, UpsertType DEF SyncUpsert
<1>9. SyncList \/ SyncStat \/ SyncFetch \/ SyncParity \/ SyncEnd => lance' = lance
  BY DEF SyncList, SyncStat, SyncFetch, SyncParity, SyncEnd
<1> QED BY <1>1, <1>4, <1>5, <1>6, <1>7, <1>8, <1>9 DEF SyncStep

\* The steps of the repair thread.
LEMMA SyncTypeInv ==
    ASSUME TypeInv, SyncStep
    PROVE  TypeInv'
<1>1. UNCHANGED <<pg, job, backup, pc, mutations, ops, crashes, ack>>
  BY DEF SyncStep, SyncDrop, SyncCreate, SyncList, SyncStat, SyncFetch, SyncAddBulk,
         SyncUpsert, SyncParity, SyncEnd, SyncFrame, threads
<1>2. /\ status' \in {"DIRTY", status} /\ missed' \in BOOLEAN /\ overtakes' \in Nat
  <2>1. CASE SyncEnd
    BY <2>1 DEF TypeInv, TypeOK, SyncEnd, Invalidate
  <2>2. CASE ~SyncEnd
    BY <2>2 DEF TypeInv, TypeOK, SyncStep, SyncDrop, SyncCreate, SyncList, SyncStat,
                SyncFetch, SyncAddBulk, SyncUpsert, SyncParity, SyncRaises, CacheFrame, cache
  <2> QED BY <2>1, <2>2
<1> QED BY <1>1, <1>2, SyncType, SyncTablesType, OtherTypeInv DEF TypeInv, TypeOK

\* A restart forgets every job.
LEMMA CrashTypeInv ==
    ASSUME TypeInv, Crash
    PROVE  TypeInv'
<1>1. NoJob \in Job /\ NoJob.op = "none"
  BY DEF NoJob, Job
<1>2. TypeOK'
  <2>1. lance' \in Tables
    BY DEF TypeInv, TypeOK, Crash, Tables
  <2>2. /\ pc' \in [Thread -> {"idle"} \union Steps \union Checking]
        /\ job' \in [Thread -> Job] /\ backup' \in [Thread -> SUBSET Chunk]
    BY <1>1 DEF Crash
  <2>3. crashes' \in Nat /\ mutations' \in Nat
    BY DEF TypeInv, TypeOK, Crash
  <2>4. missed' = FALSE /\ status' = "DIRTY" /\ sync' \in Repair
    BY SyncOffType DEF Crash
  <2>5. UNCHANGED <<pg, ops, faults, overtakes, ack>>
    BY DEF Crash
  <2> QED BY <2>1, <2>2, <2>3, <2>4, <2>5 DEF TypeInv, TypeOK
<1>3. JobsOK'
  BY <1>1 DEF JobsOK, Crash, IndexSteps, RestoreSteps
<1> QED BY <1>2, <1>3 DEF TypeInv

\* The inductive invariant: types, and the tie between a thread's step and the
\* operation it works on.
THEOREM TypeInvHolds == Spec => []TypeInv
<1>1. Init => TypeInv
  BY InitTypeInv
<1>2. TypeInv /\ [Next]_vars => TypeInv'
  <2> SUFFICES ASSUME TypeInv, [Next]_vars PROVE TypeInv'
    OBVIOUS
  <2>1. ASSUME NEW t \in Thread, NEW d \in Doc, NEW v \in Version, StartIndex(t, d, v)
        PROVE  TypeInv'
    BY <2>1, ChunksFacts, RequestTypeInv DEF StartIndex
  <2>2. ASSUME NEW D \in SUBSET Doc, StartDelete(D) PROVE TypeInv'
    BY <2>2, RequestTypeInv DEF StartDelete, Thread
  <2>3. ASSUME NEW D \in SUBSET Doc, NEW v \in Version, StartRestore(D, v) PROVE TypeInv'
    BY <2>3, ChunksFacts, RequestTypeInv DEF StartRestore, Thread
  <2>4. ASSUME NEW d \in Doc, Purge(d) PROVE TypeInv'
    BY <2>4, PurgeTypeInv
  <2>5. ASSUME NEW t \in Thread, WriteStep(t) PROVE TypeInv'
    BY <2>5, BeginTypeInv, FinishTypeInv, IndexTypeInv, RollbackTypeInv, DeleteTypeInv,
       RestoreTypeInv DEF WriteStep
  <2>6. CASE CheckStep
    BY <2>6, CheckTypeInv
  <2>7. CASE SyncStep
    BY <2>7, SyncTypeInv
  <2>8. CASE Crash
    BY <2>8, CrashTypeInv
  <2>9. CASE UNCHANGED vars
    BY <2>9 DEF TypeInv, TypeOK, JobsOK, vars, stores, threads, cache, repair
  <2> QED BY <2>1, <2>2, <2>3, <2>4, <2>5, <2>6, <2>7, <2>8, <2>9 DEF Next
<1> QED BY <1>1, <1>2, PTL DEF Spec

(***************************************************************************)
(* Type correctness, for all constants: in particular the rows LanceDB     *)
(* holds of a document are never counted below zero and the mutation       *)
(* counter never goes negative.                                            *)
(***************************************************************************)
THEOREM TypeCorrect == Spec => []TypeOK
BY TypeInvHolds, PTL DEF TypeInv

(***************************************************************************)
(* The mutation counter.                                                   *)
(***************************************************************************)
Writers == {t \in Thread : pc[t] \in Mutating}

\* A thread inside a write stays inside until it finishes.
LEMMA WriteMoves ==
    ASSUME TypeInv, NEW t \in Thread, WriteStep(t), ~Begin(t), ~Finish(t)
    PROVE  Writers' = Writers /\ mutations' = mutations
<1>1. pc[t] \in Mutating /\ pc \in [Thread -> {"idle"} \union Steps \union Checking]
  BY DEF TypeInv, TypeOK, WriteStep, Mutating, Steps, Backup, DeleteOld, InsertNew, Upsert,
         RollbackDelete, Reinsert, CleanLance, DropLance, DropPg, RestorePg, RestoreLance,
         RestoreUndo
<1>2. \E s \in Mutating : pc' = [pc EXCEPT ![t] = s]
  <2>1. pc = [pc EXCEPT ![t] = pc[t]]
    BY <1>1
  <2>2. Goto(t, "finish") => \E s \in Mutating : pc' = [pc EXCEPT ![t] = s]
    BY DEF Goto, Mutating, Steps
  <2>3. CASE Backup(t) \/ DeleteOld(t) \/ InsertNew(t) \/ Upsert(t)
    BY <2>2, <2>3 DEF Backup, DeleteOld, InsertNew, Upsert, Failed, Done, Goto, Mutating, Steps
  <2>4. CASE RollbackDelete(t) \/ Reinsert(t) \/ CleanLance(t)
    BY <2>4 DEF RollbackDelete, Reinsert, CleanLance, AfterRollback, Goto, Mutating, Steps
  <2>5. CASE DropLance(t) \/ DropPg(t)
    BY <2>2, <2>5 DEF DropLance, DropPg, Done, Goto, Mutating, Steps
  <2>6. CASE RestorePg(t) \/ RestoreUndo(t)
    BY <2>2, <2>6 DEF RestorePg, RestoreUndo, Done, Goto, Mutating, Steps
  <2>7. CASE RestoreLance(t)
    BY <1>1, <2>1, <2>2, <2>7 DEF RestoreLance, Done, Goto, Mutating, Steps
  <2> QED BY <2>3, <2>4, <2>5, <2>6, <2>7 DEF WriteStep
<1>3. Writers' = Writers
  BY <1>1, <1>2 DEF Writers
<1>4. mutations' = mutations
  BY DEF WriteStep, WriteFrame, Backup, DeleteOld, InsertNew, Upsert, RollbackDelete,
         Reinsert, CleanLance, DropLance, DropPg, RestorePg, RestoreLance, RestoreUndo
<1> QED BY <1>3, <1>4

\* Nothing else moves a thread into a write or out of one.
LEMMA OtherMoves ==
    ASSUME TypeInv,
           \/ \E t \in Thread : \E op, D, S, r : Request(t, op, D, S, r)
           \/ \E d \in Doc : Purge(d)
           \/ CheckStep \/ SyncStep \/ UNCHANGED vars
    PROVE  Writers' = Writers /\ mutations' = mutations
<1>1. pc \in [Thread -> {"idle"} \union Steps \union Checking] /\ Loop \in Thread
  BY DEF TypeInv, TypeOK, Thread
<1>2. CASE \E t \in Thread : \E op, D, S, r : Request(t, op, D, S, r)
  BY <1>1, <1>2 DEF Request, Goto, Writers, Mutating, Steps
<1>3. CASE (\E d \in Doc : Purge(d)) \/ SyncStep \/ UNCHANGED vars
  BY <1>3 DEF Purge, SyncStep, SyncDrop, SyncCreate, SyncList, SyncStat, SyncFetch, SyncAddBulk,
         SyncUpsert, SyncParity, SyncEnd, SyncFrame, threads, vars, Writers
<1>4. CASE CheckStep
  <2>1. mutations' = mutations
    BY <1>4 DEF CheckStep, CheckLance, CheckChunks, CheckPg, CheckPgDocs, Reads, CheckSet,
                CheckCached, Trigger, CheckFrame
  <2>2. /\ pc[Loop] \in {"idle"} \union Checking
        /\ \E s \in {"idle"} \union Checking : pc' = [pc EXCEPT ![Loop] = s]
    BY <1>4 DEF CheckStep, CheckLance, CheckChunks, CheckPg, CheckPgDocs, Reads, CheckSet,
                CheckCached, Trigger, CheckRaises, Goto, Checking, Reading
  <2>3. \A s \in {"idle"} \union Checking : s \notin Mutating
    BY DEF Checking, Reading, Mutating, Steps
  <2> QED BY <1>1, <2>1, <2>2, <2>3 DEF Writers
<1> QED BY <1>2, <1>3, <1>4

\* There are finitely many threads to count.
LEMMA WritersFinite == IsFiniteSet(Writers)
<1>1. IsFiniteSet(Thread)
  BY ThreadAssumption, FS_AddElement, FS_Union, FS_Singleton DEF Thread
<1> QED BY <1>1, FS_Subset DEF Writers

(***************************************************************************)
(* The mutation counter is the number of threads in a dual write, whatever *)
(* fails and however the threads interleave: it neither stays up after the *)
(* last of them nor reaches zero before.                                   *)
(***************************************************************************)
THEOREM MutationCountCorrect == Spec => []MutationCountExact
<1> DEFINE Inv == MutationCountExact
<1>1. Init => Inv
  <2> SUFFICES ASSUME Init PROVE mutations = Cardinality(Writers)
    BY DEF MutationCountExact, Writers
  <2>1. Writers = {}
    BY DEF Init, Writers, Mutating, Steps
  <2> QED BY <2>1, FS_EmptySet DEF Init
<1>2. TypeInv /\ Inv /\ [Next]_vars => Inv'
  <2> SUFFICES ASSUME TypeInv, mutations = Cardinality(Writers), [Next]_vars
               PROVE  mutations' = Cardinality(Writers')
    BY DEF MutationCountExact, Writers
  <2>1. ASSUME NEW t \in Thread, Begin(t) PROVE mutations' = Cardinality(Writers')
    <3>1. Writers' = Writers \union {t} /\ t \notin Writers
      BY <2>1 DEF TypeInv, TypeOK, Begin, Goto, FirstStep, Writers, Mutating, Steps
    <3> QED BY <2>1, <3>1, WritersFinite, FS_AddElement DEF Begin
  <2>2. ASSUME NEW t \in Thread, Finish(t) PROVE mutations' = Cardinality(Writers')
    <3>1. Writers' = Writers \ {t} /\ t \in Writers
      BY <2>2 DEF TypeInv, TypeOK, Finish, Goto, Writers, Mutating, Steps
    <3>2. Cardinality(Writers') = Cardinality(Writers) - 1 /\ Cardinality(Writers) \in Nat
      BY <3>1, WritersFinite, FS_RemoveElement, FS_CardinalityType
    <3>3. Cardinality(Writers) # 0
      BY <3>1, WritersFinite, FS_EmptySet
    <3> QED BY <2>2, <3>2, <3>3 DEF Finish
  <2>3. ASSUME NEW t \in Thread, WriteStep(t), ~Begin(t), ~Finish(t)
        PROVE  mutations' = Cardinality(Writers')
    BY <2>3, WriteMoves
  <2>4. CASE Crash
    <3>1. Writers' = {}
      BY <2>4 DEF Crash, Writers, Mutating, Steps
    <3> QED BY <2>4, <3>1, FS_EmptySet DEF Crash
  <2>5. CASE \/ \E t \in Thread : \E op, D, S, r : Request(t, op, D, S, r)
             \/ \E d \in Doc : Purge(d)
             \/ CheckStep \/ SyncStep \/ UNCHANGED vars
    BY <2>5, OtherMoves
  <2>6. Loop \in Thread
    BY DEF Thread
  <2> QED BY <2>1, <2>2, <2>3, <2>4, <2>5, <2>6
          DEF Next, WriteStep, StartIndex, StartDelete, StartRestore
<1> QED BY <1>1, <1>2, TypeInvHolds, PTL DEF Spec
(***************************************************************************)
(* One version per document.                                               *)
(***************************************************************************)

\* What makes it inductive: every version has a chunk of index 1, so rows that
\* do not collide with a whole version can only join a document with no rows.
LEMMA JoinsNothing ==
    ASSUME NEW d \in Doc, NEW S, Whole(pg[d]), Whole(S), ~Collides(d, S)
    PROVE  Whole(pg[d] \union S)
<1>1. CASE S = {}
  BY <1>1
<1>2. CASE pg[d] = {}
  BY <1>2
<1>3. CASE S # {} /\ pg[d] # {}
  <2>1. PICK v \in Version, w \in Version : S = Chunks(v) /\ pg[d] = Chunks(w)
    BY <1>3 DEF Whole
  <2>2. <<1, v>> \in S /\ <<1, w>> \in pg[d]
    BY <2>1, ChunksFacts
  <2> QED BY <2>2 DEF Collides
<1> QED BY <1>1, <1>2, <1>3

\* PostgreSQL: an insert and a reinsert join nothing, a delete empties.
LEMMA WritePgWhole ==
    ASSUME TypeInv, SingleVersion, "restore" \notin Ops, NEW t \in Thread, WriteStep(t)
    PROVE  \A d \in Doc : Whole(pg'[d])
<1>1. /\ Whole({}) /\ \A d \in Doc : Whole(pg[d]) /\ Whole(backup[t])
      /\ pg \in [Doc -> SUBSET Chunk]
  BY DEF SingleVersion, Whole, TypeInv, TypeOK
<1>2. CASE DeleteOld(t) \/ RollbackDelete(t)
  BY <1>1, <1>2 DEF DeleteOld, RollbackDelete, RollbackFails, PgFails, stores
<1>3. CASE InsertNew(t)
  <2>1. TheDoc(t) \in Doc /\ Whole(job[t].ver)
    BY <1>3, TheDocType DEF InsertNew, TypeInv, IndexSteps, Whole
  <2>2. CASE ~Collides(TheDoc(t), job[t].ver)
    BY <1>1, <1>3, <2>1, <2>2, JoinsNothing DEF InsertNew, PgFails, stores
  <2>3. CASE Collides(TheDoc(t), job[t].ver)
    BY <1>1, <1>3, <2>3 DEF InsertNew, PgFails, stores
  <2> QED BY <2>2, <2>3
<1>4. CASE Reinsert(t)
  <2>1. TheDoc(t) \in Doc
    BY <1>4, TheDocType DEF Reinsert, TypeInv, IndexSteps
  <2>2. CASE ~Collides(TheDoc(t), backup[t])
    BY <1>1, <1>4, <2>1, <2>2, JoinsNothing DEF Reinsert, RollbackFails, PgFails, stores
  <2>3. CASE Collides(TheDoc(t), backup[t])
    BY <1>1, <1>4, <2>3 DEF Reinsert, RollbackFails, PgFails, stores
  <2> QED BY <2>2, <2>3
<1>5. CASE DropPg(t)
  BY <1>1, <1>5 DEF DropPg, PgFails, stores
<1>6. CASE RestorePg(t) \/ RestoreLance(t) \/ RestoreUndo(t)
  BY <1>6 DEF TypeInv, JobsOK, RestorePg, RestoreLance, RestoreUndo, RestoreSteps
<1>7. CASE pg' = pg
  BY <1>1, <1>7
<1>8. Begin(t) \/ Backup(t) \/ Upsert(t) \/ CleanLance(t) \/ DropLance(t) \/ Finish(t)
        => pg' = pg
  BY DEF Begin, Backup, Upsert, CleanLance, DropLance, Finish, PgFails, stores
<1> QED BY <1>2, <1>3, <1>4, <1>5, <1>6, <1>7, <1>8 DEF WriteStep

\* The backups: taken from PostgreSQL in one query, forgotten at the end.
LEMMA WriteBackupWhole ==
    ASSUME TypeInv, SingleVersion, NEW t \in Thread, WriteStep(t)
    PROVE  \A u \in Thread : Whole(backup'[u])
<1>1. /\ Whole({}) /\ \A u \in Thread : Whole(backup[u]) /\ \A d \in Doc : Whole(pg[d])
      /\ backup \in [Thread -> SUBSET Chunk]
  BY DEF SingleVersion, Whole, TypeInv, TypeOK
<1>2. CASE Backup(t)
  <2>1. TheDoc(t) \in Doc
    BY <1>2, TheDocType DEF Backup, TypeInv, IndexSteps
  <2> QED BY <1>1, <1>2, <2>1 DEF Backup
<1>3. CASE Finish(t)
  BY <1>1, <1>3 DEF Finish
<1>4. CASE ~Backup(t) /\ ~Finish(t)
  <2>1. backup' = backup
    BY <1>4 DEF WriteStep, Begin, DeleteOld, InsertNew, Upsert, RollbackDelete, Reinsert,
                CleanLance, DropLance, DropPg, RestorePg, RestoreLance, RestoreUndo
  <2> QED BY <1>1, <2>1
<1> QED BY <1>2, <1>3, <1>4

\* The batch of the repair: read in one query, then emptied document by document.
LEMMA SyncBatchWhole ==
    ASSUME TypeInv, SingleVersion, SyncStep
    PROVE  \A d \in Doc : Whole(sync.batch'[d])
<1>1. /\ Whole({}) /\ \A d \in Doc : Whole(sync.batch[d]) /\ Whole(pg[d])
      /\ sync \in Repair
  BY DEF SingleVersion, Whole, TypeInv, TypeOK
<1>2. CASE sync'.batch = sync.batch
  BY <1>1, <1>2
<1>3. CASE \E b : sync'.batch = [d \in Doc |-> IF d \in b THEN pg[d] ELSE {}]
  BY <1>1, <1>3
<1>4. CASE \E D, good : BatchDone(D, good)
  <2>1. PICK D, good : BatchDone(D, good)
    BY <1>4
  <2>2. sync'.batch = [d \in Doc |-> IF d \in D THEN {} ELSE sync.batch[d]]
    BY <1>1, <2>1 DEF BatchDone, Repair
  <2> QED BY <1>1, <2>2
<1>5. CASE SyncEnd
  BY <1>1, <1>5 DEF SyncEnd, SyncOff
<1>6. SyncRaises \/ (\E s : SyncTo(s)) => sync'.batch = sync.batch
  BY <1>1 DEF SyncRaises, SyncTo, Repair
<1>7. SyncDrop \/ SyncCreate \/ SyncList \/ SyncStat \/ SyncParity => sync'.batch = sync.batch
  BY <1>1, <1>6 DEF SyncDrop, SyncCreate, SyncList, SyncStat, SyncParity, Repair
<1>8. SyncFetch => \/ sync'.batch = sync.batch
                   \/ \E b : sync'.batch = [d \in Doc |-> IF d \in b THEN pg[d] ELSE {}]
  BY <1>1, <1>6, ZenonT(40) DEF SyncFetch, Repair
<1>9. SyncAddBulk \/ SyncUpsert => \E D, good : BatchDone(D, good)
  BY DEF SyncAddBulk, SyncUpsert
<1> QED BY <1>2, <1>3, <1>4, <1>5, <1>7, <1>8, <1>9 DEF SyncStep

(***************************************************************************)
(* Without the restore of backups, whose ON CONFLICT DO NOTHING can mix    *)
(* two versions, a document never holds chunks of two versions nor a part  *)
(* of one: not in PostgreSQL, not in a rollback's backup, not in a batch   *)
(* of the repair; for any number of writers, faults and crashes.           *)
(***************************************************************************)
THEOREM SingleVersionHolds ==
    ASSUME "restore" \notin Ops
    PROVE  Spec => []SingleVersion
<1>1. Init => SingleVersion
  <2> SUFFICES ASSUME Init PROVE SingleVersion
    OBVIOUS
  <2>1. \A d \in Doc : pg[d] \in {{}} \union {Chunks(v) : v \in Version}
    BY DEF Init
  <2> QED BY <2>1 DEF Init, SyncOff, SingleVersion, Whole
<1>2. TypeInv /\ SingleVersion /\ [Next]_vars => SingleVersion'
  <2> SUFFICES ASSUME TypeInv, SingleVersion, [Next]_vars PROVE SingleVersion'
    OBVIOUS
  <2>1. /\ Whole({}) /\ SyncOff.batch = [d \in Doc |-> {}]
        /\ pg \in [Doc -> SUBSET Chunk] /\ sync \in Repair
    BY DEF Whole, TypeInv, TypeOK, SyncOff
  <2>2. ASSUME NEW t \in Thread, WriteStep(t) PROVE SingleVersion'
    <3>1. sync'.batch = sync.batch
      BY <2>1, <2>2 DEF WriteStep, Begin, Backup, DeleteOld, InsertNew, Upsert, RollbackDelete,
           Reinsert, CleanLance, DropLance, DropPg, RestorePg, RestoreLance, RestoreUndo,
           Finish, WriteFrame, repair, Repair
    <3> QED BY <2>2, <3>1, WritePgWhole, WriteBackupWhole DEF SingleVersion
  <2>3. CASE SyncStep
    <3>1. pg' = pg /\ backup' = backup
      BY <2>3 DEF SyncStep, SyncDrop, SyncCreate, SyncList, SyncStat, SyncFetch, SyncAddBulk,
           SyncUpsert, SyncParity, SyncEnd, SyncFrame, threads
    <3> QED BY <2>3, <3>1, SyncBatchWhole DEF SingleVersion
  <2>4. CASE \E d \in Doc : Purge(d)
    <3>1. PICK d \in Doc : Purge(d)
      BY <2>4
    <3>2. pg' = [pg EXCEPT ![d] = {}] /\ backup' = backup /\ sync'.batch = sync.batch
      BY <2>1, <3>1 DEF Purge, threads, Repair
    <3> QED BY <2>1, <3>2 DEF SingleVersion
  <2>5. CASE CheckStep
    <3>1. pg' = pg /\ backup' = backup
      BY <2>5 DEF CheckStep, CheckLance, CheckChunks, CheckPg, CheckPgDocs, Reads, CheckSet,
           CheckCached, Trigger, CheckFrame, stores
    <3>2. sync'.batch = sync.batch \/ sync'.batch = SyncOff.batch
      BY <2>5 DEF CheckStep, CheckLance, CheckChunks, CheckPg, CheckPgDocs, Reads, CheckSet,
           CheckCached, Trigger, repair, SyncOff
    <3> QED BY <2>1, <3>1, <3>2 DEF SingleVersion
  <2>6. CASE Crash
    BY <2>1, <2>6 DEF Crash, SingleVersion
  <2>7. CASE \/ \E t \in Thread : \E op, D, S, r : Request(t, op, D, S, r)
             \/ UNCHANGED vars
    <3>1. pg' = pg /\ backup' = backup /\ sync' = sync
      BY <2>7 DEF Request, vars, stores, threads, repair
    <3> QED BY <3>1 DEF SingleVersion
  <2>8. Loop \in Thread
    BY DEF Thread
  <2> QED BY <2>2, <2>3, <2>4, <2>5, <2>6, <2>7, <2>8
          DEF Next, StartIndex, StartDelete, StartRestore
<1> QED BY <1>1, <1>2, TypeInvHolds, PTL DEF Spec
(***************************************************************************)
(* The readiness cache.                                                    *)
(***************************************************************************)

\* Nothing writes, and no invalidation was missed.
Still == ~missed /\ sync.pc = "off" /\ Writers = {}

\* What the check has read so far is what the stores hold, and so is what a
\* cached READY says.
ReadSoFar ==
    LET P == PgCounts
        L == LanceCounts
    IN  /\ pc[Loop] = "checkChunks" => seen = <<L[1]>>
        /\ pc[Loop] = "checkPg" => seen = <<L[1], L[2]>>
        /\ pc[Loop] = "checkPgDocs" => seen = <<P[2], L[1], L[2]>>
        /\ pc[Loop] = "checkSet" => seen = <<P[1], P[2], L[1], L[2]>>
        /\ status = "READY" => Agree

ReadyInv == Still => ReadSoFar

\* The counts are those of the stores.
LEMMA SameCounts ==
    ASSUME UNCHANGED stores
    PROVE  PgCounts' = PgCounts /\ LanceCounts' = LanceCounts /\ (Agree' <=> Agree)
BY DEF stores, PgCounts, LanceCounts, Agree

\* A step that leaves what the check has read, or ends the check.
LEMMA StillStep ==
    ASSUME ReadyInv, Still' => Still, UNCHANGED stores,
           status' # "READY" \/ status' = status,
           \/ pc'[Loop] \notin Reading
           \/ pc'[Loop] = pc[Loop] /\ seen' = seen
    PROVE  ReadyInv'
<1> SUFFICES ASSUME Still' PROVE ReadSoFar'
  BY DEF ReadyInv
<1>1. ReadSoFar
  BY DEF ReadyInv
<1> QED BY <1>1, SameCounts DEF ReadSoFar, Reading

\* A count put before two others, and before three.
LEMMA TogetherIn ==
    ASSUME NEW S, NEW a \in S, NEW b \in S, NEW c \in S, NEW e \in S
    PROVE  /\ <<a>> \o <<b, c>> = <<a, b, c>>
           /\ <<a>> \o <<b, c, e>> = <<a, b, c, e>>
<1>1. /\ <<a>> \in Seq(S) /\ <<b, c>> \in Seq(S) /\ <<b, c, e>> \in Seq(S)
      /\ <<a, b, c>> \in Seq(S) /\ <<a, b, c, e>> \in Seq(S)
  OBVIOUS
<1>2. <<a>> \o <<b, c>> = <<a, b, c>>
  <2> DEFINE s == <<a>> \o <<b, c>>
  <2>1. /\ s \in Seq(S) /\ Len(s) = 3
        /\ \A i \in 1..3 : s[i] = IF i <= 1 THEN <<a>>[i] ELSE <<b, c>>[i - 1]
    BY <1>1, ConcatProperties
  <2>2. \A i \in 1..3 : s[i] = <<a, b, c>>[i]
    BY <2>1
  <2> HIDE DEF s
  <2> QED BY <1>1, <2>1, <2>2, SeqEqual DEF s
<1>3. <<a>> \o <<b, c, e>> = <<a, b, c, e>>
  <2> DEFINE s == <<a>> \o <<b, c, e>>
  <2>1. /\ s \in Seq(S) /\ Len(s) = 4
        /\ \A i \in 1..4 : s[i] = IF i <= 1 THEN <<a>>[i] ELSE <<b, c, e>>[i - 1]
    BY <1>1, ConcatProperties
  <2>2. \A i \in 1..4 : s[i] = <<a, b, c, e>>[i]
    BY <2>1
  <2> HIDE DEF s
  <2> QED BY <1>1, <2>1, <2>2, SeqEqual DEF s
<1> QED BY <1>2, <1>3

\* The same for any counts.
LEMMA Together ==
    ASSUME NEW a, NEW b, NEW c, NEW e
    PROVE  /\ <<a>> \o <<b, c>> = <<a, b, c>>
           /\ <<a>> \o <<b, c, e>> = <<a, b, c, e>>
<1> DEFINE S == {a, b, c, e}
<1>1. a \in S /\ b \in S /\ c \in S /\ e \in S
  OBVIOUS
<1> HIDE DEF S
<1> QED BY <1>1, TogetherIn

\* A check whose every count is that of the stores, and that finds no drift, is
\* right to say READY.
LEMMA CheckReady ==
    ASSUME TypeInv, ReadyInv, CheckStep
    PROVE  ReadyInv'
<1>1. pc \in [Thread -> {"idle"} \union Steps \union Checking] /\ Loop \in Thread
  BY DEF TypeInv, TypeOK, Thread
<1>2. Writers' = Writers
  BY OtherMoves
<1>3. UNCHANGED stores
  BY DEF CheckStep, CheckLance, CheckChunks, CheckPg, CheckPgDocs, Reads, CheckSet,
         CheckCached, Trigger, CheckFrame
<1>4. CASE CheckLance
  <2>1. sync' = sync /\ status' = status /\ status # "READY"
    BY <1>4 DEF CheckLance, CheckRaises, repair
  <2>2. \/ pc'[Loop] = "checkChunks" /\ seen' = <<LanceCounts[1]>>
        \/ pc'[Loop] \in {"idle", "trigger"}
    BY <1>1, <1>4 DEF CheckLance, CheckRaises, Goto
  <2> QED BY <1>3, <2>1, <2>2, SameCounts DEF ReadyInv, ReadSoFar
<1>5. ASSUME NEW here, NEW there, NEW counts, NEW possible,
             Reads(here, there, counts, possible),
             there \in {"checkPg", "checkPgDocs", "checkSet"},
             Still /\ ReadSoFar /\ pc'[Loop] = there /\ seen' = counts => ReadSoFar'
      PROVE  ReadyInv'
  <2>1. sync' = sync /\ status' = status /\ missed' = missed
    BY <1>5 DEF Reads, CheckRaises, repair
  <2>2. Still' => Still
    BY <1>2, <2>1 DEF Still
  <2>3. \/ pc'[Loop] = there /\ seen' = counts
        \/ pc'[Loop] \in {"idle", "trigger"}
    BY <1>1, <1>5 DEF Reads, CheckRaises, Goto
  <2>4. CASE pc'[Loop] = there /\ seen' = counts
    BY <1>5, <2>2, <2>4 DEF ReadyInv
  <2>5. CASE pc'[Loop] \in {"idle", "trigger"}
    BY <1>3, <2>1, <2>2, <2>5, StillStep DEF Reading
  <2> QED BY <2>3, <2>4, <2>5
<1> DEFINE P == PgCounts
           L == LanceCounts
<1>6. CASE CheckChunks
  <2>1. pc[Loop] = "checkChunks"
    BY <1>6 DEF CheckChunks, Reads
  <2>2. ReadSoFar => <<seen[1], L[2]>> = <<L[1], L[2]>>
    BY <2>1 DEF ReadSoFar
  <2>3. Still /\ ReadSoFar /\ pc'[Loop] = "checkPg" /\ seen' = <<seen[1], L[2]>> => ReadSoFar'
    <3> SUFFICES ASSUME Still, ReadSoFar, pc'[Loop] = "checkPg", seen' = <<seen[1], L[2]>>
                 PROVE  ReadSoFar'
      OBVIOUS
    <3>1. seen' = <<L'[1], L'[2]>> /\ (Agree' <=> Agree) /\ status' = status
      BY <1>3, <1>6, <2>2, SameCounts DEF CheckChunks, Reads, CheckRaises
    <3> QED BY <3>1 DEF ReadSoFar
  <2> QED BY <1>5, <1>6, <2>3 DEF CheckChunks
<1>7. CASE CheckPg
  <2>1. pc[Loop] = "checkPg"
    BY <1>7 DEF CheckPg, Reads
  <2>2. ReadSoFar => <<P[2]>> \o seen = <<P[2], L[1], L[2]>>
    <3>1. ReadSoFar => seen = <<L[1], L[2]>>
      BY <2>1 DEF ReadSoFar
    <3>2. <<P[2]>> \o <<L[1], L[2]>> = <<P[2], L[1], L[2]>>
      <4> PICK b, c, e : b = P[2] /\ c = L[1] /\ e = L[2]
        OBVIOUS
      <4>1. <<b>> \o <<c, e>> = <<b, c, e>>
        BY Together, Zenon
      <4> QED BY <4>1
    <3> QED BY <3>1, <3>2
  <2>3. Still /\ ReadSoFar /\ pc'[Loop] = "checkPgDocs" /\ seen' = <<P[2]>> \o seen => ReadSoFar'
    <3> SUFFICES ASSUME Still, ReadSoFar, pc'[Loop] = "checkPgDocs", seen' = <<P[2]>> \o seen
                 PROVE  ReadSoFar'
      OBVIOUS
    <3>1. seen' = <<P'[2], L'[1], L'[2]>> /\ (Agree' <=> Agree) /\ status' = status
      BY <1>3, <1>7, <2>2, SameCounts DEF CheckPg, Reads, CheckRaises
    <3> QED BY <3>1 DEF ReadSoFar
  <2> QED BY <1>5, <1>7, <2>3 DEF CheckPg
<1>8. CASE CheckPgDocs
  <2>1. pc[Loop] = "checkPgDocs"
    BY <1>8 DEF CheckPgDocs, Reads
  <2>2. ReadSoFar => <<P[1]>> \o seen = <<P[1], P[2], L[1], L[2]>>
    <3>1. ReadSoFar => seen = <<P[2], L[1], L[2]>>
      BY <2>1 DEF ReadSoFar
    <3>2. <<P[1]>> \o <<P[2], L[1], L[2]>> = <<P[1], P[2], L[1], L[2]>>
      <4> PICK a, b, c, e : a = P[1] /\ b = P[2] /\ c = L[1] /\ e = L[2]
        OBVIOUS
      <4>1. <<a>> \o <<b, c, e>> = <<a, b, c, e>>
        BY Together, Zenon
      <4> QED BY <4>1
    <3> QED BY <3>1, <3>2
  <2>3. Still /\ ReadSoFar /\ pc'[Loop] = "checkSet" /\ seen' = <<P[1]>> \o seen => ReadSoFar'
    <3> SUFFICES ASSUME Still, ReadSoFar, pc'[Loop] = "checkSet", seen' = <<P[1]>> \o seen
                 PROVE  ReadSoFar'
      OBVIOUS
    <3>1. seen' = <<P'[1], P'[2], L'[1], L'[2]>> /\ (Agree' <=> Agree) /\ status' = status
      BY <1>3, <1>8, <2>2, SameCounts DEF CheckPgDocs, Reads, CheckRaises
    <3> QED BY <3>1 DEF ReadSoFar
  <2> QED BY <1>5, <1>8, <2>3 DEF CheckPgDocs
<1>9. CASE CheckSet
  <2>1. /\ sync' = sync /\ missed' = missed
        /\ pc[Loop] = "checkSet" /\ pc'[Loop] \in {"idle", "trigger"}
    BY <1>1, <1>9 DEF CheckSet, Goto, repair
  <2>2. Still' => Still
    BY <1>2, <2>1 DEF Still
  <2>3. Still => (~Drift(seen) => Agree)
    <3> SUFFICES ASSUME Still, ~Drift(seen), PgCounts[1] > 0
                 PROVE  PgCounts = LanceCounts
      BY DEF Agree
    <3>1. seen = <<P[1], P[2], L[1], L[2]>>
      BY <2>1 DEF ReadyInv, ReadSoFar
    <3>2. P[1] = L[1] /\ P[2] = L[2]
      BY <3>1 DEF Drift
    <3> QED BY <3>2 DEF PgCounts, LanceCounts
  <2>4. status' = "READY" => ~Drift(seen)
    BY <1>9 DEF CheckSet
  <2>5. Still' /\ status' = "READY" => Agree'
    BY <1>3, <2>2, <2>3, <2>4, SameCounts
  <2> QED BY <2>1, <2>5 DEF ReadyInv, ReadSoFar
<1>10. CASE CheckCached \/ Trigger
  <2>1. UNCHANGED cache /\ pc'[Loop] \notin Reading
    BY <1>1, <1>10 DEF CheckCached, Trigger, Goto, Reading
  <2>2. Still' => Still
    BY <1>2, <1>10, <2>1 DEF CheckCached, Trigger, Still, repair, cache
  <2> QED BY <1>3, <2>1, <2>2, StillStep DEF cache
<1> QED BY <1>4, <1>6, <1>7, <1>8, <1>9, <1>10 DEF CheckStep

\* Every step keeps what ReadyInv says of the cache and of the check in flight.
LEMMA ReadyStep ==
    ASSUME TypeInv, ReadyInv, [Next]_vars
    PROVE  ReadyInv'
<1>1. pc \in [Thread -> {"idle"} \union Steps \union Checking] /\ Loop \in Thread
  BY DEF TypeInv, TypeOK, Thread
<1>2. ASSUME NEW t \in Thread, NEW op, NEW D, NEW S, NEW r, Request(t, op, D, S, r)
      PROVE  ReadyInv'
  <2>1. Writers' = Writers
    BY <1>2, OtherMoves
  <2>2. UNCHANGED <<cache, repair, stores>>
        /\ (pc'[Loop] = pc[Loop] \/ pc'[Loop] = "begin")
    BY <1>1, <1>2 DEF Request, Goto
  <2> QED BY <2>1, <2>2, StillStep DEF Still, cache, repair, Reading
<1>3. ASSUME NEW t \in Thread, WriteStep(t), ~Finish(t)
      PROVE  ReadyInv'
  <2>1. t \in Writers'
    <3>1. CASE Begin(t)
      BY <1>1, <3>1 DEF Begin, Goto, FirstStep, Writers, Mutating, Steps
    <3>2. CASE ~Begin(t)
      <4>1. t \in Writers
        BY <1>1, <1>3, <3>2 DEF WriteStep, Writers, Mutating, Steps, Backup, DeleteOld, InsertNew,
           Upsert, RollbackDelete, Reinsert, CleanLance, DropLance, DropPg, RestorePg,
           RestoreLance, RestoreUndo
      <4> QED BY <1>3, <3>2, <4>1, WriteMoves
    <3> QED BY <3>1, <3>2
  <2> QED BY <2>1 DEF ReadyInv, Still
<1>4. ASSUME NEW t \in Thread, Finish(t)
      PROVE  ReadyInv'
  <2>1. status' = "DIRTY" /\ (missed' <=> missed \/ pc[Loop] \in Reading)
    BY <1>4 DEF Finish, Invalidate
  <2>2. pc'[Loop] \in {pc[Loop], "idle"}
    BY <1>1, <1>4 DEF Finish, Goto
  <2> QED BY <2>1, <2>2 DEF ReadyInv, Still, ReadSoFar, Reading
<1>5. CASE \E d \in Doc : Purge(d)
  BY <1>5 DEF Purge, ReadyInv, Still
<1>6. CASE SyncStep /\ ~SyncEnd
  <2>1. sync'.pc # "off"
    <3>1. sync \in Repair
      BY DEF TypeInv, TypeOK
    <3>2. SyncDrop => sync'.pc # "off"
      BY <3>1 DEF Repair, SyncDrop, SyncTo
    <3>3. SyncCreate => sync'.pc # "off"
      BY <3>1 DEF Repair, SyncCreate, SyncTo, SyncRaises
    <3>4. SyncList => sync'.pc # "off"
      BY <3>1 DEF Repair, SyncList, SyncTo, SyncRaises
    <3>5. SyncStat => sync'.pc # "off"
      BY <3>1 DEF Repair, SyncStat, SyncTo, SyncRaises
    <3>6. SyncFetch => sync'.pc # "off"
      BY <3>1 DEF Repair, SyncFetch, SyncTo, SyncRaises
    <3>7. SyncAddBulk => sync'.pc # "off"
      BY <3>1 DEF Repair, SyncAddBulk, BatchDone
    <3>8. SyncUpsert => sync'.pc # "off"
      BY <3>1 DEF Repair, SyncUpsert, BatchDone
    <3>9. SyncParity => sync'.pc # "off"
      BY <3>1 DEF Repair, SyncParity, SyncTo, SyncRaises
    <3> QED BY <1>6, <3>2, <3>3, <3>4, <3>5, <3>6, <3>7, <3>8, <3>9 DEF SyncStep
  <2> QED BY <2>1 DEF ReadyInv, Still
<1>7. CASE SyncEnd
  <2>1. status' = "DIRTY" /\ (missed' <=> missed \/ pc[Loop] \in Reading) /\ pc' = pc
    BY <1>7 DEF SyncEnd, Invalidate, SyncFrame, threads
  <2> QED BY <2>1 DEF ReadyInv, Still, ReadSoFar, Reading
<1>8. CASE Crash
  <2>1. status' = "DIRTY" /\ pc'[Loop] = "idle"
    BY <1>1, <1>8 DEF Crash
  <2> QED BY <2>1 DEF ReadyInv, ReadSoFar
<1>9. CASE UNCHANGED vars
  <2>1. Writers' = Writers /\ UNCHANGED <<pc, cache, sync, stores>>
    BY <1>9 DEF vars, threads, repair, Writers
  <2> QED BY <2>1, StillStep DEF Still, cache
<1>10. CASE \/ \E t \in Thread, d \in Doc, v \in Version : StartIndex(t, d, v)
            \/ \E D \in SUBSET Doc : StartDelete(D)
            \/ \E D \in SUBSET Doc, v \in Version : StartRestore(D, v)
  BY <1>1, <1>2, <1>10 DEF StartIndex, StartDelete, StartRestore
<1>11. CASE \E t \in Thread : WriteStep(t)
  BY <1>3, <1>4, <1>11
<1>12. CASE SyncStep
  BY <1>6, <1>7, <1>12
<1>13. CASE CheckStep
  BY <1>13, CheckReady
<1> QED BY <1>5, <1>8, <1>9, <1>10, <1>11, <1>12, <1>13 DEF Next

\* READY is cached wrongly only if the check that cached it could not see an
\* invalidation, of a writer or of the repair, or after a purge, which invalidates
\* nothing (check_readiness, invalidate_lancedb_cache): every other interleaving of
\* writers, checks, repairs, faults and crashes leaves a READY that is true.
THEOREM ReadyUnlessInvalidationMissedHolds == Spec => []ReadyUnlessInvalidationMissed
<1>1. Init => ReadyInv
  <2>1. Loop \in Thread
    BY DEF Thread
  <2> QED BY <2>1 DEF Init, ReadyInv, ReadSoFar
<1>2. ReadyInv => ReadyUnlessInvalidationMissed
  <2> SUFFICES ASSUME ReadyInv, ~missed, Quiet, sync.pc = "off", status = "READY"
               PROVE  Agree
    BY DEF ReadyUnlessInvalidationMissed, ReadyMeansCountsAgree
  <2>1. Writers = {}
    BY DEF Quiet, Writers, Mutating, Steps
  <2> QED BY <2>1 DEF ReadyInv, Still, ReadSoFar
<1> QED BY <1>1, <1>2, ReadyStep, TypeInvHolds, PTL DEF Spec
(***************************************************************************)
(* The repair.                                                             *)
(***************************************************************************)

\* The tables L hold the chunks S of document d, each once, and no other.
Holds(L, d, S) ==
    /\ L.parents[d] = (IF S = {} THEN 0 ELSE 1)
    /\ \A c \in Chunk : L.rows[<<d, c>>] = (IF c \in S THEN 1 ELSE 0)

\* A document the repair has listed and not added yet.
Pending(d) == d \in sync.todo \/ sync.batch[d] # {}

Copied == \A d \in Doc : Holds(lance, d, IF Pending(d) THEN {} ELSE pg[d])

\* A repair no writer meets: it lists and fetches what PostgreSQL still holds,
\* and the tables, emptied first, hold exactly the documents it is through with.
RepairOK ==
    /\ Writers = {}
    /\ \A d \in Doc : sync.batch[d] # {} => /\ sync.pc \in {"add", "ending"}
                                            /\ sync.batch[d] = pg[d] /\ d \notin sync.todo
    /\ sync.ok => sync.pc = "ending"
    /\ sync.pc = "create" => lance = [EmptyLance EXCEPT !.up = FALSE]
    /\ sync.pc = "list" => lance = EmptyLance
    /\ sync.pc = "parity" \/ sync.ok => \A d \in Doc : ~Pending(d)
    /\ (sync.pc \in {"stat", "fetch", "add", "parity"} /\ ~sync.bad) \/ sync.ok
         => lance.up /\ Copied

RepairInv == (sync.pc # "off" /\ ~sync.raced) => RepairOK

\* Empty tables hold no document.
LEMMA EmptyHolds == EmptyLance.up /\ \A d \in Doc : Holds(EmptyLance, d, {})
BY DEF EmptyLance, Holds

\* An upsert replaces what the tables hold of one document, and only that.
LEMMA UpsertHolds ==
    ASSUME NEW L \in Tables, NEW d \in Doc, NEW S \in SUBSET Chunk
    PROVE  LET U == Upserted(L, d, S)
           IN  /\ U.up = L.up /\ Holds(U, d, S)
               /\ \A e \in Doc, T \in SUBSET Chunk : e # d /\ Holds(L, e, T) => Holds(U, e, T)
<1> DEFINE C == Cleared(L, {d})
           O == Only(d, S)
           P == AddParents(C, O)
           U == AddRows(P, O)
<1>1. C \in Tables /\ O \in [Doc -> SUBSET Chunk]
  BY TablesClosed, OnlyType
<1>2. P \in Tables
  BY <1>1, TablesClosed
<1>3. /\ C.up = L.up
      /\ \A e \in Doc : C.parents[e] = IF e = d THEN 0 ELSE L.parents[e]
      /\ \A e \in Doc, c \in Chunk :
           C.rows[<<e, c>>] = IF e = d THEN 0 ELSE L.rows[<<e, c>>]
  BY DEF Cleared, NoParents, Tables
<1>4. \A e \in Doc : O[e] = IF e = d THEN S ELSE {}
  BY DEF Only
<1> HIDE DEF C, O
<1>5. /\ P.up = C.up /\ P.rows = C.rows
      /\ \A e \in Doc : P.parents[e] = C.parents[e] + (IF O[e] = {} THEN 0 ELSE 1)
  BY <1>1 DEF AddParents, Tables
<1> HIDE DEF P
<1>6. /\ U.up = P.up /\ U.parents = P.parents
      /\ \A e \in Doc, c \in Chunk :
           U.rows[<<e, c>>] = P.rows[<<e, c>>] + (IF c \in O[e] THEN 1 ELSE 0)
  BY <1>2 DEF AddRows, Tables
<1>7. U = Upserted(L, d, S)
  BY DEF Upserted, C, O, P
<1> HIDE DEF U
<1>8. \A e \in Doc : /\ L.parents[e] \in Nat
                     /\ \A c \in Chunk : L.rows[<<e, c>>] \in Nat
  BY DEF Tables
<1>9. /\ U.up = L.up
      /\ \A e \in Doc : U.parents[e] = IF e = d THEN (IF S = {} THEN 0 ELSE 1)
                                       ELSE L.parents[e]
      /\ \A e \in Doc, c \in Chunk :
           U.rows[<<e, c>>] = IF e = d THEN (IF c \in S THEN 1 ELSE 0) ELSE L.rows[<<e, c>>]
  <2>1. U.up = L.up
    BY <1>3, <1>5, <1>6
  <2>2. ASSUME NEW e \in Doc
        PROVE  U.parents[e] = IF e = d THEN (IF S = {} THEN 0 ELSE 1) ELSE L.parents[e]
    BY <1>3, <1>4, <1>5, <1>6, <1>8
  <2>3. ASSUME NEW e \in Doc, NEW c \in Chunk
        PROVE  U.rows[<<e, c>>] = IF e = d THEN (IF c \in S THEN 1 ELSE 0)
                                  ELSE L.rows[<<e, c>>]
    BY <1>3, <1>4, <1>5, <1>6, <1>8
  <2> QED BY <2>1, <2>2, <2>3
<1> QED BY <1>7, <1>9 DEF Holds

\* The bulk path adds the documents of f to what the tables hold.
LEMMA BulkHolds ==
    ASSUME NEW L \in Tables, NEW f \in [Doc -> SUBSET Chunk]
    PROVE  LET U == BulkAdded(L, f)
           IN  /\ U.up = L.up
               /\ \A d \in Doc : Holds(L, d, {}) => Holds(U, d, f[d])
               /\ \A d \in Doc, T \in SUBSET Chunk : f[d] = {} /\ Holds(L, d, T) => Holds(U, d, T)
<1> DEFINE R == AddRows(L, f)
           U == AddParents(R, f)
<1>1. R \in Tables
  BY TablesClosed
<1>2. /\ R.up = L.up /\ R.parents = L.parents
      /\ \A e \in Doc, c \in Chunk :
           R.rows[<<e, c>>] = L.rows[<<e, c>>] + (IF c \in f[e] THEN 1 ELSE 0)
  BY DEF AddRows, Tables
<1> HIDE DEF R
<1>3. /\ U.up = R.up /\ U.rows = R.rows
      /\ \A e \in Doc : U.parents[e] = R.parents[e] + (IF f[e] = {} THEN 0 ELSE 1)
  BY <1>1 DEF AddParents, Tables
<1>4. U = BulkAdded(L, f)
  BY DEF BulkAdded, R
<1> HIDE DEF U
<1>5. \A d \in Doc : Holds(L, d, {}) => Holds(U, d, f[d])
  <2> SUFFICES ASSUME NEW d \in Doc, Holds(L, d, {}) PROVE Holds(U, d, f[d])
    OBVIOUS
  <2>1. L.parents[d] = 0 /\ \A c \in Chunk : L.rows[<<d, c>>] = 0
    BY DEF Holds
  <2> QED BY <1>2, <1>3, <2>1 DEF Holds
<1>6. \A d \in Doc, T \in SUBSET Chunk : f[d] = {} /\ Holds(L, d, T) => Holds(U, d, T)
  <2> SUFFICES ASSUME NEW d \in Doc, NEW T \in SUBSET Chunk, f[d] = {}, Holds(L, d, T)
               PROVE  Holds(U, d, T)
    OBVIOUS
  <2>1. L.parents[d] = (IF T = {} THEN 0 ELSE 1)
        /\ \A c \in Chunk : L.rows[<<d, c>>] = (IF c \in T THEN 1 ELSE 0)
    BY DEF Holds
  <2> QED BY <1>2, <1>3, <2>1 DEF Holds
<1> QED BY <1>2, <1>3, <1>4, <1>5, <1>6

\* Tables that hold the rows of every document and no other are its copy.
LEMMA HoldsAll ==
    ASSUME NEW L \in Tables, NEW f \in [Doc -> SUBSET Chunk], L.up,
           \A d \in Doc : Holds(L, d, f[d])
    PROVE  L = AddRows(AddParents(EmptyLance, f), f)
<1> DEFINE P == AddParents(EmptyLance, f)
           U == AddRows(P, f)
<1>1. EmptyLance \in Tables /\ P \in Tables /\ U \in Tables
  BY SyncOffType, TablesClosed
<1>2. P.up /\ P.rows = EmptyLance.rows
      /\ \A d \in Doc : P.parents[d] = (IF f[d] = {} THEN 0 ELSE 1)
  BY DEF AddParents, EmptyLance
<1>3. U.up = P.up /\ U.parents = P.parents
      /\ \A x \in Doc \X Chunk :
           U.rows[x] = P.rows[x] + (IF x[2] \in f[x[1]] THEN 1 ELSE 0)
  BY <1>1 DEF AddRows, Tables
<1> HIDE DEF P, U
<1>4. L.up = U.up
  BY <1>1, <1>2, <1>3 DEF Tables
<1>5. L.parents = U.parents
  <2>1. L.parents \in [Doc -> Nat] /\ U.parents \in [Doc -> Nat]
    BY <1>1 DEF Tables
  <2>2. \A d \in Doc : L.parents[d] = U.parents[d]
    BY <1>2, <1>3 DEF Holds
  <2> QED BY <2>1, <2>2
<1>6. L.rows = U.rows
  <2>1. L.rows \in [Doc \X Chunk -> Nat] /\ U.rows \in [Doc \X Chunk -> Nat]
    BY <1>1 DEF Tables
  <2>2. ASSUME NEW x \in Doc \X Chunk PROVE L.rows[x] = U.rows[x]
    <3>1. PICK d \in Doc, c \in Chunk : x = <<d, c>>
      OBVIOUS
    <3>2. U.rows[x] = (IF c \in f[d] THEN 1 ELSE 0)
      BY <1>2, <1>3, <3>1 DEF EmptyLance
    <3> QED BY <3>1, <3>2 DEF Holds
  <2> QED BY <2>1, <2>2
<1> QED BY <1>1, <1>4, <1>5, <1>6 DEF Tables, U, P

\* The steps of the repair thread keep what the others own, and what it raced.
LEMMA SyncKeeps ==
    ASSUME TypeInv, SyncStep
    PROVE  /\ UNCHANGED pg
           /\ Writers' = Writers
           /\ sync.pc # "off"
           /\ ~SyncEnd => sync'.raced = sync.raced
<1>1. sync \in Repair
  BY DEF TypeInv, TypeOK
<1>2. pg' = pg /\ Writers' = Writers
  BY OtherMoves DEF SyncStep, SyncDrop, SyncCreate, SyncList, SyncStat, SyncFetch,
     SyncAddBulk, SyncUpsert, SyncParity, SyncEnd, SyncFrame
<1>3. sync.pc # "off"
  BY DEF SyncStep, SyncDrop, SyncCreate, SyncList, SyncStat, SyncFetch,
     SyncAddBulk, SyncUpsert, SyncParity, SyncEnd
<1>4. SyncRaises \/ (\E s : SyncTo(s)) => sync'.raced = sync.raced
  BY <1>1 DEF SyncRaises, SyncTo, Repair
<1>5. (\E D, good : BatchDone(D, good)) => sync'.raced = sync.raced
  BY <1>1 DEF BatchDone, Repair
<1>6. SyncDrop \/ SyncCreate \/ SyncList \/ SyncStat \/ SyncFetch \/ SyncParity
        => sync'.raced = sync.raced
  BY <1>1, <1>4 DEF SyncDrop, SyncCreate, SyncList, SyncStat, SyncFetch, SyncParity, Repair
<1>7. SyncAddBulk \/ SyncUpsert => \E D, good : BatchDone(D, good)
  BY DEF SyncAddBulk, SyncUpsert
<1> QED BY <1>2, <1>3, <1>5, <1>6, <1>7 DEF SyncStep

\* A repair that raises ends without claiming anything.
LEMMA RaisesRepair ==
    ASSUME sync \in Repair, RepairOK, sync.pc # "ending", SyncRaises,
           UNCHANGED pg, Writers' = Writers
    PROVE  RepairOK'
<1>1. sync' = [sync EXCEPT !.pc = "ending"] /\ ~sync.ok
  BY DEF SyncRaises, SyncTo, RepairOK
<1>2. sync'.pc = "ending" /\ ~sync'.ok /\ sync'.batch = sync.batch /\ sync'.todo = sync.todo
  BY <1>1 DEF Repair
<1> QED BY <1>2 DEF RepairOK

\* The tables are dropped, created and found empty.
LEMMA EmptiesRepair ==
    ASSUME TypeInv, RepairOK, IsFiniteSet(Doc), SyncDrop \/ SyncCreate \/ SyncList
    PROVE  RepairOK'
<1>1. sync \in Repair /\ pg' = pg /\ Writers' = Writers
  BY SyncKeeps DEF TypeInv, TypeOK, SyncStep
<1>2. CASE SyncRaises
  BY <1>1, <1>2, RaisesRepair DEF SyncDrop, SyncCreate, SyncList
<1>3. CASE SyncDrop
  <2>1. sync'.pc = "create" /\ sync'.batch = sync.batch /\ sync'.ok = sync.ok
    BY <1>1, <1>3 DEF SyncDrop, SyncTo, Repair
  <2> QED BY <1>1, <1>3, <2>1 DEF SyncDrop, RepairOK
<1>4. CASE SyncCreate /\ ~SyncRaises
  <2>1. sync'.pc = "list" /\ sync'.batch = sync.batch /\ sync'.ok = sync.ok
    BY <1>1, <1>4 DEF SyncCreate, SyncTo, Repair
  <2>2. lance' = [lance EXCEPT !.up = TRUE] /\ lance = [EmptyLance EXCEPT !.up = FALSE]
    BY <1>4 DEF SyncCreate, RepairOK
  <2>3. lance' = EmptyLance
    BY <2>2 DEF EmptyLance
  <2> QED BY <1>1, <1>4, <2>1, <2>3 DEF SyncCreate, RepairOK
<1>5. CASE SyncList /\ ~SyncRaises
  <2> DEFINE D == {d \in Doc : pg[d] # {}}
             p == IF PgCounts[1] = 0 THEN "parity" ELSE "stat"
  <2>1. sync' = [sync EXCEPT !.todo = D, !.pc = p] /\ lance' = lance /\ sync.pc = "list"
    BY <1>5 DEF SyncList
  <2>2. p \in {"parity", "stat"} /\ (p = "parity" => D = {})
    <3>1. PgCounts[1] = Cardinality(D)
      BY DEF PgCounts
    <3> QED BY <3>1, FS_EmptySet, FS_Subset
  <2>3. D \in SUBSET Doc /\ \A d \in Doc : d \in D <=> pg[d] # {}
    OBVIOUS
  <2> HIDE DEF D, p
  <2>4. sync'.todo = D /\ sync'.pc = p /\ sync'.batch = sync.batch /\ sync'.ok = sync.ok
    BY <1>1, <2>1 DEF Repair
  <2>5. ~sync.ok /\ lance' = EmptyLance /\ \A d \in Doc : sync.batch[d] = {}
    BY <2>1 DEF RepairOK
  <2>6. \A d \in Doc : Holds(EmptyLance, d, IF Pending(d)' THEN {} ELSE pg[d])
    BY <2>3, <2>4, <2>5, EmptyHolds DEF Pending
  <2>7. lance'.up /\ Copied'
    BY <1>1, <2>5, <2>6, EmptyHolds DEF Copied, Holds
  <2> QED BY <1>1, <2>2, <2>4, <2>5, <2>7 DEF RepairOK, Pending
<1> QED BY <1>2, <1>3, <1>4, <1>5

\* The mode is chosen and a batch is fetched: nothing is added yet.
LEMMA FetchesRepair ==
    ASSUME TypeInv, RepairOK, SyncStat \/ SyncFetch
    PROVE  RepairOK'
<1>1. sync \in Repair /\ pg' = pg /\ Writers' = Writers /\ lance' = lance
      /\ pg \in [Doc -> SUBSET Chunk] /\ sync.pc \in {"stat", "fetch"}
  BY SyncKeeps DEF TypeInv, TypeOK, SyncStep, SyncStat, SyncFetch
<1>2. CASE SyncRaises
  BY <1>1, <1>2, RaisesRepair
<1>3. CASE SyncStat /\ ~SyncRaises
  <2> DEFINE b == (LanceCounts = <<0, 0>>)
  <2>1. sync' = [sync EXCEPT !.fast = b, !.pc = "fetch"]
    BY <1>3 DEF SyncStat
  <2> HIDE DEF b
  <2>2. /\ sync'.pc = "fetch" /\ sync'.batch = sync.batch /\ sync'.todo = sync.todo
        /\ sync'.ok = sync.ok /\ sync'.bad = sync.bad
    BY <1>1, <2>1 DEF Repair
  <2> QED BY <1>1, <2>2 DEF RepairOK, Copied, Holds, Pending
<1>4. CASE SyncFetch /\ ~SyncRaises
  <2>1. PICK b \in SUBSET sync.todo :
           sync' = [sync EXCEPT !.pc = "add", !.todo = @ \ b,
                      !.batch = [d \in Doc |-> IF d \in b THEN pg[d] ELSE {}]]
    BY <1>4 DEF SyncFetch
  <2> DEFINE f == [d \in Doc |-> IF d \in b THEN pg[d] ELSE {}]
  <2>2. \A d \in Doc : f[d] = IF d \in b THEN pg[d] ELSE {}
    OBVIOUS
  <2>3. sync' = [sync EXCEPT !.pc = "add", !.todo = sync.todo \ b, !.batch = f]
    BY <2>1
  <2> HIDE DEF f
  <2>4. /\ sync'.pc = "add" /\ sync'.batch = f /\ sync'.todo = sync.todo \ b
        /\ sync'.ok = sync.ok /\ sync'.bad = sync.bad
    BY <1>1, <2>3 DEF Repair
  <2>5. ~sync.ok /\ \A d \in Doc : sync.batch[d] = {}
    BY <1>1 DEF RepairOK
  <2>6. ~sync.bad => lance.up /\ Copied'
    <3> SUFFICES ASSUME ~sync.bad PROVE lance.up /\ Copied'
      OBVIOUS
    <3>1. lance.up /\ \A d \in Doc : Holds(lance, d, IF Pending(d) THEN {} ELSE pg[d])
      BY <1>1 DEF RepairOK, Copied
    <3>2. ASSUME NEW d \in Doc
          PROVE  (IF Pending(d)' THEN {} ELSE pg[d]) = (IF Pending(d) THEN {} ELSE pg[d])
      BY <2>2, <2>4, <2>5 DEF Pending
    <3>3. \A d \in Doc : Holds(lance, d, IF Pending(d)' THEN {} ELSE pg[d])
      BY <3>1, <3>2
    <3> QED BY <1>1, <3>1, <3>3 DEF Copied, Holds
  <2> QED BY <1>1, <2>2, <2>4, <2>5, <2>6 DEF RepairOK
<1> QED BY <1>2, <1>3, <1>4

\* What is left once the documents D of the batch are through.
LEMMA BatchLeft ==
    ASSUME sync \in Repair, NEW D, NEW good \in BOOLEAN, BatchDone(D, good)
    PROVE  /\ sync'.pc \in {"add", "fetch", "parity"} /\ sync'.ok = sync.ok
           /\ sync'.todo = sync.todo /\ (sync'.bad <=> sync.bad \/ ~good)
           /\ \A d \in Doc : sync'.batch[d] = IF d \in D THEN {} ELSE sync.batch[d]
           /\ sync'.pc # "add" => \A d \in Doc : sync'.batch[d] = {}
           /\ sync'.pc = "parity" => sync'.todo = {}
<1> DEFINE rest == [d \in Doc |-> IF d \in D THEN {} ELSE sync.batch[d]]
           next == IF \E d \in Doc : rest[d] # {} THEN "add"
                   ELSE IF sync.todo # {} THEN "fetch" ELSE "parity"
           worse == sync.bad \/ ~good
<1>1. sync' = [sync EXCEPT !.batch = rest, !.bad = worse, !.pc = next]
  BY DEF BatchDone
<1>2. /\ next \in {"add", "fetch", "parity"}
      /\ next # "add" => \A d \in Doc : rest[d] = {}
      /\ next = "parity" => sync.todo = {}
  OBVIOUS
<1>3. \A d \in Doc : rest[d] = IF d \in D THEN {} ELSE sync.batch[d]
  OBVIOUS
<1> HIDE DEF rest, next, worse
<1>4. /\ sync'.pc = next /\ sync'.batch = rest /\ sync'.bad = worse
      /\ sync'.todo = sync.todo /\ sync'.ok = sync.ok
  BY <1>1 DEF Repair
<1> QED BY <1>2, <1>3, <1>4 DEF worse

\* A step of the batch keeps the repair right if the tables now hold the
\* documents it is through with, and what they held of the others.
LEMMA BatchRepair ==
    ASSUME TypeInv, RepairOK, sync.pc = "add", UNCHANGED pg, Writers' = Writers,
           NEW D, NEW good \in BOOLEAN, BatchDone(D, good),
           good /\ lance.up /\ Copied
             => lance'.up /\ \A d \in Doc :
                  Holds(lance', d, IF d \in sync.todo \/ (sync.batch[d] # {} /\ d \notin D)
                                   THEN {} ELSE pg[d])
    PROVE  RepairOK'
<1>1. sync \in Repair
  BY DEF TypeInv, TypeOK
<1>2. ~sync.ok
  BY DEF RepairOK
<1>3. (~sync'.bad) => lance'.up /\ Copied'
  <2> SUFFICES ASSUME ~sync'.bad PROVE lance'.up /\ Copied'
    OBVIOUS
  <2>1. good /\ lance.up /\ Copied
    BY <1>1, BatchLeft DEF RepairOK
  <2>2. \A d \in Doc : Pending(d)' <=> d \in sync.todo \/ (sync.batch[d] # {} /\ d \notin D)
    BY <1>1, BatchLeft DEF Pending
  <2>3. \A d \in Doc : Holds(lance', d, IF Pending(d)' THEN {} ELSE pg[d])
    BY <2>1, <2>2
  <2> QED BY <2>1, <2>3 DEF Copied, Holds
<1>4. \A d \in Doc : sync'.batch[d] # {} => /\ sync'.pc = "add" /\ sync'.batch[d] = pg[d]
                                            /\ d \notin sync'.todo
  BY <1>1, BatchLeft DEF RepairOK
<1>5. sync'.pc = "parity" => \A d \in Doc : ~Pending(d)'
  BY <1>1, BatchLeft DEF Pending
<1> QED BY <1>1, <1>2, <1>3, <1>4, <1>5, BatchLeft DEF RepairOK

\* The bulk path adds the whole batch to tables that hold none of it.
LEMMA BulkRepair ==
    ASSUME TypeInv, RepairOK, SyncAddBulk
    PROVE  RepairOK'
<1>1. /\ sync \in Repair /\ lance \in Tables /\ sync.batch \in [Doc -> SUBSET Chunk]
      /\ pg \in [Doc -> SUBSET Chunk] /\ pg' = pg /\ Writers' = Writers /\ sync.pc = "add"
  BY SyncKeeps DEF TypeInv, TypeOK, SyncStep, SyncAddBulk, Repair
<1>2. CASE BatchDone(Fetched, FALSE)
  BY <1>1, <1>2, BatchRepair
<1>3. CASE ~BatchDone(Fetched, FALSE)
  <2>1. lance.up /\ lance' = BulkAdded(lance, sync.batch) /\ BatchDone(Fetched, TRUE)
    BY <1>3 DEF SyncAddBulk
  <2>2. ASSUME Copied, NEW d \in Doc
        PROVE  Holds(lance', d, IF d \in sync.todo \/ (sync.batch[d] # {} /\ d \notin Fetched)
                                THEN {} ELSE pg[d])
    <3>1. d \in Fetched <=> sync.batch[d] # {}
      BY DEF Fetched
    <3>2. Holds(lance, d, IF Pending(d) THEN {} ELSE pg[d])
      BY <2>2 DEF Copied
    <3>3. CASE sync.batch[d] # {}
      <4>1. d \notin sync.todo /\ sync.batch[d] = pg[d] /\ Pending(d)
        BY <3>3 DEF RepairOK, Pending
      <4> QED BY <1>1, <2>1, <3>1, <3>2, <4>1, BulkHolds
    <3>4. CASE sync.batch[d] = {}
      <4>1. Pending(d) <=> d \in sync.todo
        BY <3>4 DEF Pending
      <4> QED BY <1>1, <2>1, <3>2, <3>4, <4>1, BulkHolds
    <3> QED BY <3>3, <3>4
  <2>3. lance'.up
    BY <1>1, <2>1, BulkHolds
  <2> QED BY <1>1, <2>1, <2>2, <2>3, BatchRepair
<1> QED BY <1>2, <1>3

\* The slow path replaces the documents of the batch one by one.
LEMMA SlowRepair ==
    ASSUME TypeInv, RepairOK, SyncUpsert
    PROVE  RepairOK'
<1>1. /\ sync \in Repair /\ lance \in Tables /\ sync.batch \in [Doc -> SUBSET Chunk]
      /\ pg \in [Doc -> SUBSET Chunk] /\ pg' = pg /\ Writers' = Writers /\ sync.pc = "add"
  BY SyncKeeps DEF TypeInv, TypeOK, SyncStep, SyncUpsert, Repair
<1>2. CASE \E d \in Fetched : BatchDone({d}, FALSE)
  BY <1>1, <1>2, BatchRepair
<1>3. CASE \E d \in Fetched : UpsertOk(d, sync.batch[d]) /\ BatchDone({d}, TRUE)
  <2>1. PICK e \in Fetched : UpsertOk(e, sync.batch[e]) /\ BatchDone({e}, TRUE)
    BY <1>3
  <2>2. e \in Doc /\ sync.batch[e] # {} /\ sync.batch[e] \in SUBSET Chunk
    BY <1>1 DEF Fetched
  <2>3. lance.up /\ lance' = Upserted(lance, e, sync.batch[e])
    BY <2>1 DEF UpsertOk
  <2>4. e \notin sync.todo /\ sync.batch[e] = pg[e]
    BY <2>2 DEF RepairOK
  <2>5. /\ lance'.up = lance.up /\ Holds(lance', e, sync.batch[e])
        /\ \A d \in Doc, T \in SUBSET Chunk : d # e /\ Holds(lance, d, T) => Holds(lance', d, T)
    BY <1>1, <2>2, <2>3, UpsertHolds
  <2>6. ASSUME Copied, NEW d \in Doc
        PROVE  Holds(lance', d, IF d \in sync.todo \/ (sync.batch[d] # {} /\ d \notin {e})
                                THEN {} ELSE pg[d])
    <3>1. CASE d = e
      BY <2>4, <2>5, <3>1
    <3>2. CASE d # e
      <4>1. Holds(lance, d, IF Pending(d) THEN {} ELSE pg[d])
        BY <2>6 DEF Copied
      <4>2. Pending(d) <=> d \in sync.todo \/ (sync.batch[d] # {} /\ d \notin {e})
        BY <3>2 DEF Pending
      <4> QED BY <1>1, <2>5, <3>2, <4>1, <4>2
    <3> QED BY <3>1, <3>2
  <2> QED BY <1>1, <2>1, <2>3, <2>5, <2>6, BatchRepair
<1>4. CASE Fetched = {} /\ BatchDone({}, TRUE) /\ lance' = lance
  <2>1. ASSUME Copied, NEW d \in Doc
        PROVE  Holds(lance', d, IF d \in sync.todo \/ (sync.batch[d] # {} /\ d \notin {})
                                THEN {} ELSE pg[d])
    BY <1>4, <2>1 DEF Copied, Pending
  <2> QED BY <1>1, <1>4, <2>1, BatchRepair
<1> QED BY <1>2, <1>3, <1>4 DEF SyncUpsert

\* The repair ends, having succeeded only if no document failed.
LEMMA ParityRepair ==
    ASSUME TypeInv, RepairOK, SyncParity
    PROVE  RepairOK'
<1>1. sync \in Repair /\ pg' = pg /\ Writers' = Writers /\ lance' = lance
      /\ sync.pc = "parity"
  BY SyncKeeps DEF TypeInv, TypeOK, SyncStep, SyncParity
<1>2. CASE SyncRaises
  BY <1>1, <1>2, RaisesRepair
<1>3. CASE ~SyncRaises
  <2>1. ~sync.bad /\ sync' = [sync EXCEPT !.pc = "ending", !.ok = TRUE]
    BY <1>3 DEF SyncParity
  <2>2. sync'.pc = "ending" /\ sync'.batch = sync.batch /\ sync'.todo = sync.todo
    BY <1>1, <2>1 DEF Repair
  <2> QED BY <1>1, <2>1, <2>2 DEF RepairOK, Copied, Holds, Pending
<1> QED BY <1>2, <1>3

\* Every step: a writer that begins, or a purge, races the repair under way.
LEMMA RepairStep ==
    ASSUME TypeInv, RepairInv, MutationCountExact, IsFiniteSet(Doc), [Next]_vars
    PROVE  RepairInv'
<1>1. sync \in Repair /\ Loop \in Thread
  BY DEF TypeInv, TypeOK, Thread
<1>2. ASSUME UNCHANGED <<stores, repair>>, Writers' = Writers PROVE RepairInv'
  BY <1>2 DEF stores, repair, RepairInv, RepairOK, Copied, Holds, Pending
<1>4. ASSUME NEW t \in Thread, Begin(t) PROVE RepairInv'
  <2>1. sync' = [sync EXCEPT !.raced = (sync.pc # "off")]
    BY <1>4 DEF Begin
  <2> QED BY <1>1, <2>1 DEF Repair, RepairInv
<1>5. ASSUME NEW t \in Thread, WriteStep(t), ~Begin(t) PROVE RepairInv'
  <2>1. t \in Writers
    BY <1>5 DEF WriteStep, Writers, Mutating, Steps, Backup, DeleteOld, InsertNew, Upsert,
       RollbackDelete, Reinsert, CleanLance, DropLance, DropPg, RestorePg, RestoreLance,
       RestoreUndo, Finish
  <2>2. sync' = sync
    BY <1>5 DEF WriteStep, WriteFrame, repair, Backup, DeleteOld, InsertNew, Upsert,
       RollbackDelete, Reinsert, CleanLance, DropLance, DropPg, RestorePg, RestoreLance,
       RestoreUndo, Finish
  <2> QED BY <2>1, <2>2 DEF RepairInv, RepairOK
<1>6. ASSUME NEW d \in Doc, Purge(d) PROVE RepairInv'
  <2>1. sync' = [sync EXCEPT !.raced = (sync.pc # "off")]
    BY <1>6 DEF Purge
  <2> QED BY <1>1, <2>1 DEF Repair, RepairInv
<1>7. CASE CheckStep
  <2>1. UNCHANGED stores /\ Writers' = Writers
    BY <1>7, OtherMoves DEF CheckStep, CheckLance, CheckChunks, CheckPg, CheckPgDocs, Reads,
       CheckSet, CheckCached, Trigger, CheckFrame
  <2>2. CASE UNCHANGED repair
    BY <1>2, <2>1, <2>2
  <2>3. CASE ~(UNCHANGED repair)
    <3>1. sync' = [SyncOff EXCEPT !.pc = "drop", !.raced = (mutations > 0)]
      BY <1>7, <2>3 DEF CheckStep, CheckLance, CheckChunks, CheckPg, CheckPgDocs, Reads,
         CheckSet, CheckCached, Trigger
    <3>2. /\ sync'.pc = "drop" /\ sync'.raced = (mutations > 0) /\ ~sync'.ok
          /\ \A d \in Doc : sync'.batch[d] = {}
      BY <3>1 DEF SyncOff
    <3>3. mutations = 0 => Writers = {}
      BY WritersFinite, FS_EmptySet DEF MutationCountExact, Writers
    <3>4. ~(mutations > 0) => mutations = 0
      BY DEF TypeInv, TypeOK
    <3> QED BY <2>1, <3>2, <3>3, <3>4 DEF RepairInv, RepairOK
  <2> QED BY <2>2, <2>3
<1>8. CASE SyncStep /\ ~SyncEnd
  <2> SUFFICES ASSUME ~sync.raced PROVE RepairOK'
    BY <1>8, SyncKeeps DEF RepairInv
  <2>1. RepairOK
    BY <1>8, SyncKeeps DEF RepairInv
  <2> QED BY <1>8, <2>1, EmptiesRepair, FetchesRepair, BulkRepair, SlowRepair, ParityRepair
          DEF SyncStep
<1>9. CASE SyncEnd \/ Crash
  BY <1>9 DEF SyncEnd, Crash, SyncOff, RepairInv
<1>10. CASE \/ \E t \in Thread : \E op, D, S, r : Request(t, op, D, S, r)
            \/ UNCHANGED vars
  <2>1. Writers' = Writers
    BY <1>10, OtherMoves
  <2>2. UNCHANGED <<stores, repair>>
    BY <1>10 DEF Request, vars
  <2> QED BY <1>2, <2>1, <2>2
<1> QED BY <1>1, <1>4, <1>5, <1>6, <1>7, <1>8, <1>9, <1>10
        DEF Next, StartIndex, StartDelete, StartRestore

\* A background sync that succeeds while no operation writes (sync_lancedb.py,
\* sync_postgres_to_lancedb) leaves in LanceDB every row of PostgreSQL once and
\* no other: for any finite set of documents, batches of any size, on the bulk
\* path and on the slow one, whatever happened to the tables before.
THEOREM CleanRepairIsExactHolds ==
    ASSUME IsFiniteSet(Doc)
    PROVE  Spec => []CleanRepairIsExact
<1>1. Init => RepairInv
  BY DEF Init, SyncOff, RepairInv
<1>2. TypeInv /\ RepairInv => CleanRepairIsExact
  <2> SUFFICES ASSUME TypeInv, RepairInv, sync.pc = "ending", sync.ok, ~sync.raced
               PROVE  lance = AddRows(AddParents(EmptyLance, pg), pg)
    BY DEF CleanRepairIsExact
  <2>1. lance.up /\ \A d \in Doc : Holds(lance, d, pg[d])
    BY DEF RepairInv, RepairOK, Copied
  <2> QED BY <2>1, HoldsAll DEF TypeInv, TypeOK
<1> QED BY <1>1, <1>2, RepairStep, TypeInvHolds, MutationCountCorrect, PTL DEF Spec

-----------------------------------------------------------------------------
(***************************************************************************)
(* One writer at a time: PostgreSQL holds what the last acknowledged       *)
(* operation left, whatever the stores refuse, and the two stores          *)
(* implement a DocumentStore.  Both follow from one inductive invariant,   *)
(* which says at each step of a request how far PostgreSQL is from what    *)
(* the request found.                                                      *)
(***************************************************************************)


\* PostgreSQL if the documents of the request held S and the others were as
\* they were found.
With(S) == [e \in Doc |-> IF e \in job[Loop].docs THEN S ELSE ack[e]]

\* The same after a restore of the chunks S, which joins what it does not hit.
Joined(S) == [e \in Doc |-> IF e \in job[Loop].docs
                            THEN ack[e] \union {c \in S : \A q \in ack[e] : q[1] # c[1]}
                            ELSE ack[e]]

\* What the request found of its document.
Old == ack[TheDoc(Loop)]

Resting == {"idle"} \union Checking

\* Before the first change nothing has happened, and a job is as it was asked.
RestInv ==
    /\ pc[Loop] \in Resting => job[Loop] = NoJob /\ backup[Loop] = {}
    /\ pc[Loop] \in Resting \union {"begin", "backup", "pgDelete", "dropLance", "dropPg",
                                    "restorePg", "cleanLance"}
         => pg = ack
    /\ IF pc[Loop] = "finish" THEN job[Loop].op # "none" ELSE ~job[Loop].ok
    /\ job[Loop].op = "delete" => job[Loop].ver = {}
    /\ pc[Loop] \in {"begin", "dropLance", "dropPg", "restorePg", "restoreLance",
                     "restoreUndo"}
         => backup[Loop] = {} /\ ~job[Loop].inserted
    /\ pc[Loop] \in {"dropLance", "dropPg"} => job[Loop].op = "delete"

\* A replacement: the backup is what was found, and tells how to get back there.
IndexInv ==
    /\ pc[Loop] = "begin" /\ job[Loop].op = "index" => job[Loop].replace = (Old # {})
    /\ pc[Loop] = "backup" =>
         backup[Loop] = {} /\ ~job[Loop].inserted /\ job[Loop].replace /\ Old # {}
    /\ pc[Loop] = "pgDelete" =>
         backup[Loop] = Old /\ ~job[Loop].inserted /\ job[Loop].replace /\ Old # {}
    /\ pc[Loop] = "pgInsert" =>
         /\ pg = With({}) /\ backup[Loop] = Old
         /\ ~job[Loop].inserted /\ job[Loop].replace = (Old # {})
    /\ pc[Loop] = "upsert" =>
         pg = With(job[Loop].ver) /\ backup[Loop] = Old /\ job[Loop].inserted
    /\ pc[Loop] = "rollback" =>
         backup[Loop] = Old /\ \A e \in Doc \ job[Loop].docs : pg[e] = ack[e]
    /\ pc[Loop] = "reinsert" => pg = With({}) /\ backup[Loop] = Old

\* The end of a request, and a restore on the way there.
EndInv ==
    /\ pc[Loop] = "restoreLance" => pg = Joined(job[Loop].ver)
    /\ pc[Loop] = "restoreUndo" => \A e \in Doc \ job[Loop].docs : pg[e] = ack[e]
    /\ pc[Loop] = "finish" =>
         IF job[Loop].op = "restore"
         THEN pg = IF job[Loop].ok THEN Joined(job[Loop].ver) ELSE With({})
         ELSE pg = IF job[Loop].ok THEN With(job[Loop].ver) ELSE ack

SerialInv == RestInv /\ IndexInv /\ EndInv

\* What the lemmas below start from.
Premise == Serial /\ TypeInv /\ SerialInv

\* The only thread is the loop.
LEMMA LoopAlone == Serial => Thread = {Loop}
BY DEF Serial, Thread

\* The document of an index request.
LEMMA OneDoc ==
    ASSUME TypeInv, job[Loop].op = "index"
    PROVE  /\ TheDoc(Loop) \in Doc /\ job[Loop].docs = {TheDoc(Loop)}
           /\ \E v \in Version : job[Loop].ver = Chunks(v)
<1>1. Loop \in Thread
  BY DEF Thread
<1> QED BY <1>1 DEF TypeInv, JobsOK, TheDoc

\* The names of the steps are different.
LEMMA StepNames ==
    /\ Resting = {"idle", "checkChunks", "checkPg", "checkPgDocs", "checkSet", "trigger"}
    /\ Resting \intersect Steps = {}
BY DEF Resting, Checking, Reading, Steps

\* At the start nothing has been asked.
LEMMA SerialInit == Init => SerialInv
<1> SUFFICES ASSUME Init PROVE SerialInv
  OBVIOUS
<1>1. /\ Loop \in Thread /\ pc[Loop] = "idle" /\ job[Loop] = NoJob
      /\ backup[Loop] = {} /\ pg = ack
  BY DEF Init, Thread
<1> QED BY <1>1 DEF SerialInv, RestInv, IndexInv, EndInv, NoJob
\* A step that keeps the documents of the request keeps what was found of them.
LEMMA SameRequest ==
    ASSUME job'[Loop].docs = job[Loop].docs, ack' = ack
    PROVE  /\ Old' = Old
           /\ \A S : With(S)' = With(S) /\ Joined(S)' = Joined(S)
BY DEF Old, With, Joined, TheDoc

\* A document of the request that is rewritten turns what was found into With.
LEMMA OnlyTheDoc ==
    ASSUME TypeInv, job[Loop].op = "index",
           \A e \in Doc \ job[Loop].docs : pg[e] = ack[e]
    PROVE  /\ \A S : [pg EXCEPT ![TheDoc(Loop)] = S] = With(S)
           /\ With(Old) = ack
<1>1. TheDoc(Loop) \in Doc /\ job[Loop].docs = {TheDoc(Loop)}
  BY OneDoc
<1>2. pg \in [Doc -> SUBSET Chunk] /\ ack \in [Doc -> SUBSET Chunk]
  BY DEF TypeInv, TypeOK
<1> QED BY <1>1, <1>2 DEF With, Old

\* The other documents are as they were found when PostgreSQL is.
LEMMA OthersOfAck ==
    ASSUME TypeInv
    PROVE  /\ pg = ack => \A e \in Doc \ job[Loop].docs : pg[e] = ack[e]
           /\ \A S : pg = With(S) => \A e \in Doc \ job[Loop].docs : pg[e] = ack[e]
BY DEF TypeInv, TypeOK, With

\* A request is put down as it was asked.
LEMMA RequestSerial ==
    ASSUME Premise, NEW op \in {"index", "delete", "restore"}, NEW D \in SUBSET Doc,
           NEW S, NEW r, Request(Loop, op, D, S, r),
           op = "delete" => S = {},
           op = "index" => \E d \in Doc : D = {d} /\ r = (pg[d] # {})
    PROVE  SerialInv'
<1> DEFINE j == [NoJob EXCEPT !.op = op, !.docs = D, !.todo = D, !.ver = S, !.replace = r]
<1>1. Loop \in Thread /\ pc \in [Thread -> {"idle"} \union Steps \union Checking]
        /\ job \in [Thread -> Job]
  BY DEF Premise, TypeInv, TypeOK, Thread
<1>2. job'[Loop] = j /\ pc'[Loop] = "begin" /\ pc[Loop] = "idle"
  BY <1>1 DEF Request, Goto
<1>3. /\ j.op = op /\ j.docs = D /\ j.ver = S /\ j.replace = r
      /\ ~j.inserted /\ ~j.ok
  BY DEF NoJob
<1>4. pg' = pg /\ ack' = ack /\ backup' = backup
  BY DEF Request, stores
<1>5. pg = ack /\ backup[Loop] = {}
  BY <1>2 DEF Premise, SerialInv, RestInv, Resting
<1>6. op = "index" => r = (Old' # {})
  <2> SUFFICES ASSUME op = "index" PROVE r = (Old' # {})
    OBVIOUS
  <2>1. PICK d \in Doc : D = {d} /\ r = (pg[d] # {})
    OBVIOUS
  <2>2. TheDoc(Loop)' = d
    BY <1>2, <1>3, <2>1 DEF TheDoc
  <2> QED BY <1>4, <1>5, <2>1, <2>2 DEF Old
<1> HIDE DEF j
<1>7. RestInv'
  BY <1>2, <1>3, <1>4, <1>5, StepNames DEF RestInv, Resting
<1>8. IndexInv' /\ EndInv'
  BY <1>2, <1>3, <1>6 DEF IndexInv, EndInv
<1> QED BY <1>7, <1>8 DEF SerialInv
\* What a step of a request owes when it goes on to the next step s with the
\* flags of its job as in j: the part of the invariant that is about s.
LEMMA WriteSerial ==
    ASSUME Premise, NEW s \in Steps, NEW j \in Job,
           pc' = [pc EXCEPT ![Loop] = s], job' = [job EXCEPT ![Loop] = j],
           j.op = job[Loop].op, j.docs = job[Loop].docs, j.ver = job[Loop].ver,
           ack' = ack
    PROVE  /\ pc'[Loop] = s /\ job'[Loop] = j
           /\ Old' = Old /\ \A S : With(S)' = With(S) /\ Joined(S)' = Joined(S)
           /\ j.op = "delete" => j.ver = {}
<1>1. Loop \in Thread /\ pc \in [Thread -> {"idle"} \union Steps \union Checking]
        /\ job \in [Thread -> Job]
  BY DEF Premise, TypeInv, TypeOK, Thread
<1>2. pc'[Loop] = s /\ job'[Loop] = j
  BY <1>1
<1>3. j.op = "delete" => j.ver = {}
  BY DEF Premise, SerialInv, RestInv
<1> QED BY <1>2, <1>3, SameRequest

\* The two ways out of a try block.
LEMMA DoneIs ==
    ASSUME TypeInv, NEW ok \in BOOLEAN, Done(Loop, ok)
    PROVE  \E j \in Job :
              /\ pc' = [pc EXCEPT ![Loop] = "finish"] /\ job' = [job EXCEPT ![Loop] = j]
              /\ j.op = job[Loop].op /\ j.docs = job[Loop].docs /\ j.ver = job[Loop].ver
              /\ j.ok = ok
<1>1. job[Loop] \in Job
  BY DEF TypeInv, TypeOK, Thread
<1>2. [job[Loop] EXCEPT !.ok = ok] \in Job
  BY <1>1 DEF Job
<1> WITNESS [job[Loop] EXCEPT !.ok = ok] \in Job
<1> QED BY <1>1, <1>2 DEF Done, Goto, Job

\* An exception in a replacement leads to the rollback or straight to the end.
LEMMA FailedIs ==
    ASSUME TypeInv, Failed(Loop)
    PROVE  \E j \in Job, s \in {"rollback", "finish"} :
              /\ pc' = [pc EXCEPT ![Loop] = s] /\ job' = [job EXCEPT ![Loop] = j]
              /\ j.op = job[Loop].op /\ j.docs = job[Loop].docs /\ j.ver = job[Loop].ver
              /\ s = "finish" => ~j.ok
              /\ s = "rollback" => j = job[Loop]
              /\ s = "rollback" <=>
                   job[Loop].inserted \/ (job[Loop].replace /\ pc[Loop] \in {"pgInsert", "upsert"})
<1>1. job[Loop] \in Job /\ job = [job EXCEPT ![Loop] = job[Loop]]
  BY DEF TypeInv, TypeOK, Thread
<1>2. CASE Done(Loop, FALSE) /\ ~(job[Loop].inserted
              \/ (job[Loop].replace /\ pc[Loop] \in {"pgInsert", "upsert"}))
  <2>1. PICK j \in Job :
              /\ pc' = [pc EXCEPT ![Loop] = "finish"] /\ job' = [job EXCEPT ![Loop] = j]
              /\ j.op = job[Loop].op /\ j.docs = job[Loop].docs /\ j.ver = job[Loop].ver
              /\ j.ok = FALSE
    BY <1>2, DoneIs
  <2> WITNESS j \in Job, "finish" \in {"rollback", "finish"}
  <2> QED BY <1>2, <2>1
<1>3. CASE Goto(Loop, "rollback") /\ UNCHANGED job /\ (job[Loop].inserted
              \/ (job[Loop].replace /\ pc[Loop] \in {"pgInsert", "upsert"}))
  <2> job[Loop] \in Job
    BY <1>1
  <2> WITNESS job[Loop] \in Job, "rollback" \in {"rollback", "finish"}
  <2> QED BY <1>1, <1>3 DEF Goto
<1> QED BY <1>2, <1>3 DEF Failed

\* A request takes its first step with PostgreSQL as it was found.
LEMMA BeginSerial ==
    ASSUME Premise, Begin(Loop)
    PROVE  SerialInv'
<1> DEFINE j == job[Loop]
           s == FirstStep(j)
<1>1. s \in Steps /\ s \in {"dropLance", "restorePg", "backup", "pgInsert"}
  BY DEF FirstStep, Steps
<1>2. j \in Job /\ job = [job EXCEPT ![Loop] = j] /\ Loop \in Thread
  BY DEF Premise, TypeInv, TypeOK, Thread
<1>3. pc' = [pc EXCEPT ![Loop] = s] /\ UNCHANGED <<pg, job, backup, ack>> /\ pc[Loop] = "begin"
  BY DEF Begin, Goto, stores
<1>4. /\ pc'[Loop] = s /\ job'[Loop] = j /\ Old' = Old
      /\ \A S : With(S)' = With(S) /\ Joined(S)' = Joined(S)
      /\ j.op = "delete" => j.ver = {}
  BY <1>1, <1>2, <1>3, WriteSerial
<1>5. /\ pg = ack /\ backup[Loop] = {} /\ ~j.inserted /\ ~j.ok
      /\ j.op = "index" => j.replace = (Old # {})
  BY <1>3 DEF Premise, SerialInv, RestInv, IndexInv
<1>6. j.op \in {"index", "delete", "restore"}
  BY <1>2, <1>3 DEF Premise, TypeInv, JobsOK, Job
<1>7. /\ s = "dropLance" <=> j.op = "delete"
      /\ s = "restorePg" <=> j.op = "restore"
      /\ s = "backup" <=> j.op = "index" /\ j.replace
      /\ s = "pgInsert" <=> j.op = "index" /\ ~j.replace
  BY <1>6 DEF FirstStep
<1>8. s = "pgInsert" => pg = With({}) /\ backup[Loop] = Old
  BY <1>5, <1>7, OnlyTheDoc DEF Premise
<1> HIDE DEF s, j
<1>9. RestInv'
  BY <1>1, <1>3, <1>4, <1>5, <1>7, StepNames DEF RestInv, Resting
<1>10. IndexInv' /\ EndInv'
  BY <1>1, <1>3, <1>4, <1>5, <1>7, <1>8 DEF IndexInv, EndInv
<1> QED BY <1>9, <1>10 DEF SerialInv
\* A replacement that fails, or ends, leaves what its next step starts from.
LEMMA FailedSerial ==
    ASSUME Premise, job[Loop].op = "index", pc[Loop] # "finish", Failed(Loop),
           UNCHANGED <<pg, backup, ack>>,
           IF job[Loop].inserted \/ (job[Loop].replace /\ pc[Loop] \in {"pgInsert", "upsert"})
           THEN backup[Loop] = Old /\ \A e \in Doc \ job[Loop].docs : pg[e] = ack[e]
           ELSE pg = ack
    PROVE  SerialInv'
<1>1. PICK j \in Job, s \in {"rollback", "finish"} :
              /\ pc' = [pc EXCEPT ![Loop] = s] /\ job' = [job EXCEPT ![Loop] = j]
              /\ j.op = job[Loop].op /\ j.docs = job[Loop].docs /\ j.ver = job[Loop].ver
              /\ s = "finish" => ~j.ok
              /\ s = "rollback" => j = job[Loop]
              /\ s = "rollback" <=>
                   job[Loop].inserted \/ (job[Loop].replace /\ pc[Loop] \in {"pgInsert", "upsert"})
  BY FailedIs DEF Premise
<1>2. s \in Steps
  BY DEF Steps
<1>3. /\ pc'[Loop] = s /\ job'[Loop] = j /\ Old' = Old
      /\ \A S : With(S)' = With(S) /\ Joined(S)' = Joined(S)
      /\ j.op = "delete" => j.ver = {}
  BY <1>1, <1>2, WriteSerial
<1>4. s = "rollback" => ~j.ok
  <2>1. job[Loop].ok => pc[Loop] = "finish"
    BY DEF Premise, SerialInv, RestInv
  <2> QED BY <1>1, <2>1
<1>5. IF s = "rollback"
      THEN backup[Loop] = Old /\ \A e \in Doc \ job[Loop].docs : pg[e] = ack[e]
      ELSE pg = ack
  BY <1>1
<1>6. RestInv'
  BY <1>1, <1>3, <1>4 DEF RestInv, Resting, Checking, Reading
<1>7. IndexInv' /\ EndInv'
  BY <1>1, <1>3, <1>5 DEF IndexInv, EndInv
<1> QED BY <1>6, <1>7 DEF SerialInv
\* What a step of a replacement starts from, by the step.
LEMMA IndexAt ==
    ASSUME Premise, pc[Loop] \in IndexSteps
    PROVE  /\ Loop \in Thread /\ job[Loop] \in Job /\ job = [job EXCEPT ![Loop] = job[Loop]]
           /\ job[Loop].op = "index" /\ ~job[Loop].ok
           /\ TheDoc(Loop) \in Doc /\ job[Loop].docs = {TheDoc(Loop)}
           /\ backup \in [Thread -> SUBSET Chunk]
           /\ \A e \in Doc \ job[Loop].docs : pg[e] = ack[e]
<1>1. Loop \in Thread /\ job[Loop] \in Job /\ job \in [Thread -> Job]
        /\ backup \in [Thread -> SUBSET Chunk]
  BY DEF Premise, TypeInv, TypeOK, Thread
<1>2. job[Loop].op = "index"
  BY <1>1 DEF Premise, TypeInv, JobsOK
<1>3. ~job[Loop].ok
  BY DEF Premise, SerialInv, RestInv, IndexSteps
<1>4. \A e \in Doc \ job[Loop].docs : pg[e] = ack[e]
  <2>1. pg = ack \/ pg = With({}) \/ pg = With(job[Loop].ver)
          \/ \A e \in Doc \ job[Loop].docs : pg[e] = ack[e]
    BY DEF Premise, SerialInv, RestInv, IndexInv, IndexSteps
  <2> QED BY <2>1, OthersOfAck DEF Premise
<1> QED BY <1>1, <1>2, <1>3, <1>4, OneDoc DEF Premise

\* The old version is read before anything is deleted.
LEMMA BackupSerial ==
    ASSUME Premise, Backup(Loop)
    PROVE  SerialInv'
<1>1. pc[Loop] = "backup" /\ pc[Loop] \in IndexSteps /\ ack' = ack
  BY DEF Backup, IndexSteps, WriteFrame
<1>2. /\ pg = ack /\ backup[Loop] = {} /\ ~job[Loop].inserted
      /\ job[Loop].replace /\ Old # {}
  BY <1>1 DEF Premise, SerialInv, RestInv, IndexInv
<1>3. CASE backup' = [backup EXCEPT ![Loop] = pg[TheDoc(Loop)]] /\ Goto(Loop, "pgDelete")
             /\ UNCHANGED <<stores, job>>
  <2>1. backup'[Loop] = Old /\ pg' = pg /\ job' = [job EXCEPT ![Loop] = job[Loop]]
    BY <1>1, <1>2, <1>3, IndexAt DEF Old, stores
  <2>2. pc' = [pc EXCEPT ![Loop] = "pgDelete"] /\ "pgDelete" \in Steps
    BY <1>3 DEF Goto, Steps
  <2>3. pc'[Loop] = "pgDelete" /\ job'[Loop] = job[Loop] /\ Old' = Old
    BY <1>1, <2>1, <2>2, IndexAt, WriteSerial
  <2>4. RestInv'
    BY <1>1, <1>2, <2>1, <2>3, IndexAt DEF RestInv, Resting, Checking, Reading
  <2>5. IndexInv' /\ EndInv'
    BY <1>2, <2>1, <2>3 DEF IndexInv, EndInv
  <2> QED BY <2>4, <2>5 DEF SerialInv
<1>4. CASE PgFails /\ Failed(Loop) /\ UNCHANGED backup
  BY <1>1, <1>2, <1>4, IndexAt, FailedSerial DEF PgFails, stores
<1> QED BY <1>1, <1>3, <1>4 DEF Backup
\* A step of a replacement that goes on keeps the job but for its flags.
LEMMA GoesOn ==
    ASSUME Premise, pc[Loop] \in IndexSteps, NEW s \in Steps, NEW j \in Job,
           j.op = "index", j.docs = job[Loop].docs, j.ver = job[Loop].ver, ~j.ok,
           pc' = [pc EXCEPT ![Loop] = s], job' = [job EXCEPT ![Loop] = j],
           UNCHANGED <<backup, ack>>, backup[Loop] = Old,
           \/ s = "pgInsert" /\ pg' = With({}) /\ ~j.inserted /\ j.replace = (Old # {})
           \/ s = "upsert" /\ pg' = With(j.ver) /\ j.inserted
           \/ s = "reinsert" /\ pg' = With({})
           \/ s = "cleanLance" /\ pg' = ack
           \/ s = "finish" /\ pg' = ack
    PROVE  SerialInv'
<1>1. /\ pc'[Loop] = s /\ job'[Loop] = j /\ Old' = Old
      /\ \A S : With(S)' = With(S) /\ Joined(S)' = Joined(S)
  BY IndexAt, WriteSerial
<1>2. RestInv'
  BY <1>1 DEF RestInv, Resting, Checking, Reading
<1>3. IndexInv' /\ EndInv'
  BY <1>1 DEF IndexInv, EndInv
<1> QED BY <1>2, <1>3 DEF SerialInv

\* The old version is deleted: the rows of the document are none.
LEMMA DeleteOldSerial ==
    ASSUME Premise, DeleteOld(Loop)
    PROVE  SerialInv'
<1>1. pc[Loop] = "pgDelete" /\ pc[Loop] \in IndexSteps /\ ack' = ack /\ UNCHANGED backup
  BY DEF DeleteOld, IndexSteps, WriteFrame
<1>2. /\ pg = ack /\ backup[Loop] = Old /\ ~job[Loop].inserted
      /\ job[Loop].replace /\ Old # {}
  BY <1>1 DEF Premise, SerialInv, RestInv, IndexInv
<1>3. CASE pg' = [pg EXCEPT ![TheDoc(Loop)] = {}] /\ Goto(Loop, "pgInsert") /\ UNCHANGED job
  <2>1. pg' = With({})
    BY <1>1, <1>3, IndexAt, OnlyTheDoc DEF Premise
  <2>2. pc' = [pc EXCEPT ![Loop] = "pgInsert"] /\ "pgInsert" \in Steps
    BY <1>3 DEF Goto, Steps
  <2> QED BY <1>1, <1>2, <1>3, <2>1, <2>2, IndexAt, GoesOn
<1>4. CASE PgFails /\ Failed(Loop)
  BY <1>1, <1>2, <1>4, IndexAt, FailedSerial DEF PgFails, stores
<1> QED BY <1>1, <1>3, <1>4 DEF DeleteOld

\* The new version is inserted as a whole or not at all.
LEMMA InsertNewSerial ==
    ASSUME Premise, InsertNew(Loop)
    PROVE  SerialInv'
<1> DEFINE d == TheDoc(Loop)
           S == job[Loop].ver
<1>1. pc[Loop] = "pgInsert" /\ pc[Loop] \in IndexSteps /\ ack' = ack /\ UNCHANGED backup
  BY DEF InsertNew, IndexSteps, WriteFrame
<1>2. /\ pg = With({}) /\ backup[Loop] = Old /\ ~job[Loop].inserted
      /\ job[Loop].replace = (Old # {})
  BY <1>1 DEF Premise, SerialInv, IndexInv
<1>3. CASE /\ pg' = [pg EXCEPT ![d] = @ \union S] /\ Goto(Loop, "upsert")
           /\ job' = [job EXCEPT ![Loop].inserted = TRUE]
  <2>1. pg[d] = {}
    BY <1>1, <1>2, IndexAt DEF With
  <2>2. pg' = With(S)
    BY <1>1, <1>3, <2>1, IndexAt, OnlyTheDoc DEF Premise
  <2>3. pc' = [pc EXCEPT ![Loop] = "upsert"] /\ "upsert" \in Steps
    BY <1>3 DEF Goto, Steps
  <2> DEFINE j == [job[Loop] EXCEPT !.inserted = TRUE]
  <2>4. /\ j \in Job /\ j.op = "index" /\ j.docs = job[Loop].docs /\ j.ver = S
        /\ ~j.ok /\ j.inserted /\ job' = [job EXCEPT ![Loop] = j]
    BY <1>1, <1>3, IndexAt DEF Job
  <2> HIDE DEF j
  <2> QED BY <1>1, <1>2, <2>2, <2>3, <2>4, GoesOn
<1>4. CASE Failed(Loop) /\ UNCHANGED pg
  <2>1. With({}) = ack \/ job[Loop].replace
    BY <1>1, <1>2, IndexAt, OnlyTheDoc DEF Premise
  <2> QED BY <1>1, <1>2, <1>4, <2>1, IndexAt, FailedSerial
<1> QED BY <1>1, <1>3, <1>4 DEF InsertNew, PgFails, stores, Premise, Serial

\* The upsert into LanceDB ends the replacement, one way or the other.
LEMMA UpsertSerial ==
    ASSUME Premise, Upsert(Loop)
    PROVE  SerialInv'
<1>1. pc[Loop] = "upsert" /\ pc[Loop] \in IndexSteps /\ UNCHANGED <<pg, backup, ack>>
  BY DEF Upsert, IndexSteps, WriteFrame
<1>2. pg = With(job[Loop].ver) /\ backup[Loop] = Old /\ job[Loop].inserted
  BY <1>1 DEF Premise, SerialInv, IndexInv
<1>3. CASE Done(Loop, TRUE)
  <2>1. PICK j \in Job :
              /\ pc' = [pc EXCEPT ![Loop] = "finish"] /\ job' = [job EXCEPT ![Loop] = j]
              /\ j.op = job[Loop].op /\ j.docs = job[Loop].docs /\ j.ver = job[Loop].ver
              /\ j.ok = TRUE
    BY <1>3, DoneIs DEF Premise
  <2>2. /\ pc'[Loop] = "finish" /\ job'[Loop] = j /\ Old' = Old
        /\ \A S : With(S)' = With(S) /\ Joined(S)' = Joined(S)
    BY <1>1, <2>1, WriteSerial DEF Steps
  <2>3. RestInv'
    BY <1>1, <2>1, <2>2, IndexAt DEF RestInv, Resting, Checking, Reading
  <2>4. IndexInv' /\ EndInv'
    BY <1>1, <1>2, <2>1, <2>2, IndexAt DEF IndexInv, EndInv
  <2> QED BY <2>3, <2>4 DEF SerialInv
<1>4. CASE Failed(Loop)
  BY <1>1, <1>2, <1>4, IndexAt, FailedSerial
<1> QED BY <1>3, <1>4 DEF Upsert
\* The rollback puts back what the request found, or nothing if it found nothing.
LEMMA RollbackSerial ==
    ASSUME Premise, RollbackDelete(Loop) \/ Reinsert(Loop) \/ CleanLance(Loop)
    PROVE  SerialInv'
<1>1. /\ pc[Loop] \in {"rollback", "reinsert", "cleanLance"} /\ pc[Loop] \in IndexSteps
      /\ UNCHANGED <<job, backup, ack>>
  BY DEF RollbackDelete, Reinsert, CleanLance, IndexSteps, WriteFrame
<1>2. ~RollbackFails
  BY DEF RollbackFails, Premise, Serial
<1>3. With({}) = ack \/ Old # {}
  BY <1>1, IndexAt, OnlyTheDoc DEF Premise
<1>4. CASE RollbackDelete(Loop)
  <2>1. backup[Loop] = Old
    BY <1>4 DEF RollbackDelete, Premise, SerialInv, IndexInv
  <2>2. pg' = With({})
    BY <1>1, <1>2, <1>4, IndexAt, OnlyTheDoc DEF RollbackDelete, Premise
  <2>3. PICK s \in Steps : /\ pc' = [pc EXCEPT ![Loop] = s]
                           /\ s = IF Old # {} THEN "reinsert" ELSE "finish"
    BY <1>2, <1>4, <2>1 DEF RollbackDelete, Goto, Steps
  <2> QED BY <1>1, <1>3, <2>1, <2>2, <2>3, IndexAt, GoesOn
<1>5. CASE Reinsert(Loop)
  <2>1. pg = With({}) /\ backup[Loop] = Old
    BY <1>5 DEF Reinsert, Premise, SerialInv, IndexInv
  <2>2. pg[TheDoc(Loop)] = {}
    BY <1>1, <2>1, IndexAt DEF With
  <2>3. ~Collides(TheDoc(Loop), backup[Loop])
    BY <2>2 DEF Collides
  <2>4. pg' = ack
    BY <1>1, <1>2, <1>5, <2>1, <2>2, <2>3, IndexAt, OnlyTheDoc DEF Reinsert, Premise
  <2>5. pc' = [pc EXCEPT ![Loop] = "cleanLance"] /\ "cleanLance" \in Steps
    BY <1>5 DEF Reinsert, Goto, Steps
  <2> QED BY <1>1, <2>1, <2>4, <2>5, IndexAt, GoesOn
<1>6. CASE CleanLance(Loop)
  <2>1. pg' = ack
    BY <1>1, <1>6 DEF CleanLance, Premise, SerialInv, RestInv
  <2>2. pc' = [pc EXCEPT ![Loop] = "finish"] /\ "finish" \in Steps
    BY <1>6 DEF CleanLance, Goto, Steps
  <2>3. /\ pc'[Loop] = "finish" /\ job'[Loop] = job[Loop]
        /\ \A S : With(S)' = With(S) /\ Joined(S)' = Joined(S)
    BY <1>1, <2>2, IndexAt, WriteSerial
  <2>4. RestInv'
    BY <1>1, <2>3, IndexAt DEF RestInv, Resting, Checking, Reading
  <2>5. IndexInv' /\ EndInv'
    BY <1>1, <2>1, <2>3, IndexAt DEF IndexInv, EndInv
  <2> QED BY <2>4, <2>5 DEF SerialInv
<1> QED BY <1>4, <1>5, <1>6

\* What a step of a delete or of a restore starts from.
LEMMA OtherAt ==
    ASSUME Premise, pc[Loop] \in {"dropLance", "dropPg"} \union RestoreSteps
    PROVE  /\ Loop \in Thread /\ job[Loop] \in Job /\ job \in [Thread -> Job]
           /\ pc[Loop] \in RestoreSteps => job[Loop].op = "restore"
           /\ pc[Loop] \notin RestoreSteps => job[Loop].op = "delete" /\ job[Loop].ver = {}
           /\ ~job[Loop].ok /\ ~job[Loop].inserted /\ backup[Loop] = {}
           /\ \A e \in Doc \ job[Loop].docs : pg[e] = ack[e]
<1>1. Loop \in Thread /\ job[Loop] \in Job /\ job \in [Thread -> Job]
  BY DEF Premise, TypeInv, TypeOK, Thread
<1>2. pc[Loop] \in RestoreSteps => job[Loop].op = "restore"
  BY <1>1 DEF Premise, TypeInv, JobsOK
<1>3. pc[Loop] \notin RestoreSteps => job[Loop].op = "delete" /\ job[Loop].ver = {}
  BY DEF Premise, SerialInv, RestInv
<1>4. ~job[Loop].ok /\ ~job[Loop].inserted /\ backup[Loop] = {}
  BY DEF Premise, SerialInv, RestInv, RestoreSteps
<1>5. \A e \in Doc \ job[Loop].docs : pg[e] = ack[e]
  <2>1. pg = ack \/ pg = Joined(job[Loop].ver) \/ \A e \in Doc \ job[Loop].docs : pg[e] = ack[e]
    BY DEF Premise, SerialInv, RestInv, EndInv, RestoreSteps
  <2> QED BY <2>1 DEF Joined
<1> QED BY <1>1, <1>2, <1>3, <1>4, <1>5

\* A step of a delete or of a restore that goes on, or ends.
LEMMA OtherGoesOn ==
    ASSUME Premise, pc[Loop] \in {"dropLance", "dropPg"} \union RestoreSteps,
           NEW s \in Steps, NEW j \in Job,
           j.op = job[Loop].op, j.docs = job[Loop].docs, j.ver = job[Loop].ver,
           pc' = [pc EXCEPT ![Loop] = s], job' = [job EXCEPT ![Loop] = j],
           UNCHANGED <<backup, ack>>,
           \/ s = "dropPg" /\ pg' = ack /\ ~j.ok /\ ~j.inserted /\ j.op = "delete"
           \/ s = "restoreLance" /\ pg' = Joined(j.ver) /\ ~j.ok /\ ~j.inserted
           \/ /\ s = "restoreUndo" /\ ~j.ok /\ ~j.inserted
              /\ \A e \in Doc \ j.docs : pg'[e] = ack[e]
           \/ /\ s = "finish" /\ j.op = "restore"
              /\ pg' = IF j.ok THEN Joined(j.ver) ELSE With({})
           \/ /\ s = "finish" /\ j.op = "delete"
              /\ pg' = IF j.ok THEN With(j.ver) ELSE ack
    PROVE  SerialInv'
<1>1. /\ pc'[Loop] = s /\ job'[Loop] = j /\ Old' = Old
      /\ \A S : With(S)' = With(S) /\ Joined(S)' = Joined(S)
      /\ j.op = "delete" => j.ver = {}
  BY WriteSerial
<1>2. RestInv'
  BY <1>1, OtherAt DEF RestInv, Resting, Checking, Reading
<1>3. IndexInv' /\ EndInv'
  BY <1>1 DEF IndexInv, EndInv
<1> QED BY <1>2, <1>3 DEF SerialInv

\* A delete touches PostgreSQL in its last step only.
LEMMA DeleteSerial ==
    ASSUME Premise, DropLance(Loop) \/ DropPg(Loop)
    PROVE  SerialInv'
<1>1. /\ pc[Loop] \in {"dropLance", "dropPg"} /\ pc[Loop] \notin RestoreSteps
      /\ UNCHANGED <<backup, ack>>
  BY DEF DropLance, DropPg, WriteFrame, RestoreSteps
<1>2. /\ pg = ack /\ job[Loop].op = "delete" /\ job[Loop].ver = {}
      /\ job[Loop] \in Job /\ job = [job EXCEPT ![Loop] = job[Loop]]
  BY <1>1, OtherAt DEF Premise, SerialInv, RestInv
<1>3. CASE Goto(Loop, "dropPg") /\ UNCHANGED <<job, pg>>
  BY <1>1, <1>2, <1>3, OtherAt, OtherGoesOn DEF Goto, Steps
<1>4. CASE \E ok \in BOOLEAN : /\ Done(Loop, ok)
                               /\ pg' = IF ok THEN With({}) ELSE ack
  <2>1. PICK ok \in BOOLEAN : Done(Loop, ok) /\ pg' = IF ok THEN With({}) ELSE ack
    BY <1>4
  <2>2. PICK j \in Job :
              /\ pc' = [pc EXCEPT ![Loop] = "finish"] /\ job' = [job EXCEPT ![Loop] = j]
              /\ j.op = job[Loop].op /\ j.docs = job[Loop].docs /\ j.ver = job[Loop].ver
              /\ j.ok = ok
    BY <2>1, DoneIs DEF Premise
  <2> QED BY <1>1, <1>2, <2>1, <2>2, OtherGoesOn DEF Steps
<1>5. [d \in Doc |-> IF d \in job[Loop].docs THEN {} ELSE pg[d]] = With({})
  BY <1>2 DEF With
<1> QED BY <1>1, <1>2, <1>3, <1>4, <1>5 DEF DropLance, DropPg, PgFails, stores
\* A restore joins what is there; its compensation empties its documents.
LEMMA RestoreSerial ==
    ASSUME Premise, RestorePg(Loop) \/ RestoreLance(Loop) \/ RestoreUndo(Loop)
    PROVE  SerialInv'
<1>1. pc[Loop] \in RestoreSteps /\ UNCHANGED <<backup, ack>>
  BY DEF RestorePg, RestoreLance, RestoreUndo, WriteFrame, RestoreSteps
<1>2. /\ job[Loop].op = "restore" /\ job[Loop] \in Job /\ Loop \in Thread
      /\ job = [job EXCEPT ![Loop] = job[Loop]] /\ ~job[Loop].ok /\ ~job[Loop].inserted
      /\ \A e \in Doc \ job[Loop].docs : pg[e] = ack[e]
  BY <1>1, OtherAt
<1>3. pc \in [Thread -> {"idle"} \union Steps \union Checking]
        /\ pg \in [Doc -> SUBSET Chunk] /\ ack \in [Doc -> SUBSET Chunk]
  BY DEF Premise, TypeInv, TypeOK
<1>4. ASSUME NEW ok \in BOOLEAN, Done(Loop, ok),
             pg' = IF ok THEN Joined(job[Loop].ver) ELSE With({})
      PROVE  SerialInv'
  <2>1. PICK j \in Job :
              /\ pc' = [pc EXCEPT ![Loop] = "finish"] /\ job' = [job EXCEPT ![Loop] = j]
              /\ j.op = job[Loop].op /\ j.docs = job[Loop].docs /\ j.ver = job[Loop].ver
              /\ j.ok = ok
    BY <1>4, DoneIs DEF Premise
  <2> QED BY <1>1, <1>2, <1>4, <2>1, OtherGoesOn DEF Steps
<1>5. ASSUME Goto(Loop, "restoreUndo"), UNCHANGED <<pg, job>>
      PROVE  SerialInv'
  BY <1>1, <1>2, <1>5, OtherGoesOn DEF Goto, Steps
<1>6. CASE RestorePg(Loop)
  <2>1. pg = ack
    BY <1>6 DEF RestorePg, Premise, SerialInv, RestInv
  <2>2. CASE UNCHANGED pg /\ Goto(Loop, "restoreUndo")
    BY <1>5, <1>6, <2>2 DEF RestorePg
  <2>3. CASE /\ pg' = [d \in Doc |->
                        IF d \notin job[Loop].docs THEN pg[d]
                        ELSE pg[d] \union {c \in job[Loop].ver : ~Collides(d, {c})}]
             /\ Goto(Loop, "restoreLance")
    <3>1. pg' = Joined(job[Loop].ver)
      BY <2>1, <2>3 DEF Joined, Collides
    <3>2. pc' = [pc EXCEPT ![Loop] = "restoreLance"] /\ UNCHANGED job
      BY <1>6, <2>3 DEF RestorePg, Goto
    <3> QED BY <1>1, <1>2, <3>1, <3>2, OtherGoesOn DEF Steps
  <2> QED BY <1>6, <2>2, <2>3 DEF RestorePg, PgFails, stores
<1>7. CASE RestoreLance(Loop)
  <2>1. pc[Loop] = "restoreLance" /\ pg' = pg /\ pg = Joined(job[Loop].ver)
    BY <1>7 DEF RestoreLance, Premise, SerialInv, EndInv
  <2>2. CASE Done(Loop, TRUE)
    BY <1>4, <2>1, <2>2
  <2>3. CASE Goto(Loop, "restoreUndo") /\ UNCHANGED job
    BY <1>5, <2>1, <2>3
  <2>4. CASE \E d \in job[Loop].todo :
               job' = [job EXCEPT ![Loop].todo = @ \ {d}] /\ UNCHANGED pc
    <3>1. PICK d \in job[Loop].todo :
               job' = [job EXCEPT ![Loop].todo = @ \ {d}] /\ UNCHANGED pc
      BY <2>4
    <3> DEFINE j == [job[Loop] EXCEPT !.todo = @ \ {d}]
    <3>2. /\ j \in Job /\ j.op = job[Loop].op /\ j.docs = job[Loop].docs
          /\ j.ver = job[Loop].ver /\ ~j.ok /\ ~j.inserted
          /\ job' = [job EXCEPT ![Loop] = j]
      BY <1>2, <3>1 DEF Job
    <3>3. pc' = [pc EXCEPT ![Loop] = "restoreLance"]
      BY <1>2, <1>3, <2>1, <3>1
    <3> HIDE DEF j
    <3> QED BY <1>1, <2>1, <3>2, <3>3, OtherGoesOn DEF Steps
  <2> QED BY <1>7, <2>2, <2>3, <2>4 DEF RestoreLance
<1>8. CASE RestoreUndo(Loop)
  <2>1. pg' = With({})
    BY <1>2, <1>8 DEF RestoreUndo, With, Premise, Serial
  <2> QED BY <1>4, <1>8, <2>1 DEF RestoreUndo
<1> QED BY <1>6, <1>7, <1>8

\* What the end of a request makes of the content its clients see.
LEMMA FinishServes ==
    ASSUME Premise, Finish(Loop)
    PROVE  /\ ack' = pg /\ pg' = pg
           /\ pg = IF job[Loop].op = "restore"
                   THEN IF job[Loop].ok THEN Joined(job[Loop].ver) ELSE With({})
                   ELSE IF job[Loop].ok THEN With(job[Loop].ver) ELSE ack
<1>1. pc[Loop] = "finish" /\ pg' = pg
  BY DEF Finish, stores
<1>2. pg = IF job[Loop].op = "restore"
           THEN IF job[Loop].ok THEN Joined(job[Loop].ver) ELSE With({})
           ELSE IF job[Loop].ok THEN With(job[Loop].ver) ELSE ack
  BY <1>1 DEF Premise, SerialInv, EndInv
<1>3. pg \in [Doc -> SUBSET Chunk] /\ ack \in [Doc -> SUBSET Chunk]
  BY DEF Premise, TypeInv, TypeOK
<1>4. ack' = pg
  <2>1. ASSUME NEW e \in Doc PROVE ack'[e] = pg[e]
    BY <1>2, <1>3 DEF Finish, With, Joined
  <2>2. ack' = [e \in Doc |-> ack'[e]] /\ pg = [e \in Doc |-> pg[e]]
    BY <1>3 DEF Finish
  <2> QED BY <2>1, <2>2
<1> QED BY <1>1, <1>2, <1>4

\* The finally clause: what PostgreSQL holds is what was acknowledged.
LEMMA FinishSerial ==
    ASSUME Premise, Finish(Loop)
    PROVE  SerialInv'
<1>1. Loop \in Thread /\ pc \in [Thread -> {"idle"} \union Steps \union Checking]
        /\ job \in [Thread -> Job] /\ backup \in [Thread -> SUBSET Chunk]
  BY DEF Premise, TypeInv, TypeOK, Thread
<1>2. pc'[Loop] = "idle" /\ job'[Loop] = NoJob /\ backup'[Loop] = {}
  BY <1>1 DEF Finish, Goto
<1>3. NoJob.ok = FALSE /\ NoJob.op = "none"
  BY DEF NoJob
<1>4. RestInv'
  BY <1>2, <1>3, FinishServes DEF RestInv
<1>5. IndexInv' /\ EndInv'
  BY <1>2 DEF IndexInv, EndInv
<1> QED BY <1>4, <1>5 DEF SerialInv
\* Neither a search nor the repair touches what the invariant is about.
LEMMA OtherSerial ==
    ASSUME Premise, CheckStep \/ SyncStep \/ UNCHANGED vars
    PROVE  SerialInv' /\ UNCHANGED <<pg, job, ack>>
<1>1. UNCHANGED <<pg, job, backup, ack>>
  BY DEF CheckStep, CheckLance, Reads, CheckChunks, CheckPg, CheckPgDocs, CheckSet,
         CheckCached, Trigger, CheckFrame, SyncStep, SyncDrop, SyncCreate, SyncList,
         SyncStat, SyncFetch, SyncAddBulk, SyncUpsert, SyncParity, SyncEnd, SyncFrame,
         vars, stores, threads
<1>2. pc'[Loop] = pc[Loop] \/ (pc[Loop] \in Resting /\ pc'[Loop] \in Resting)
  <2>1. Loop \in Thread /\ pc \in [Thread -> {"idle"} \union Steps \union Checking]
    BY DEF Premise, TypeInv, TypeOK, Thread
  <2>2. CASE SyncStep \/ UNCHANGED vars
    BY <2>2 DEF SyncStep, SyncDrop, SyncCreate, SyncList, SyncStat, SyncFetch, SyncAddBulk,
                SyncUpsert, SyncParity, SyncEnd, SyncFrame, vars, threads
  <2>3. CASE CheckStep
    <3>1. pc[Loop] \in Resting
      BY <2>3, StepNames DEF CheckStep, CheckLance, Reads, CheckChunks, CheckPg, CheckPgDocs,
                             CheckSet, CheckCached, Trigger
    <3>2. \E s \in Resting : Goto(Loop, s)
      BY <2>3, StepNames DEF CheckStep, CheckLance, Reads, CheckChunks, CheckPg, CheckPgDocs,
                             CheckSet, CheckCached, Trigger, CheckRaises
    <3> QED BY <2>1, <3>1, <3>2 DEF Goto
  <2> QED BY <2>2, <2>3
<1>3. TheDoc(Loop)' = TheDoc(Loop) /\ Old' = Old
      /\ \A S : With(S)' = With(S) /\ Joined(S)' = Joined(S)
  BY <1>1 DEF TheDoc, Old, With, Joined
<1>4. CASE pc'[Loop] = pc[Loop]
  BY <1>1, <1>3, <1>4 DEF Premise, SerialInv, RestInv, IndexInv, EndInv
<1>5. CASE pc[Loop] \in Resting /\ pc'[Loop] \in Resting
  <2>1. RestInv'
    BY <1>1, <1>5, StepNames DEF Premise, SerialInv, RestInv
  <2>2. IndexInv' /\ EndInv'
    BY <1>5, StepNames DEF IndexInv, EndInv
  <2> QED BY <1>1, <2>1, <2>2 DEF SerialInv
<1> QED BY <1>1, <1>2, <1>4, <1>5

\* With one writer and no purge, the only steps left are the loop's, the
\* searches and the repair.
LEMMA SerialSteps ==
    ASSUME Premise, [Next]_vars
    PROVE  \/ \E d \in Doc, v \in Version : StartIndex(Loop, d, v)
           \/ \E D \in SUBSET Doc : StartDelete(D)
           \/ \E D \in SUBSET Doc, v \in Version : StartRestore(D, v)
           \/ WriteStep(Loop)
           \/ CheckStep \/ SyncStep \/ UNCHANGED vars
<1>1. ~Crash
  BY DEF Crash, Premise, Serial, TypeInv, TypeOK
<1>2. \A d : ~Purge(d)
  BY DEF Purge, Premise, Serial
<1> QED BY <1>1, <1>2, LoopAlone DEF Next, Premise

\* The invariant is inductive.
LEMMA StepSerial ==
    ASSUME Premise, [Next]_vars
    PROVE  SerialInv'
<1>1. ASSUME NEW d \in Doc, NEW v \in Version, StartIndex(Loop, d, v)
      PROVE  SerialInv'
  BY <1>1, RequestSerial DEF StartIndex
<1>2. ASSUME NEW D \in SUBSET Doc, StartDelete(D)
      PROVE  SerialInv'
  BY <1>2, RequestSerial DEF StartDelete
<1>3. ASSUME NEW D \in SUBSET Doc, NEW v \in Version, StartRestore(D, v)
      PROVE  SerialInv'
  BY <1>3, RequestSerial DEF StartRestore
<1>4. CASE WriteStep(Loop)
  BY <1>4, BeginSerial, BackupSerial, DeleteOldSerial, InsertNewSerial, UpsertSerial,
     RollbackSerial, DeleteSerial, RestoreSerial, FinishSerial DEF WriteStep
<1>5. CASE CheckStep \/ SyncStep \/ UNCHANGED vars
  BY <1>5, OtherSerial
<1> QED BY <1>1, <1>2, <1>3, <1>4, <1>5, SerialSteps

\* One writer at a time: at each step of a request, PostgreSQL is as far from
\* what the request found as the code has taken it, and its backup leads back.
THEOREM SerialInvHolds == ASSUME Serial PROVE Spec => []SerialInv
<1>1. TypeInv /\ SerialInv /\ [Next]_vars => SerialInv'
  BY StepSerial DEF Premise
<1> QED BY <1>1, SerialInit, TypeInvHolds, PTL DEF Spec

\* Whatever the two stores refuse, between two requests PostgreSQL holds exactly
\* what the acknowledged operations left: a failed replacement has put the old
\* version back (write_indexed_document and its rollback).
THEOREM AcknowledgedSurvivesHolds ==
    ASSUME Serial PROVE Spec => []AcknowledgedSurvives
<1>1. SerialInv => AcknowledgedSurvives
  <2>1. Loop \in Thread
    BY DEF Thread
  <2> QED BY <2>1 DEF SerialInv, RestInv, Resting, AcknowledgedSurvives, Quiet
<1> QED BY <1>1, SerialInvHolds, PTL
(***************************************************************************)
(* The refinement.                                                         *)
(***************************************************************************)

\* A step inside a request changes neither the request nor what is seen of it.
LEMMA WriteStutters ==
    ASSUME Premise, WriteStep(Loop), ~Finish(Loop)
    PROVE  UNCHANGED <<Seen, Asked>>
<1>1. Loop \in Thread /\ job[Loop] \in Job /\ job \in [Thread -> Job]
  BY DEF Premise, TypeInv, TypeOK, Thread
<1>2. job[Loop].op # "none"
  <2>1. pc[Loop] \in {"begin", "dropLance", "dropPg"} \union IndexSteps \union RestoreSteps
    BY DEF WriteStep, Begin, Backup, DeleteOld, InsertNew, Upsert, RollbackDelete, Reinsert,
           CleanLance, DropLance, DropPg, RestorePg, RestoreLance, RestoreUndo,
           IndexSteps, RestoreSteps
  <2>2. pc[Loop] \in {"dropLance", "dropPg"} => job[Loop].op = "delete"
    BY DEF Premise, SerialInv, RestInv
  <2> QED BY <1>1, <2>1, <2>2 DEF Premise, TypeInv, JobsOK
<1>3. ack' = ack
  BY DEF WriteStep, Begin, Backup, DeleteOld, InsertNew, Upsert, RollbackDelete, Reinsert,
         CleanLance, DropLance, DropPg, RestorePg, RestoreLance, RestoreUndo, WriteFrame
<1>4. \/ job' = job
      \/ \E b \in BOOLEAN : \/ job' = [job EXCEPT ![Loop].ok = b]
                            \/ job' = [job EXCEPT ![Loop].inserted = b]
      \/ \E D : job' = [job EXCEPT ![Loop].todo = D]
  BY DEF WriteStep, Begin, Backup, DeleteOld, InsertNew, Upsert, RollbackDelete, Reinsert,
         CleanLance, DropLance, DropPg, RestorePg, RestoreLance, RestoreUndo, Failed, Done
<1>5. /\ job'[Loop].op = job[Loop].op /\ job'[Loop].docs = job[Loop].docs
      /\ job'[Loop].ver = job[Loop].ver
  BY <1>1, <1>4 DEF Job
<1> QED BY <1>2, <1>3, <1>5 DEF Seen, Served, Asked

\* The end of a request is an answer of the abstract store.
LEMMA FinishAnswers ==
    ASSUME Premise, Finish(Loop)
    PROVE  [Abstract!Next]_<<Seen, Asked>>
<1>1. Loop \in Thread /\ job[Loop] \in Job /\ job \in [Thread -> Job]
  BY DEF Premise, TypeInv, TypeOK, Thread
<1>2. job'[Loop] = NoJob
  BY <1>1 DEF Finish
<1>3. Seen' = pg /\ Asked' = Abstract!NoRequest
  BY <1>2, FinishServes DEF Seen, Served, Asked, Abstract!NoRequest, NoJob
<1>4. job[Loop].op # "none" /\ Seen = ack
  BY DEF Finish, Premise, SerialInv, RestInv, Seen, Served
<1>5. Asked.op = job[Loop].op /\ Asked.docs = job[Loop].docs /\ Asked.pieces = job[Loop].ver
  BY DEF Asked
<1>6. CASE job[Loop].op = "restore"
  <2>1. pg \in {Joined(job[Loop].ver), With({})}
    BY <1>6, FinishServes
  <2>2. Abstract!Restore
    BY <1>3, <1>4, <1>5, <1>6, <2>1
    DEF Abstract!Restore, Abstract!Answer, Abstract!Filled, Joined, With
  <2> QED BY <2>2 DEF Abstract!Next
<1>7. CASE job[Loop].op # "restore" /\ job[Loop].ok
  <2>1. pg = With(job[Loop].ver)
    BY <1>7, FinishServes
  <2>2. job[Loop].op \in {"index", "delete"}
    BY <1>1, <1>4, <1>7 DEF Job
  <2>3. Abstract!Succeed
    BY <1>3, <1>4, <1>5, <2>1, <2>2 DEF Abstract!Succeed, Abstract!Answer, With
  <2> QED BY <2>3 DEF Abstract!Next
<1>8. CASE job[Loop].op # "restore" /\ ~job[Loop].ok
  <2>1. pg = ack
    BY <1>8, FinishServes
  <2>2. Abstract!Fail
    BY <1>3, <1>4, <1>5, <2>1 DEF Abstract!Fail, Abstract!Answer
  <2> QED BY <2>2 DEF Abstract!Next
<1> QED BY <1>6, <1>7, <1>8

\* The arrival of a request is one for the abstract store.
LEMMA RequestAsks ==
    ASSUME Premise, NEW op \in {"index", "delete", "restore"}, NEW D, NEW S, NEW r,
           Request(Loop, op, D, S, r)
    PROVE  /\ Asked = Abstract!NoRequest /\ UNCHANGED Seen
           /\ Asked' = [op |-> op, docs |-> D, pieces |-> S]
<1>1. Loop \in Thread /\ job \in [Thread -> Job]
  BY DEF Premise, TypeInv, TypeOK, Thread
<1>2. pc[Loop] = "idle" /\ job[Loop] = NoJob /\ pg = ack
  BY DEF Request, Premise, SerialInv, RestInv, Resting
<1>3. job'[Loop].op = op /\ job'[Loop].docs = D /\ job'[Loop].ver = S
  BY <1>1 DEF Request, NoJob
<1>4. pg' = pg /\ ack' = ack
  BY DEF Request, stores
<1> QED BY <1>2, <1>3, <1>4 DEF Seen, Served, Asked, NoJob, Abstract!NoRequest

\* With one writer at a time, the two stores with their steps, their failures and
\* their rollbacks implement a store in which a request takes effect at once or
\* not at all (index_document, the deletes and the restore of documents).
THEOREM Implements == ASSUME Serial PROVE Spec => ImplementsDocumentStore
<1> DEFINE P == [v \in Version |-> Chunks(v)]
<1>1. Init => Abstract!Init
  <2> SUFFICES ASSUME Init PROVE Abstract!Init
    OBVIOUS
  <2>1. job[Loop] = NoJob /\ pg \in [Doc -> {{}} \union {Chunks(v) : v \in Version}]
    BY DEF Init, Thread
  <2>2. {Chunks(v) : v \in Version} = {P[v] : v \in Version}
    OBVIOUS
  <2>3. Seen = pg /\ Asked = Abstract!NoRequest
    BY <2>1 DEF Seen, Served, Asked, NoJob, Abstract!NoRequest
  <2> QED BY <2>1, <2>2, <2>3 DEF Abstract!Init
<1>2. ASSUME Premise, [Next]_vars
      PROVE  [Abstract!Next]_<<Seen, Asked>>
  <2>1. ASSUME NEW d \in Doc, NEW v \in Version, StartIndex(Loop, d, v)
        PROVE  Abstract!Ask
    BY <1>2, <2>1, RequestAsks DEF StartIndex, Abstract!Ask
  <2>2. ASSUME NEW D \in SUBSET Doc, StartDelete(D)
        PROVE  Abstract!Ask
    <3>1. /\ Asked = Abstract!NoRequest /\ UNCHANGED Seen /\ D \in (SUBSET Doc) \ {{}}
          /\ Asked' = [op |-> "delete", docs |-> D, pieces |-> {}]
      BY <1>2, <2>2, RequestAsks DEF StartDelete
    <3> QED BY <3>1 DEF Abstract!Ask
  <2>3. ASSUME NEW D \in SUBSET Doc, NEW v \in Version, StartRestore(D, v)
        PROVE  Abstract!Ask
    <3>1. /\ Asked = Abstract!NoRequest /\ UNCHANGED Seen /\ D \in (SUBSET Doc) \ {{}}
          /\ Asked' = [op |-> "restore", docs |-> D, pieces |-> P[v]]
      BY <1>2, <2>3, RequestAsks DEF StartRestore
    <3> QED BY <3>1 DEF Abstract!Ask
  <2>4. CASE WriteStep(Loop)
    BY <1>2, <2>4, WriteStutters, FinishAnswers
  <2>5. CASE CheckStep \/ SyncStep \/ UNCHANGED vars
    BY <1>2, <2>5, OtherSerial DEF Seen, Served, Asked
  <2> QED BY <1>2, <2>1, <2>2, <2>3, <2>4, <2>5, SerialSteps DEF Abstract!Next
<1>3. TypeInv /\ SerialInv /\ [Next]_vars => [Abstract!Next]_<<Seen, Asked>>
  BY <1>2 DEF Premise
<1> QED BY <1>1, <1>3, SerialInvHolds, TypeInvHolds, PTL
        DEF Spec, ImplementsDocumentStore, Abstract!Spec
============================================================================
