----------------------------- MODULE DualStore -----------------------------
(***************************************************************************)
(* The two stores of the server: the PostgreSQL table document_chunks, the *)
(* source of truth, and the LanceDB tables derived from it.  No            *)
(* transaction spans them.  This module models                             *)
(*   - the write transaction of an indexed document and its rollback       *)
(*     (indexing_write_transaction.py), the dual delete, the restore of a  *)
(*     backup and the purge of quarantined chunks;                         *)
(*   - the cached readiness status of the retriever, its drift signatures  *)
(*     and the background repair sync (retriever_v2.py,                    *)
(*     scripts/sync_lancedb.py).                                           *)
(*                                                                         *)
(* Threads: Loop is the event loop of the single server process (its       *)
(* handlers call synchronous code, so they never overlap one another); a   *)
(* Scanner is a worker thread of the folder scheduler; at most one repair  *)
(* thread runs beside them.  Each call to a store is a step; the calls on  *)
(* LanceDB hold its file lock and are therefore atomic against each other, *)
(* but one that fails leaves the commits it had already made.              *)
(***************************************************************************)
EXTENDS Integers, FiniteSets, Sequences, Functions

CONSTANTS
    Doc, Version,
    Size,        \* number of chunks of a version, a function
    Loop, Scanner,
    Ops,         \* the operations a run enables
    Analyze,     \* AUTO_ANALYZE_ENABLED: insert_chunks ends with an ANALYZE
    BatchSize,   \* documents per batch of the repair sync
    RollbackFaults, \* whether PostgreSQL may also refuse a rollback
    BadDoc,      \* documents LanceDB can never store (bad embedding)
    MaxOps, MaxFaults, MaxCrashes, MaxOvertakes  \* bounds of the exploration

ASSUME VersionAssumption == Size \in [Version -> Nat \ {0}]
ASSUME ThreadAssumption  == Loop \notin Scanner /\ IsFiniteSet(Scanner)
ASSUME OpsAssumption     == Ops \subseteq {"index", "delete", "restore", "purge"}
ASSUME BatchAssumption   == BatchSize \in Nat \ {0}
ASSUME ConfigAssumption  ==
    BadDoc \subseteq Doc /\ Analyze \in BOOLEAN /\ RollbackFaults \in BOOLEAN

Thread == {Loop} \union Scanner

(***************************************************************************)
(* A chunk is a chunk_index with the version of the file it was cut from.  *)
(***************************************************************************)
Chunks(v) == {<<i, v>> : i \in 1..Size[v]}
Chunk     == UNION {Chunks(v) : v \in Version}

NoSig      == << >>              \* None
UnknownSig == <<-1, -1, -1, -1>> \* _UNKNOWN_READINESS_SIGNATURE

VARIABLES
    pg,         \* pg[d]: the rows of document d in document_chunks
    lance,      \* the LanceDB tables: how many copies of each row they hold
    pc, job,    \* per thread: next step, and the request it works on
    backup,     \* old_chunks_backup of a thread
    mutations,  \* _lancedb_mutation_count
    status,     \* _lancedb_cached_status, "DIRTY" for _lancedb_cache_dirty
    curSig,     \* _lancedb_current_drift_signature
    failedSig,  \* _lancedb_failed_sync_signature
    seen,       \* counts a readiness check has read so far
    sync,       \* the repair thread
    syncSig,    \* the signature it was launched for
    want,       \* <<documents, chunks>> its parity check expects
    ops, faults, crashes,
    overtakes,  \* times a repair ended while a search was being answered
    ack,        \* history: what the last completed operation left of d
    missed      \* history: an invalidation that the last check cannot have seen

stores  == <<pg, lance>>
threads == <<pc, job, backup>>
cache   == <<status, curSig, failedSig, seen, missed>>
repair  == <<sync, syncSig, want>>
vars    == <<stores, threads, mutations, cache, repair, ops, faults, crashes,
             overtakes, ack>>

----------------------------------------------------------------------------
(* The stores *)

Drift(s) == s[1] > 0 /\ (s[3] = 0 \/ s[1] # s[3] \/ s[2] # s[4])

PgCounts == << Cardinality({d \in Doc : pg[d] # {}}),
               Cardinality({x \in Doc \X Chunk : x[2] \in pg[x[1]]}) >>

LanceCounts == << SumFunction(lance.parents), SumFunction(lance.rows) >>

EmptyLance == [up      |-> TRUE,
               parents |-> [d \in Doc |-> 0],
               rows    |-> [x \in Doc \X Chunk |-> 0]]

\* Mutant: the delete counts down instead of emptying.
MutNoParents(L, D) ==
    [L EXCEPT !.parents = [d \in Doc |-> IF d \in D THEN @[d] - 1 ELSE @[d]]]

\* The tables after the delete of the documents D from the parent table.
NoParents(L, D) ==
    [L EXCEPT !.parents = [d \in Doc |-> IF d \in D THEN 0 ELSE @[d]]]

\* The tables after the delete of the documents D from both tables.
Cleared(L, D) ==
    [NoParents(L, D) EXCEPT
        !.rows = [x \in Doc \X Chunk |-> IF x[1] \in D THEN 0 ELSE @[x]]]

\* One parent row more for every document that f gives chunks.
AddParents(L, f) ==
    [L EXCEPT !.parents = [d \in Doc |-> @[d] + (IF f[d] = {} THEN 0 ELSE 1)]]

\* One row more for every chunk that f gives a document.
AddRows(L, f) ==
    [L EXCEPT !.rows = [x \in Doc \X Chunk |->
                            @[x] + (IF x[2] \in f[x[1]] THEN 1 ELSE 0)]]

Only(d, S) == [e \in Doc |-> IF e = d THEN S ELSE {}]

\* upsert_document: delete from both tables, then add to both, four commits.
Upserted(L, d, S) == AddRows(AddParents(Cleared(L, {d}), Only(d, S)), Only(d, S))
UpsertPartial(L, d, S) ==
    {L, NoParents(L, {d}), Cleared(L, {d}), AddParents(Cleared(L, {d}), Only(d, S))}

\* add_documents_bulk: chunk rows first, the parent rows once at the end.
BulkAdded(L, f)   == AddParents(AddRows(L, f), f)
BulkPartial(L, f) == {L, AddRows(L, f)}

Fault == faults < MaxFaults /\ faults' = faults + 1

UpsertOk(d, S) ==
    /\ lance.up /\ d \notin BadDoc
    /\ lance' = Upserted(lance, d, S)
    /\ UNCHANGED faults

\* An upsert fails on dropped tables, on a document that does not fit the
\* schema (after its two deletes), or on a storage fault between two commits.
UpsertFails(d, S) ==
    \/ ~lance.up /\ UNCHANGED <<lance, faults>>
    \/ lance.up /\ d \in BadDoc /\ lance' = Cleared(lance, {d}) /\ UNCHANGED faults
    \/ lance.up /\ Fault /\ lance' \in UpsertPartial(lance, d, S)

ClearOk(D) == lance.up /\ lance' = Cleared(lance, D) /\ UNCHANGED faults

ClearFails(D) ==
    \/ ~lance.up /\ UNCHANGED <<lance, faults>>
    \/ lance.up /\ Fault /\ lance' \in {lance, NoParents(lance, D)}

\* A statement on PostgreSQL that raises: its transaction changes nothing.
PgFails == Fault /\ UNCHANGED stores
RollbackFails == RollbackFaults /\ PgFails

----------------------------------------------------------------------------
(* Threads, the mutation counter and the readiness cache *)

Steps == {"begin", "backup", "pgDelete", "pgInsert", "upsert", "rollback",
          "reinsert", "cleanLance", "dropLance", "dropPg", "restorePg",
          "restoreLance", "restoreUndo", "finish"}
Mutating == Steps \ {"begin"}
Reading  == {"checkChunks", "checkPg", "checkPgDocs", "checkSet"}
Checking == Reading \union {"trigger"}

NoJob == [op |-> "none", docs |-> {}, todo |-> {}, ver |-> {},
          replace |-> FALSE, inserted |-> FALSE, ok |-> FALSE]

Goto(t, s) == pc' = [pc EXCEPT ![t] = s]

\* The thread leaves its try block, with success or with an exception.
Done(t, ok) == Goto(t, "finish") /\ job' = [job EXCEPT ![t].ok = ok]

\* invalidate_lancedb_cache
Invalidate ==
    /\ status' = "DIRTY"
    /\ missed' = (missed \/ pc[Loop] \in Reading)
    /\ UNCHANGED <<curSig, failedSig, seen>>

Request(t, op, D, v, replace) ==
    /\ pc[t] = "idle" /\ op \in Ops /\ ops < MaxOps
    /\ ops' = ops + 1
    /\ Goto(t, "begin")
    /\ job' = [job EXCEPT ![t] = [NoJob EXCEPT !.op = op, !.docs = D, !.todo = D,
                                               !.ver = v, !.replace = replace]]
    /\ UNCHANGED <<stores, backup, mutations, cache, repair, faults, crashes,
                   overtakes, ack>>

\* index_document up to the write: an unchanged file is skipped unless the
\* reindex is forced, and the decision to replace is taken here.
StartIndex(t, d, v) ==
    /\ v \in Version
    /\ Request(t, "index", {d}, Chunks(v), pg[d] # {})

\* The bulk delete of the documents that match a filter; delete_document is
\* the same for one document, found in PostgreSQL first.
StartDelete(D) == D # {} /\ Request(Loop, "delete", D, {}, FALSE)

StartRestore(D, v) == D # {} /\ Request(Loop, "restore", D, Chunks(v), FALSE)

\* Mutant: the old version is deleted without a backup.
MutFirstStep(j) ==
    CASE j.op = "delete"  -> "dropLance"
      [] j.op = "restore" -> "restorePg"
      [] OTHER            -> IF j.replace THEN "pgDelete" ELSE "pgInsert"

FirstStep(j) ==
    CASE j.op = "delete"  -> "dropLance"
      [] j.op = "restore" -> "restorePg"
      [] OTHER            -> IF j.replace THEN "backup" ELSE "pgInsert"

\* begin_lancedb_mutation
Begin(t) ==
    /\ pc[t] = "begin"
    /\ mutations' = mutations + 1
    /\ Goto(t, FirstStep(job[t]))
    /\ sync' = [sync EXCEPT !.raced = (sync.pc # "off")]
    /\ UNCHANGED <<stores, job, backup, cache, syncSig, want, ops, faults, crashes,
                   overtakes, ack>>

\* Mutant: the counter is lowered on the success path only.
MutFinishCounter(t) ==
    /\ pc[t] = "finish"
    /\ mutations' = IF job[t].ok /\ mutations > 0 THEN mutations - 1 ELSE mutations
    /\ Goto(t, "idle")
    /\ job' = [job EXCEPT ![t] = NoJob]
    /\ backup' = [backup EXCEPT ![t] = {}]
    /\ Invalidate
    /\ UNCHANGED <<stores, repair, ops, faults, crashes, overtakes, ack>>

\* Mutant: the cache is not invalidated when the write ends.
MutFinishCached(t) ==
    /\ pc[t] = "finish"
    /\ mutations' = IF mutations > 0 THEN mutations - 1 ELSE 0
    /\ Goto(t, "idle")
    /\ job' = [job EXCEPT ![t] = NoJob]
    /\ backup' = [backup EXCEPT ![t] = {}]
    /\ UNCHANGED <<stores, cache, repair, ops, faults, crashes, overtakes, ack>>

\* The finally clause: end_lancedb_mutation, then the cache is invalidated.
Finish(t) ==
    /\ pc[t] = "finish"
    /\ mutations' = IF mutations > 0 THEN mutations - 1 ELSE 0
    /\ Goto(t, "idle")
    /\ job' = [job EXCEPT ![t] = NoJob]
    /\ backup' = [backup EXCEPT ![t] = {}]
    /\ Invalidate
    /\ ack' = [d \in Doc |->
                 IF d \notin job[t].docs THEN ack[d]
                 ELSE IF job[t].op = "restore" THEN pg[d]
                 ELSE IF job[t].ok THEN job[t].ver ELSE ack[d]]
    /\ UNCHANGED <<stores, repair, ops, faults, crashes, overtakes>>
----------------------------------------------------------------------------
(* write_indexed_document *)

\* What a step of a write leaves alone whatever it does.
WriteFrame == UNCHANGED <<mutations, cache, repair, ops, crashes, overtakes, ack>>

TheDoc(t) == CHOOSE d \in job[t].docs : TRUE

\* Mutant: the rollback forgets that the old version was deleted.
MutFailed(t) ==
    IF job[t].inserted
    THEN Goto(t, "rollback") /\ UNCHANGED job
    ELSE Done(t, FALSE)

\* The except clause: PostgreSQL is rolled back if it may have been changed.
Failed(t) ==
    IF job[t].inserted \/ (job[t].replace /\ pc[t] \in {"pgInsert", "upsert"})
    THEN Goto(t, "rollback") /\ UNCHANGED job
    ELSE Done(t, FALSE)

Backup(t) ==
    /\ pc[t] = "backup"
    /\ \/ /\ backup' = [backup EXCEPT ![t] = pg[TheDoc(t)]]
          /\ Goto(t, "pgDelete")
          /\ UNCHANGED <<stores, job, faults>>
       \/ PgFails /\ Failed(t) /\ UNCHANGED backup
    /\ WriteFrame

DeleteOld(t) ==
    /\ pc[t] = "pgDelete"
    /\ \/ /\ pg' = [pg EXCEPT ![TheDoc(t)] = {}]
          /\ Goto(t, "pgInsert")
          /\ UNCHANGED <<lance, job, faults>>
       \/ PgFails /\ Failed(t)
    /\ UNCHANGED backup /\ WriteFrame

\* Mutant: the unique constraint is missing.
MutCollides(d, S) == FALSE

\* UNIQUE (document_id, chunk_index): an index already taken refuses the insert.
Collides(d, S) == \E c \in S, e \in pg[d] : c[1] = e[1]

\* insert_chunks is one transaction.  The ANALYZE that may follow its commit
\* can raise too: the QueryError it expects arrives as a ConnectionPoolError.
InsertNew(t) ==
    LET d == TheDoc(t)
    IN  /\ pc[t] = "pgInsert"
        /\ \/ /\ ~Collides(d, job[t].ver)
              /\ pg' = [pg EXCEPT ![d] = @ \union job[t].ver]
              /\ \/ /\ Goto(t, "upsert")
                    /\ job' = [job EXCEPT ![t].inserted = TRUE]
                    /\ UNCHANGED <<lance, faults>>
                 \/ Analyze /\ Fault /\ Failed(t) /\ UNCHANGED lance
           \/ Collides(d, job[t].ver) /\ Failed(t) /\ UNCHANGED <<stores, faults>>
           \/ PgFails /\ Failed(t)
        /\ UNCHANGED backup /\ WriteFrame

\* The upsert into LanceDB and the refresh of its text index.
Upsert(t) ==
    /\ pc[t] = "upsert"
    /\ \/ UpsertOk(TheDoc(t), job[t].ver) /\ Done(t, TRUE)
       \/ UpsertFails(TheDoc(t), job[t].ver) /\ Failed(t)
    /\ UNCHANGED <<pg, backup>> /\ WriteFrame

\* Rollback, first statement.  An exception ends the rollback of PostgreSQL.
AfterRollback(t) == IF backup[t] # {} THEN Goto(t, "cleanLance") ELSE Goto(t, "finish")

RollbackDelete(t) ==
    /\ pc[t] = "rollback"
    /\ \/ /\ pg' = [pg EXCEPT ![TheDoc(t)] = {}]
          /\ Goto(t, IF backup[t] # {} THEN "reinsert" ELSE "finish")
          /\ UNCHANGED <<lance, faults>>
       \/ RollbackFails /\ AfterRollback(t)
    /\ UNCHANGED <<job, backup>> /\ WriteFrame

Reinsert(t) ==
    LET d == TheDoc(t)
    IN  /\ pc[t] = "reinsert"
        /\ \/ /\ ~Collides(d, backup[t])
              /\ pg' = [pg EXCEPT ![d] = @ \union backup[t]]
              /\ UNCHANGED <<lance, faults>>
           \/ Collides(d, backup[t]) /\ UNCHANGED <<stores, faults>>
           \/ RollbackFails
        /\ Goto(t, "cleanLance")
        /\ UNCHANGED <<job, backup>> /\ WriteFrame

\* The partial replacement is removed from LanceDB; a failure is only logged.
CleanLance(t) ==
    /\ pc[t] = "cleanLance"
    /\ ClearOk(job[t].docs) \/ ClearFails(job[t].docs)
    /\ Goto(t, "finish")
    /\ UNCHANGED <<pg, job, backup>> /\ WriteFrame
----------------------------------------------------------------------------
(* Delete, restore and purge *)

\* The delete goes to LanceDB first; if that fails PostgreSQL is not touched.
DropLance(t) ==
    /\ pc[t] = "dropLance"
    /\ \/ ClearOk(job[t].docs) /\ Goto(t, "dropPg") /\ UNCHANGED job
       \/ ClearFails(job[t].docs) /\ Done(t, FALSE)
    /\ UNCHANGED <<pg, backup>> /\ WriteFrame

DropPg(t) ==
    /\ pc[t] = "dropPg"
    /\ \/ /\ pg' = [d \in Doc |-> IF d \in job[t].docs THEN {} ELSE pg[d]]
          /\ Done(t, TRUE)
          /\ UNCHANGED <<lance, faults>>
       \/ PgFails /\ Done(t, FALSE)
    /\ UNCHANGED backup /\ WriteFrame

\* ON CONFLICT DO NOTHING: a chunk index already present keeps its content.
RestorePg(t) ==
    /\ pc[t] = "restorePg"
    /\ \/ /\ pg' = [d \in Doc |->
                      IF d \notin job[t].docs THEN pg[d]
                      ELSE pg[d] \union {c \in job[t].ver : ~Collides(d, {c})}]
          /\ Goto(t, "restoreLance")
          /\ UNCHANGED <<lance, faults>>
       \/ PgFails /\ Goto(t, "restoreUndo")
    /\ UNCHANGED <<job, backup>> /\ WriteFrame

\* The documents of the backup are upserted one at a time.
RestoreLance(t) ==
    /\ pc[t] = "restoreLance"
    /\ \E d \in job[t].todo :
         \/ /\ UpsertOk(d, job[t].ver)
            /\ IF job[t].todo = {d}
               THEN Done(t, TRUE)
               ELSE job' = [job EXCEPT ![t].todo = @ \ {d}] /\ UNCHANGED pc
         \/ UpsertFails(d, job[t].ver) /\ Goto(t, "restoreUndo") /\ UNCHANGED job
    /\ UNCHANGED <<pg, backup>> /\ WriteFrame

\* The compensating deletes, a transaction each: one that fails ends them.
RestoreUndo(t) ==
    /\ pc[t] = "restoreUndo"
    /\ \/ /\ pg' = [d \in Doc |-> IF d \in job[t].docs THEN {} ELSE pg[d]]
          /\ UNCHANGED faults
       \/ /\ RollbackFaults /\ Fault
          /\ \E D \in SUBSET job[t].docs :
               D # job[t].docs /\ pg' = [d \in Doc |-> IF d \in D THEN {} ELSE pg[d]]
    /\ Done(t, FALSE)
    /\ UNCHANGED <<lance, backup>> /\ WriteFrame

\* purge_expired deletes rows of PostgreSQL only and invalidates nothing.
Purge(d) ==
    /\ "purge" \in Ops /\ ops < MaxOps /\ pg[d] # {}
    /\ ops' = ops + 1
    /\ pg' = [pg EXCEPT ![d] = {}]
    /\ ack' = [ack EXCEPT ![d] = {}]
    /\ sync' = [sync EXCEPT !.raced = (sync.pc # "off")]
    /\ missed' = TRUE
    /\ UNCHANGED <<lance, threads, mutations, status, curSig, failedSig, seen, syncSig,
                   want, faults, crashes, overtakes>>
----------------------------------------------------------------------------
(* check_readiness and the launch of the repair, on the event loop *)

CheckFrame == UNCHANGED <<stores, job, backup, mutations, ops, crashes, overtakes, ack>>

\* The readiness check raises: the cache stays dirty, and the sentinel
\* signature tells a failure that a repair has already not cured.
CheckRaises ==
    /\ curSig' = UnknownSig
    /\ Goto(Loop, IF failedSig = UnknownSig THEN "idle" ELSE "trigger")
    /\ UNCHANGED <<status, failedSig, missed>>

\* No mutation and a dirty cache: count the rows of both stores, without the
\* lock of LanceDB, one table or query after the other.
CheckLance ==
    /\ pc[Loop] = "idle" /\ mutations = 0 /\ status = "DIRTY"
    /\ \/ /\ lance.up
          /\ seen' = <<LanceCounts[1]>>
          /\ missed' = FALSE
          /\ Goto(Loop, "checkChunks")
          /\ UNCHANGED <<status, curSig, failedSig, faults>>
       \/ ~lance.up /\ CheckRaises /\ UNCHANGED <<seen, faults>>
       \/ Fault /\ CheckRaises /\ UNCHANGED seen
    /\ UNCHANGED repair /\ CheckFrame

\* One more count of the check; the exception, if it raises, forgets them all.
Reads(here, there, counts, possible) ==
    /\ pc[Loop] = here
    /\ \/ /\ possible
          /\ seen' = counts
          /\ Goto(Loop, there)
          /\ UNCHANGED <<status, curSig, failedSig, missed, faults>>
       \/ ~possible /\ CheckRaises /\ seen' = NoSig /\ UNCHANGED faults
       \/ Fault /\ CheckRaises /\ seen' = NoSig
    /\ UNCHANGED repair /\ CheckFrame

CheckChunks == Reads("checkChunks", "checkPg", <<seen[1], LanceCounts[2]>>, lance.up)
CheckPg     == Reads("checkPg", "checkPgDocs", <<PgCounts[2]>> \o seen, TRUE)
CheckPgDocs == Reads("checkPgDocs", "checkSet", <<PgCounts[1]>> \o seen, TRUE)

\* The verdict is cached.  An empty PostgreSQL is READY whatever LanceDB holds.
CheckSet ==
    /\ pc[Loop] = "checkSet"
    /\ seen' = NoSig
    /\ IF Drift(seen)
       THEN /\ curSig' = seen
            /\ status' = IF failedSig = seen THEN "FAILED" ELSE "NOT_READY"
            /\ Goto(Loop, IF failedSig = seen THEN "idle" ELSE "trigger")
            /\ UNCHANGED failedSig
       ELSE /\ curSig' = NoSig /\ failedSig' = NoSig
            /\ status' = "READY"
            /\ Goto(Loop, "idle")
    /\ UNCHANGED <<missed, faults, repair>> /\ CheckFrame

\* A search that finds NOT_READY in the cache asks for the repair again.
CheckCached ==
    /\ pc[Loop] = "idle" /\ mutations = 0 /\ status = "NOT_READY"
    /\ Goto(Loop, "trigger")
    /\ UNCHANGED <<cache, faults, repair>> /\ CheckFrame

SyncOff == [pc |-> "off", todo |-> {}, batch |-> [d \in Doc |-> {}], fast |-> FALSE,
            bad |-> FALSE, ok |-> FALSE, raced |-> FALSE]

\* _trigger_self_healing_sync, under _sync_lock
Trigger ==
    /\ pc[Loop] = "trigger"
    /\ Goto(Loop, "idle")
    /\ IF sync.pc = "off" /\ (curSig = NoSig \/ failedSig # curSig)
       THEN /\ sync' = [SyncOff EXCEPT !.pc = "drop", !.raced = (mutations > 0)]
            /\ syncSig' = curSig
            /\ UNCHANGED want
       ELSE UNCHANGED repair
    /\ UNCHANGED <<cache, faults>> /\ CheckFrame
----------------------------------------------------------------------------
(* _run_background_sync: sync_postgres_to_lancedb(force=True) *)

SyncFrame == UNCHANGED <<pg, threads, mutations, ops, crashes, ack>>
CacheFrame == UNCHANGED <<cache, overtakes>>

SyncTo(s) == sync' = [sync EXCEPT !.pc = s] /\ UNCHANGED <<syncSig, want>>

\* Mutant: the failed signature is not remembered.
MutSyncRaises == SyncTo("ending") /\ UNCHANGED <<cache, overtakes>>

\* The sync raises: the signature it was launched for is remembered as failed.
SyncRaises ==
    /\ failedSig' = syncSig
    /\ SyncTo("ending")
    /\ UNCHANGED <<status, curSig, seen, missed, overtakes>>

\* The tables are dropped under the write lock and created again outside it.
SyncDrop ==
    /\ sync.pc = "drop"
    /\ lance' = [EmptyLance EXCEPT !.up = FALSE]
    /\ SyncTo("create") /\ UNCHANGED faults /\ CacheFrame /\ SyncFrame

SyncCreate ==
    /\ sync.pc = "create"
    /\ \/ lance' = [lance EXCEPT !.up = TRUE] /\ SyncTo("list") /\ UNCHANGED faults /\ CacheFrame
       \/ Fault /\ UNCHANGED lance /\ SyncRaises
    /\ SyncFrame

SyncList ==
    /\ sync.pc = "list"
    /\ \/ /\ sync' = [sync EXCEPT !.todo = {d \in Doc : pg[d] # {}},
                                  !.pc = IF PgCounts[1] = 0 THEN "parity" ELSE "stat"]
          /\ want' = <<PgCounts[1], 0>>
          /\ UNCHANGED <<syncSig, faults>> /\ CacheFrame
       \/ Fault /\ SyncRaises
    /\ UNCHANGED lance /\ SyncFrame

\* Empty tables take the bulk path, which appends without a delete first.
SyncStat ==
    /\ sync.pc = "stat"
    /\ \/ /\ sync' = [sync EXCEPT !.fast = (LanceCounts = <<0, 0>>), !.pc = "fetch"]
          /\ UNCHANGED <<syncSig, want, faults>> /\ CacheFrame
       \/ Fault /\ SyncRaises
    /\ UNCHANGED lance /\ SyncFrame

\* The rows of the next batch of listed documents, read in one query.
SyncFetch ==
    /\ sync.pc = "fetch"
    /\ \/ \E b \in SUBSET sync.todo :
            /\ \/ Cardinality(b) = BatchSize
               \/ Cardinality(b) < BatchSize /\ b = sync.todo
            /\ sync' = [sync EXCEPT !.pc = "add", !.todo = @ \ b,
                          !.batch = [d \in Doc |-> IF d \in b THEN pg[d] ELSE {}]]
            /\ UNCHANGED <<syncSig, want, faults>> /\ CacheFrame
       \/ Fault /\ SyncRaises
    /\ UNCHANGED lance /\ SyncFrame

Fetched == {d \in Doc : sync.batch[d] # {}}

\* Documents D of the batch are through: counted, or remembered as failed.
BatchDone(D, good) ==
    LET rest == [d \in Doc |-> IF d \in D THEN {} ELSE sync.batch[d]]
        n    == Cardinality({x \in D \X Chunk : x[2] \in sync.batch[x[1]]})
    IN  /\ sync' = [sync EXCEPT
              !.batch = rest, !.bad = @ \/ ~good,
              !.pc = IF \E d \in Doc : rest[d] # {} THEN "add"
                     ELSE IF sync.todo # {} THEN "fetch" ELSE "parity"]
        /\ want' = IF good THEN <<want[1], want[2] + n>> ELSE want
        /\ UNCHANGED syncSig

SyncAddBulk ==
    /\ sync.pc = "add" /\ sync.fast
    /\ \/ /\ lance.up /\ Fetched \intersect BadDoc = {}
          /\ lance' = BulkAdded(lance, sync.batch)
          /\ BatchDone(Fetched, TRUE) /\ UNCHANGED faults
       \/ /\ Fetched \intersect BadDoc # {}
          /\ BatchDone(Fetched, FALSE) /\ UNCHANGED <<lance, faults>>
       \/ /\ Fault /\ Fetched # {}
          /\ lance' \in BulkPartial(lance, sync.batch)
          /\ BatchDone(Fetched, FALSE)
    /\ CacheFrame /\ SyncFrame

\* The slow path upserts the documents of the batch one by one.
SyncUpsert ==
    /\ sync.pc = "add" /\ ~sync.fast
    /\ \/ \E d \in Fetched :
            \/ UpsertOk(d, sync.batch[d]) /\ BatchDone({d}, TRUE)
            \/ UpsertFails(d, sync.batch[d]) /\ BatchDone({d}, FALSE)
       \/ Fetched = {} /\ BatchDone({}, TRUE) /\ UNCHANGED <<lance, faults>>
    /\ CacheFrame /\ SyncFrame

\* Mutant: the documents that failed do not make the sync fail.
MutSyncParity ==
    /\ sync.pc = "parity"
    /\ failedSig' = NoSig
    /\ sync' = [sync EXCEPT !.pc = "ending", !.ok = TRUE]
    /\ UNCHANGED <<lance, syncSig, want, status, curSig, seen, missed, overtakes, faults>>
    /\ SyncFrame

\* Failed documents raise; otherwise the counts must be those that were synced.
SyncParity ==
    /\ sync.pc = "parity"
    /\ \/ /\ ~sync.bad /\ LanceCounts = want
          /\ failedSig' = NoSig
          /\ sync' = [sync EXCEPT !.pc = "ending", !.ok = TRUE]
          /\ UNCHANGED <<syncSig, want, status, curSig, seen, missed, overtakes, faults>>
       \/ (sync.bad \/ LanceCounts # want) /\ SyncRaises /\ UNCHANGED faults
       \/ Fault /\ SyncRaises
    /\ UNCHANGED lance /\ SyncFrame

\* The finally clause of the thread, and its end.  A search may be half way
\* through its check: it then acts on what it saw before, MaxOvertakes times.
SyncEnd ==
    /\ sync.pc = "ending"
    /\ IF pc[Loop] \in Checking
       THEN overtakes < MaxOvertakes /\ overtakes' = overtakes + 1
       ELSE UNCHANGED overtakes
    /\ sync' = SyncOff /\ syncSig' = NoSig /\ want' = <<0, 0>>
    /\ Invalidate
    /\ UNCHANGED <<lance, faults>> /\ SyncFrame

SyncStep == SyncDrop \/ SyncCreate \/ SyncList \/ SyncStat \/ SyncFetch
              \/ SyncAddBulk \/ SyncUpsert \/ SyncParity \/ SyncEnd
----------------------------------------------------------------------------
\* The server process dies and starts again: its memory is lost, both stores
\* are on disk, and the adapter creates the tables it does not find.
Crash ==
    /\ crashes < MaxCrashes
    /\ crashes' = crashes + 1
    /\ lance' = [lance EXCEPT !.up = TRUE]
    /\ pc' = [t \in Thread |-> "idle"]
    /\ job' = [t \in Thread |-> NoJob]
    /\ backup' = [t \in Thread |-> {}]
    /\ mutations' = 0
    /\ status' = "DIRTY" /\ curSig' = NoSig /\ failedSig' = NoSig
    /\ seen' = NoSig /\ missed' = FALSE
    /\ sync' = SyncOff /\ syncSig' = NoSig /\ want' = <<0, 0>>
    /\ UNCHANGED <<pg, ops, faults, overtakes, ack>>

\* At start PostgreSQL holds whole documents; LanceDB has not been built, as
\* after an upgrade from a PostgreSQL-only release.
Init ==
    /\ pg \in [Doc -> {{}} \union {Chunks(v) : v \in Version}]
    /\ lance = EmptyLance
    /\ pc = [t \in Thread |-> "idle"]
    /\ job = [t \in Thread |-> NoJob]
    /\ backup = [t \in Thread |-> {}]
    /\ mutations = 0
    /\ status = "DIRTY" /\ curSig = NoSig /\ failedSig = NoSig
    /\ seen = NoSig /\ missed = FALSE
    /\ sync = SyncOff /\ syncSig = NoSig /\ want = <<0, 0>>
    /\ ops = 0 /\ faults = 0 /\ crashes = 0 /\ overtakes = 0
    /\ ack = pg

WriteStep(t) ==
    \/ Begin(t) \/ Backup(t) \/ DeleteOld(t) \/ InsertNew(t) \/ Upsert(t)
    \/ RollbackDelete(t) \/ Reinsert(t) \/ CleanLance(t)
    \/ DropLance(t) \/ DropPg(t)
    \/ RestorePg(t) \/ RestoreLance(t) \/ RestoreUndo(t)
    \/ Finish(t)

CheckStep == CheckLance \/ CheckChunks \/ CheckPg \/ CheckPgDocs \/ CheckSet
               \/ CheckCached \/ Trigger

Next ==
    \/ \E t \in Thread, d \in Doc, v \in Version : StartIndex(t, d, v)
    \/ \E D \in SUBSET Doc : StartDelete(D)
    \/ \E D \in SUBSET Doc, v \in Version : StartRestore(D, v)
    \/ \E d \in Doc : Purge(d)
    \/ \E t \in Thread : WriteStep(t)
    \/ CheckStep
    \/ SyncStep
    \/ Crash

Spec == Init /\ [][Next]_vars

\* Threads are scheduled, and clients keep searching.  (Strong fairness of
\* SyncEnd only makes up for the guard that counts overtakes.)
FairSpec ==
    /\ Spec
    /\ \A t \in Thread : WF_vars(WriteStep(t))
    /\ WF_vars(CheckStep)
    /\ WF_vars(SyncStep) /\ SF_vars(SyncEnd)

----------------------------------------------------------------------------
(* Properties *)

Tables == [up : BOOLEAN, parents : [Doc -> Nat], rows : [Doc \X Chunk -> Nat]]

Job == [op : {"none", "index", "delete", "restore"},
        docs : SUBSET Doc, todo : SUBSET Doc, ver : SUBSET Chunk,
        replace : BOOLEAN, inserted : BOOLEAN, ok : BOOLEAN]

Repair == [pc : {"off", "drop", "create", "list", "stat", "fetch", "add", "parity", "ending"},
           todo : SUBSET Doc, batch : [Doc -> SUBSET Chunk],
           fast : BOOLEAN, bad : BOOLEAN, ok : BOOLEAN, raced : BOOLEAN]

\* The types of the stores, the threads and the repair thread.  (Signatures
\* are sums of row counts, which the type leaves alone.)
TypeOK ==
    /\ pg \in [Doc -> SUBSET Chunk]
    /\ lance \in Tables
    /\ pc \in [Thread -> {"idle"} \union Steps \union Checking]
    /\ job \in [Thread -> Job]
    /\ backup \in [Thread -> SUBSET Chunk]
    /\ mutations \in Nat
    /\ status \in {"DIRTY", "READY", "NOT_READY", "FAILED"}
    /\ sync \in Repair
    /\ ops \in Nat /\ faults \in Nat /\ crashes \in Nat /\ overtakes \in Nat
    /\ ack \in [Doc -> SUBSET Chunk]
    /\ missed \in BOOLEAN

Whole(S) == S = {} \/ \E v \in Version : S = Chunks(v)

\* A document never holds chunks of two versions, nor a part of one, whatever
\* writers, rollbacks, purges and crashes interleave: neither the rows of
\* PostgreSQL, nor the backup a rollback puts back, nor a batch of the repair.
SingleVersion ==
    /\ \A d \in Doc : Whole(pg[d])
    /\ \A t \in Thread : Whole(backup[t])
    /\ \A d \in Doc : Whole(sync.batch[d])

\* The mutation counter is the number of threads inside a dual write: were it
\* to stay up after a failed write, searches would answer MUTATING for ever;
\* were it to reach 0 early, a check would take a half-done write for drift.
MutationCountExact ==
    mutations = Cardinality({t \in Thread : pc[t] \in Mutating})

Quiet == \A t \in Thread : pc[t] = "idle"

\* With a single writer at a time and one fault, PostgreSQL holds exactly what
\* the last acknowledged operation on each document left: a failed write, in
\* whatever step it failed, has put the previous version back.
AcknowledgedSurvives == Quiet => pg = ack

\* Two writers of one document: the loser's rollback must not lose it.  ("the
\* old PostgreSQL chunks are backed up and restored if the replacement fails
\* after deletion")
NoDocumentLost == Quiet => \A d \in Doc : ack[d] # {} => pg[d] # {}

Agree == PgCounts[1] > 0 => PgCounts = LanceCounts

\* A cached READY that a search relies on means that the counts agree, when
\* nothing is being written.  ("READY" if in sync)
ReadyMeansCountsAgree ==
    (Quiet /\ sync.pc = "off" /\ status = "READY") => Agree

\* The same, except after a check that was in flight when another thread
\* invalidated the cache, or after a purge, which invalidates nothing: the only
\* ways a READY can be wrong about the counts.
ReadyUnlessInvalidationMissed == ~missed => ReadyMeansCountsAgree

\* A repair that succeeds while nobody writes leaves in LanceDB every row of
\* PostgreSQL once, and no other: no batch is skipped and none is added twice.
CleanRepairIsExact ==
    (sync.pc = "ending" /\ sync.ok /\ ~sync.raced) =>
        lance = AddRows(AddParents(EmptyLance, pg), pg)

\* A search is served, or is told FAILED: from the cache, or because the check
\* raises and the repair launched for that has failed.
Answered ==
    \/ status \in {"READY", "FAILED"}
    \/ status = "DIRTY" /\ ~lance.up /\ failedSig = UnknownSig

\* The readiness comes to rest: the repair is not launched for ever for a
\* document that LanceDB can never store, nor for tables it cannot create.
\* ("lets the failed-sync guard suppress endless repair-sync relaunches")
Settles == <>[](sync.pc = "off" /\ Answered)
============================================================================
