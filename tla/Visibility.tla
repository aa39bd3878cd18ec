---------------------------- MODULE Visibility ----------------------------
(***************************************************************************)
(* Who sees a document, and what an indexing request leaves behind:        *)
(* document_visibility.py, collection_grants.py, visibility_api.py, the    *)
(* two indexing endpoints of indexing_api.py and the run they record       *)
(* (indexing_runs.py).  Owner and visibility are columns of every chunk,   *)
(* and a reader applies them in one of three forms: a WHERE clause over    *)
(* the chunks, a list of hidden documents, an EXISTS for one document.     *)
(* Requests are served by several replicas, so their steps interleave.     *)
(***************************************************************************)
EXTENDS Integers, FiniteSets

CONSTANTS Docs,
          SpaceOf,          \* metadata.namespace of each
          Persons,    \* users, linked to the key of their calls
          Chiefs,           \* the users whose role has system.admin
          Jobs,             \* requests to index a document
          MaxChunks,        \* bound: chunks of a document
          Anyone,           \* a caller whose key is linked to no user
          Nobody, NoJobYet

\* What a request is doing, for whom, to which document, and what has come of it.
IndexJobs ==
  [step : {"look", "write", "own", "done"}, kind : {"index", "upload"},
   by : Persons \cup {Anyone}, doc : Docs, replace : BOOLEAN,
   did : {"nothing", "skipped", "refused", "failed", "indexed", "crashed"}, faulty : BOOLEAN]

ASSUME VisibilityAssumption ==
  /\ MaxChunks \in Nat \ {0} /\ Chiefs \subseteq Persons
  /\ Anyone \notin Persons /\ Nobody \notin Persons \cup {Anyone}
  /\ NoJobYet \notin IndexJobs

VARIABLES rows,     \* document_chunks: per document its chunks, with owner and visibility
          merged,   \* documents a restore has added chunks to
          known,    \* users
          grants,   \* role_collection_grants of the role the other users have
          job,      \* what each indexing request is doing
          run       \* indexing_runs: the row each request has recorded

visibilityVars == <<rows, merged, known, grants, job, run>>

Chunk == [owner : Persons \cup {Nobody}, vis : {"shared", "private"}, late : BOOLEAN]
Indices == UNION {{1 .. n} : n \in 1 .. MaxChunks}
NoRows == [i \in {} |-> 0]
NewChunks(I) == [i \in I |-> [owner |-> Nobody, vis |-> "shared", late |-> FALSE]]

VisibilityInit ==
  /\ rows = [d \in Docs |-> NoRows] /\ merged = {}
  /\ known = Persons
  /\ grants = {}
  /\ job = [j \in Jobs |-> NoJobYet]
  /\ run = [j \in Jobs |-> "none"]

-----------------------------------------------------------------------------
There(d) == rows[d] # NoRows

\* visibility_where_clause: the chunks a caller's queries reach.
Clause(c, w) == \/ c \in Chiefs \/ w.vis = "shared" \/ w.owner = Nobody
                \/ c # Anyone /\ w.owner = c
ListShows(c) == {d \in Docs : \E i \in DOMAIN rows[d] : Clause(c, rows[d][i])}

\* get_hidden_document_ids.
HiddenIds(c) == IF c \in Chiefs THEN {} ELSE
  {d \in Docs : \E i \in DOMAIN rows[d] :
     /\ rows[d][i].vis = "private" /\ rows[d][i].owner # Nobody
     /\ rows[d][i].owner # c}

\* search_allowed_namespaces_for_key_record; a document without a collection
\* is in none that a role can be granted by name.
Allowed(c, s) == c \in Chiefs \cup {Anyone} \/ grants = {} \/ "*" \in grants \/ s \in grants
SearchShows(c) == {d \in Docs : There(d) /\ d \notin HiddenIds(c) /\ Allowed(c, SpaceOf[d])}

\* get_document_visibility: the owner its oldest chunk names.
OwnersOf(d) == {rows[d][i].owner : i \in {j \in DOMAIN rows[d] : ~rows[d][j].late}}

-----------------------------------------------------------------------------
Keep == UNCHANGED <<merged, known, grants, job, run>>

\* set_document_visibility, set_document_owner, transfer_ownership: one UPDATE
\* of all the chunks.  An owner that is no user breaks the foreign key.
MutReassigned(ds, o, v) == [d \in Docs |-> [i \in DOMAIN rows[d] |->
   IF d \in ds /\ i = 1 THEN [rows[d][i] EXCEPT !.owner = o, !.vis = v] ELSE rows[d][i]]]
Reassigned(ds, o, v) == [d \in Docs |-> [i \in DOMAIN rows[d] |->
   IF d \in ds THEN [rows[d][i] EXCEPT !.owner = o, !.vis = v] ELSE rows[d][i]]]

\* PUT /documents/{id}/visibility by its owner or by one who may change all.
SetVisibility(c, d, v) ==
  /\ There(d) /\ c \in known /\ (c \in Chiefs \/ c \in OwnersOf(d))
  /\ rows' = [rows EXCEPT ![d] = [i \in DOMAIN @ |-> [@[i] EXCEPT !.vis = v]]]
  /\ Keep

\* The same endpoint without authentication sets owner and visibility at once.
SetBoth(d, o, v) == There(d) /\ o \in known /\ rows' = Reassigned({d}, o, v) /\ Keep

Transfer(d, o) ==
  /\ There(d) /\ o \in known
  /\ rows' = [rows EXCEPT ![d] = [i \in DOMAIN @ |-> [@[i] EXCEPT !.owner = o]]]
  /\ Keep

BulkSetVisibility(ds, v) ==
  /\ ds # {}
  /\ rows' = [d \in Docs |-> [i \in DOMAIN rows[d] |->
       IF d \in ds THEN [rows[d][i] EXCEPT !.vis = v] ELSE rows[d][i]]]
  /\ Keep

\* users.id is referenced ON DELETE SET NULL.
DeleteCaller(c) ==
  /\ c \in known /\ known' = known \ {c}
  /\ rows' = [d \in Docs |-> [i \in DOMAIN rows[d] |->
       IF rows[d][i].owner = c THEN [rows[d][i] EXCEPT !.owner = Nobody] ELSE rows[d][i]]]
  /\ UNCHANGED <<merged, grants, job, run>>

\* POST /documents/restore: chunks that are missing are inserted with the
\* columns of the backup, which has neither owner nor visibility.
Restore(d, I) ==
  /\ rows' = [rows EXCEPT ![d] = [i \in DOMAIN @ \cup I |->
       IF i \in DOMAIN @ THEN @[i]
       ELSE [owner |-> Nobody, vis |-> "shared", late |-> There(d)]]]
  /\ merged' = IF There(d) /\ ~(I \subseteq DOMAIN rows[d]) THEN merged \cup {d} ELSE merged
  /\ UNCHANGED <<known, grants, job, run>>

DeleteRows(d) ==
  /\ There(d) /\ rows' = [rows EXCEPT ![d] = NoRows] /\ merged' = merged \ {d}
  /\ UNCHANGED <<known, grants, job, run>>

GrantSpace(s) ==
  /\ s \notin grants /\ grants' = grants \cup {s}
  /\ UNCHANGED <<rows, merged, known, job, run>>
RevokeSpace(s) ==
  /\ s \in grants /\ grants' = grants \ {s}
  /\ UNCHANGED <<rows, merged, known, job, run>>

-----------------------------------------------------------------------------
\* The indexing endpoints.  start_run and complete_run swallow a database
\* error, and then the run has no row, or keeps the row it has.
Step(j, step) == job' = [job EXCEPT ![j].step = step]
Complete(j, status) ==
  run' = [run EXCEPT ![j] = IF @ = "running" THEN status ELSE @]
\* What a request was asked is forgotten when it is over.
Over(j, how) == job' = [job EXCEPT ![j].step = "done", ![j].did = how,
                                   ![j].by = Anyone, ![j].replace = FALSE]
Ends(j, status, how) ==
  /\ Over(j, how)
  /\ Complete(j, status) \/ (job[j].faulty /\ run' = run)

Begin(j, kind, c, d) ==
  /\ job[j] = NoJobYet /\ c \in known \cup {Anyone}
  /\ \E faulty \in BOOLEAN, recorded \in BOOLEAN :
       /\ recorded \/ faulty
       /\ run' = [run EXCEPT ![j] = IF recorded THEN "running" ELSE "none"]
       /\ job' = [job EXCEPT ![j] = [step |-> "look", kind |-> kind, by |-> c, doc |-> d,
                                     replace |-> FALSE, did |-> "nothing", faulty |-> faulty]]
  /\ UNCHANGED <<rows, merged, known, grants>>

\* The metadata of an upload is refused with an HTTPException, which the
\* handler re-raises without a word to the run.
RefuseForm(j) ==
  /\ job[j].step = "look" /\ job[j].kind = "upload"
  /\ Over(j, "refused")
  /\ UNCHANGED <<rows, merged, known, grants, run>>

SkipSame(j) ==
  /\ job[j].step = "look" /\ There(job[j].doc)
  /\ Ends(j, "success", "skipped") /\ UNCHANGED <<rows, merged, known, grants>>

\* _may_replace_document.
MayReplace(c, d) ==
  \E o \in OwnersOf(d) : o = Nobody \/ (c \in known /\ c \in Chiefs \cup {o})

Look(j) ==
  /\ job[j].step = "look"
  /\ There(job[j].doc) => MayReplace(job[j].by, job[j].doc)
  /\ job' = [job EXCEPT ![j].step = "write", ![j].replace = There(job[j].doc)]
  /\ UNCHANGED <<rows, merged, known, grants, run>>

RefuseReplace(j) ==
  LET d == job[j].doc IN
  /\ job[j].step = "look" /\ There(d)
  /\ \E o \in OwnersOf(d) : o # Nobody /\ (o # job[j].by /\ job[j].by \notin Chiefs \cap known)
  /\ IF job[j].kind = "index" THEN Ends(j, "failed", "refused")
     ELSE /\ Over(j, "refused")
          /\ UNCHANGED run
  /\ UNCHANGED <<rows, merged, known, grants>>

\* Encrypted, unsupported, unreadable; a file the OCR mode passes over.
ProcessFails(j) ==
  /\ job[j].step = "write"
  /\ Ends(j, "failed", "failed") \/ (job[j].kind = "upload" /\ Ends(j, "success", "skipped"))
  /\ UNCHANGED <<rows, merged, known, grants>>

\* write_indexed_document: the old chunks go, the new ones have the defaults
\* of the table; chunks another request has put there collide with them.
MutRecorded(j) == Complete(j, "success")
Recorded(j) == run' = run
Write(j, I) ==
  LET d == job[j].doc  old == IF job[j].replace THEN NoRows ELSE rows[d] IN
  /\ job[j].step = "write" /\ DOMAIN old = {}
  /\ rows' = [rows EXCEPT ![d] = NewChunks(I)] /\ merged' = merged \ {d}
  /\ Step(j, "own") /\ Recorded(j)
  /\ UNCHANGED <<known, grants>>

\* The write fails: what it replaced is put back from a backup that has
\* neither owner nor visibility.
WriteFails(j) ==
  LET d == job[j].doc IN
  /\ job[j].step = "write"
  /\ rows' = IF job[j].replace THEN [rows EXCEPT ![d] = NewChunks(DOMAIN @)]
             ELSE [rows EXCEPT ![d] = NoRows]
  /\ merged' = merged \ {d}
  /\ Ends(j, "failed", "failed") /\ UNCHANGED <<known, grants>>

\* _assign_owner_if_authenticated: best effort.
AssignOwner(j) ==
  /\ job[j].step = "own"
  /\ \/ /\ job[j].by \in known
        /\ rows' = [rows EXCEPT ![job[j].doc] =
                      [i \in DOMAIN @ |-> [@[i] EXCEPT !.owner = job[j].by]]]
     \/ (job[j].by \notin known \/ job[j].faulty) /\ rows' = rows
  /\ Ends(j, "success", "indexed") /\ UNCHANGED <<merged, known, grants>>

JobCrashes(j) ==
  /\ job[j] # NoJobYet /\ job[j].step # "done"
  /\ Over(j, "crashed")
  /\ UNCHANGED <<rows, merged, known, grants, run>>

Index(j) ==
  \/ \E c \in Persons \cup {Anyone}, d \in Docs, kind \in {"index", "upload"} :
       Begin(j, kind, c, d)
  \/ /\ job[j] # NoJobYet
     /\ \/ RefuseForm(j) \/ SkipSame(j) \/ Look(j) \/ RefuseReplace(j) \/ ProcessFails(j)
        \/ \E I \in Indices : Write(j, I)
        \/ WriteFails(j) \/ AssignOwner(j) \/ JobCrashes(j)

VisibilityNext ==
  \/ \E d \in Docs, v \in {"shared", "private"} :
       \E c \in Persons : SetVisibility(c, d, v) \/ SetBoth(d, c, v) \/ Transfer(d, c)
  \/ \E ds \in SUBSET Docs, v \in {"shared", "private"} : BulkSetVisibility(ds, v)
  \/ \E c \in Persons : DeleteCaller(c)
  \/ \E d \in Docs : DeleteRows(d) \/ \E I \in Indices : Restore(d, I)
  \/ \E s \in {SpaceOf[d] : d \in Docs} \cup {"*"} : GrantSpace(s) \/ RevokeSpace(s)
  \/ \E j \in Jobs : Index(j)

VisibilitySpec == VisibilityInit /\ [][VisibilityNext]_visibilityVars

-----------------------------------------------------------------------------
(* A search and a listing show a caller the same documents, grants apart:   *)
(* the three ways to ask agree after any sequence of uploads, restores,     *)
(* changes of owner or visibility and deletions of users.  Excepted are the *)
(* documents to which a restore has added chunks with other columns, where  *)
(* a listing goes by any of the chunks and a search by every one of them    *)
(* (document_visibility.py:48 and 93).                                      *)
ReadersAgree ==
  \A c \in Persons \cup {Anyone} :
    /\ SearchShows(c) \ merged \subseteq ListShows(c)
    /\ (ListShows(c) \ merged) \cap HiddenIds(c) = {}

(* A run says success only of a request that indexed its document or had    *)
(* nothing to do, wherever the process died, and a request that came to its *)
(* end has a finished run unless the database failed it or the upload was   *)
(* refused (indexing_runs.py:66, indexing_api.py:282 and 302).              *)
RunsTellTheTruth ==
  \A j \in Jobs : job[j] # NoJobYet =>
    /\ run[j] = "success" => job[j].did \in {"indexed", "skipped"}
    /\ /\ job[j].step = "done" /\ job[j].did # "crashed" /\ ~job[j].faulty
       /\ ~(job[j].kind = "upload" /\ job[j].did = "refused")
       => run[j] \in {"success", "failed"}

\* The variables have their types.
VisibilityTypeOK ==
  /\ merged \subseteq Docs /\ known \subseteq Persons
  /\ \A d \in Docs : /\ DOMAIN rows[d] \subseteq 1 .. MaxChunks
                    /\ \A i \in DOMAIN rows[d] : /\ rows[d][i] \in Chunk
                                                /\ rows[d][i].owner \in known \cup {Nobody}
  /\ \A j \in Jobs : /\ run[j] \in {"none", "running", "success", "failed"}
                    /\ job[j] \in IndexJobs \cup {NoJobYet}
=============================================================================
