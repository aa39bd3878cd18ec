---------------------------- MODULE ClientUploads ----------------------------
(***************************************************************************)
(* How files of the desktop get to the server: the Upload tab and its      *)
(* worker (upload_tab.py, workers.py), which leaves out what the server    *)
(* already has, and the queue of recently opened files                     *)
(* (source_open_manager.py, recent_activity_tab.py), which reindexes on    *)
(* the UI thread.  Files are edited all the while.                         *)
(***************************************************************************)
EXTENDS Integers, Sequences, FiniteSets, SequencesExt

CONSTANTS Files, MaxEdits,  \* bound: edits of a file
          MaxRecent,        \* max_entries
          MaxUploads,       \* bound: files the user has uploaded or reindexed
          MaxLosses,        \* bound: failed requests, deletions by other clients
          NoFile            \* no file; not on the server

ASSUME ClientUploadsAssumption ==
  MaxEdits \in Nat /\ MaxRecent \in Nat \ {0} /\ MaxUploads \in Nat /\ MaxLosses \in Nat

VARIABLES disk,      \* the edition of each file
          server,    \* what the server has of each: an edition and a document type
          chosen,    \* selected_files
          upload,    \* the UploadWorker: what is left, where it is with a file
          recent,    \* _recent_entries, newest first
          reindex,   \* process_queue or trigger_reindex_path at work
          losses, uploads

uploadVars == <<disk, server, chosen, upload, recent, reindex, losses, uploads>>

DocTypes == {"none", "report"}
NoRow == [edition |-> -1, type |-> "none"]     \* a document the server does not have
Quiet == [at |-> "idle", left |-> {}, file |-> NoFile, remote |-> NoRow, sent |-> -1,
          force |-> FALSE, type |-> "none", cancelled |-> FALSE,
          begun |-> [f \in Files |-> 0], done |-> {}]
NoReindex == [at |-> "idle", left |-> {}, file |-> NoFile, type |-> "none", sent |-> -1]

UploadInit ==
  /\ disk = [f \in Files |-> 0] /\ server = [f \in Files |-> NoRow]
  /\ chosen = {} /\ upload = Quiet /\ recent = <<>> /\ reindex = NoReindex
  /\ losses = 0 /\ uploads = 0

Loss == losses < MaxLosses /\ losses' = losses + 1
NoLoss == UNCHANGED losses
Starts(n) == uploads + n <= MaxUploads /\ uploads' = uploads + n

\* Outside the client.
EditFile ==
  /\ \E f \in Files : disk[f] < MaxEdits /\ disk' = [disk EXCEPT ![f] = @ + 1]
  /\ UNCHANGED <<server, chosen, upload, recent, reindex, losses, uploads>>
DeletedElsewhere ==
  /\ Loss /\ \E f \in Files : server[f] # NoRow /\ server' = [server EXCEPT ![f] = NoRow]
  /\ UNCHANGED <<disk, chosen, upload, recent, reindex, uploads>>

-----------------------------------------------------------------------------
\* The Upload tab.

Worker(u) == upload' = u /\ UNCHANGED <<disk, chosen, recent, reindex, uploads>>

\* select_files, select_folder, then upload_file.
SelectFiles ==
  /\ upload.at = "idle" /\ reindex.at = "idle"
  /\ chosen = {} /\ \E S \in (SUBSET Files) \ {{}} : chosen' = S
  /\ UNCHANGED <<disk, server, upload, recent, reindex, losses, uploads>>

UploadFile ==
  /\ upload.at = "idle" /\ reindex.at = "idle" /\ chosen # {}
  /\ \E force \in BOOLEAN, type \in DocTypes :
       upload' = [Quiet EXCEPT !.at = "next", !.left = chosen, !.force = force,
                               !.type = type, !.begun = disk]
  /\ Starts(Cardinality(chosen))
  /\ UNCHANGED <<disk, server, chosen, recent, reindex, losses>>

CancelUpload ==
  /\ upload.at # "idle" /\ reindex.at = "idle" /\ ~upload.cancelled
  /\ Worker([upload EXCEPT !.cancelled = TRUE]) /\ UNCHANGED <<server, losses>>

-----------------------------------------------------------------------------
\* UploadWorker.run: one file after another; a failure is of one file only.

Reported(f, ok) ==
  [upload EXCEPT !.at = "next", !.file = NoFile, !.remote = NoRow, !.sent = -1,
                 !.done = IF ok THEN @ \cup {f} ELSE @]
Fails == Loss /\ Worker(Reported(upload.file, FALSE)) /\ UNCHANGED server

\* The file is read as the request begins.
Sends(f) == [upload EXCEPT !.at = "send", !.file = f, !.sent = disk[f]]

\* The metadata of the document, unless a reindex is forced anyway.
TakeNext ==
  /\ upload.at = "next" /\ upload.left # {} /\ ~upload.cancelled
  /\ \E f \in upload.left :
     LET u == [upload EXCEPT !.left = @ \ {f}, !.file = f] IN
     IF upload.force THEN Worker([u EXCEPT !.at = "send", !.sent = disk[f]]) /\ NoLoss
     ELSE \/ Worker([u EXCEPT !.at = "hash", !.remote = server[f]]) /\ NoLoss
          \/ Worker([u EXCEPT !.at = "next", !.file = NoFile]) /\ Loss
  /\ UNCHANGED server

\* Mutant: a document of the wanted type is taken for unchanged.
MutUnchanged(f) ==
  upload.remote # NoRow /\ (upload.type = "none" \/ upload.remote.type = upload.type)

\* The hash of the file and, if one was asked for, the type.
Unchanged(f) ==
  /\ upload.remote.edition = disk[f]
  /\ upload.type = "none" \/ upload.remote.type = upload.type

CompareHash ==
  /\ upload.at = "hash"
  /\ Worker(IF Unchanged(upload.file) THEN Reported(upload.file, TRUE) ELSE Sends(upload.file))
  /\ UNCHANGED <<server, losses>>

\* POST /upload-and-index replaces the document; without force it skips the same
\* content, whatever its type.
Stored(f, edition, type, force) ==
  server' = IF ~force /\ server[f].edition = edition THEN server
            ELSE [server EXCEPT ![f] = [edition |-> edition, type |-> type]]

\* The answer may be lost, and so may the request.
FinishFile ==
  /\ upload.at = "send"
  /\ LET Stores == Stored(upload.file, upload.sent, upload.type,
                          upload.force \/ upload.remote # NoRow) IN
     \/ Stores /\ NoLoss /\ Worker(Reported(upload.file, TRUE))
     \/ Stores /\ Loss /\ Worker(Reported(upload.file, FALSE))
     \/ Fails

\* on_all_finished: the selection is forgotten, failed files with it.
AllFinished ==
  /\ upload.at = "next" /\ (upload.left = {} \/ upload.cancelled) /\ reindex.at = "idle"
  /\ upload' = Quiet /\ chosen' = {}
  /\ UNCHANGED <<disk, server, recent, reindex, losses, uploads>>

-----------------------------------------------------------------------------
\* The recent files.

Entries == {recent[i] : i \in DOMAIN recent}
EntryOf(f) == CHOOSE e \in Entries : e.path = f
Listed(f) == \E e \in Entries : e.path = f
Without(f) == RemoveAt(recent, CHOOSE i \in DOMAIN recent : recent[i].path = f)

\* _track_recent: to the front; a new entry may push out the oldest, queued or not.
Tracked(f) ==
  IF Listed(f) THEN <<EntryOf(f)>> \o Without(f)
  ELSE SubSeq(<<[path |-> f, queued |-> FALSE]>> \o recent, 1,
              IF Len(recent) < MaxRecent THEN Len(recent) + 1 ELSE MaxRecent)

Queued(r, queued) == [r EXCEPT ![1].queued = queued]

Panel(r) ==
  /\ reindex.at = "idle" /\ recent' = r
  /\ UNCHANGED <<disk, server, chosen, upload, reindex, losses, uploads>>

\* open_path, by itself, from the Recent tab; queue_entry.
OpenPath == \E f \in Files :
  \/ Panel(Queued(Tracked(f), TRUE))
  \/ Panel(Tracked(f))
QueueEntry == \E e \in Entries :
  Panel(Queued(Tracked(e.path), ~e.queued))
RemoveEntry == \E e \in Entries : Panel(Without(e.path))
ClearQueue ==
  (\E e \in Entries : e.queued)
    /\ Panel([i \in DOMAIN recent |-> [recent[i] EXCEPT !.queued = FALSE]])
ClearList == recent # <<>> /\ Panel(<<>>)

\* process_queue, trigger_reindex_path: the UI thread does nothing else.
Reindexer(r) == reindex' = r /\ UNCHANGED <<disk, chosen, upload>>

ProcessQueue ==
  /\ reindex.at = "idle" /\ \E e \in Entries : e.queued
  /\ Starts(Cardinality({e \in Entries : e.queued}))
  /\ Reindexer([NoReindex EXCEPT !.at = "next",
                                 !.left = {e.path : e \in {x \in Entries : x.queued}}])
  /\ UNCHANGED <<server, recent, losses>>
ReindexNow ==
  /\ reindex.at = "idle" /\ Starts(1)
  /\ \E f \in Files : recent' = Tracked(f)
                      /\ Reindexer([NoReindex EXCEPT !.at = "next", !.left = {f}])
  /\ UNCHANGED <<server, losses>>

\* _reindex_entry: the type the server has is kept, if the server says.
FetchType ==
  /\ reindex.at = "next" /\ reindex.left # {}
  /\ \E f \in reindex.left :
     LET r == [reindex EXCEPT !.at = "send", !.left = @ \ {f}, !.file = f, !.sent = disk[f]] IN
     \/ Reindexer([r EXCEPT !.type = server[f].type]) /\ NoLoss
     \/ Reindexer([r EXCEPT !.type = "none"]) /\ Loss
  /\ UNCHANGED <<server, recent, uploads>>

Marked(f, ok) ==
  [i \in DOMAIN recent |-> IF recent[i].path # f THEN recent[i]
     ELSE [recent[i] EXCEPT !.queued = ~ok]]
FinishReindex ==
  /\ reindex.at = "send" /\ Reindexer([reindex EXCEPT !.at = "next"]) /\ UNCHANGED uploads
  /\ \/ Stored(reindex.file, reindex.sent, reindex.type, TRUE) /\ NoLoss
        /\ recent' = Marked(reindex.file, TRUE)
     \/ Loss /\ recent' = Marked(reindex.file, FALSE)
        /\ (UNCHANGED server \/ Stored(reindex.file, reindex.sent, reindex.type, TRUE))

QueueProcessed ==
  /\ reindex.at = "next" /\ reindex.left = {} /\ Reindexer(NoReindex)
  /\ UNCHANGED <<server, recent, losses, uploads>>

UploadNext ==
  \/ EditFile \/ DeletedElsewhere \/ SelectFiles \/ UploadFile \/ CancelUpload
  \/ TakeNext \/ CompareHash \/ FinishFile \/ AllFinished
  \/ OpenPath \/ QueueEntry \/ RemoveEntry \/ ClearQueue \/ ClearList
  \/ ProcessQueue \/ ReindexNow \/ FetchType \/ FinishReindex \/ QueueProcessed

UploadSpec == UploadInit /\ [][UploadNext]_uploadVars

-----------------------------------------------------------------------------
\* The variables have their types.
UploadTypeOK ==
  /\ disk \in [Files -> 0 .. MaxEdits]
  /\ server \in [Files -> [edition : -1 .. MaxEdits, type : DocTypes]]
  /\ Len(recent) <= MaxRecent /\ Cardinality({e.path : e \in Entries}) = Len(recent)
  /\ upload.done \cap upload.left = {} /\ (upload.at # "idle" => chosen # {})

\* What the client calls done is on the server: a file reported as uploaded or as
\* unchanged is there as it was when the upload began, or later, whatever was
\* edited, reindexed beside the upload and lost in between (workers.py).
DoneIsIndexed ==
  \A f \in upload.done : server[f] = NoRow \/ server[f].edition >= upload.begun[f]
=============================================================================
