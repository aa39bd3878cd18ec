---------------------------- MODULE SerialStore ----------------------------
(***************************************************************************)
(* DualStore with one writer at a time, seen as a DocumentStore.  The      *)
(* content of the store is what PostgreSQL holds, except while a request   *)
(* is in hand: then it is what the request found, since no client is told  *)
(* anything else.                                                          *)
(***************************************************************************)
EXTENDS DualStore

\* One writer, which no scan, purge or crash disturbs, and whose rollbacks
\* PostgreSQL carries out.
Serial ==
    /\ Scanner = {} /\ "purge" \notin Ops
    /\ MaxCrashes = 0 /\ ~Analyze /\ ~RollbackFaults

Served == job[Loop].op # "none"

Seen == IF Served THEN ack ELSE pg

Asked == [op |-> job[Loop].op, docs |-> job[Loop].docs, pieces |-> job[Loop].ver]

Abstract == INSTANCE DocumentStore
    WITH Edition <- Version, Pieces <- [v \in Version |-> Chunks(v)],
         content <- Seen, request <- Asked

\* One writer at a time keeps the promise of DocumentStore, whatever the stores
\* refuse: a replacement that fails in any of its steps looks as if it had never
\* begun (write_indexed_document, bulk_delete_documents, restore_documents).
ImplementsDocumentStore == Abstract!Spec
============================================================================
