--------------------------- MODULE DocumentLocks ---------------------------
(***************************************************************************)
(* document_locks.py: locks on documents that clients take before they     *)
(* index.  A lock is a row with an expiry; the table has a unique index on *)
(* source_uri, so "locks" has at most one row for each document.  An       *)
(* acquisition is a transaction of several statements at READ COMMITTED:   *)
(* what it selected may be gone when it writes.                            *)
(*                                                                         *)
(* The rows under two keys (root_id, relative_path) are left out: no       *)
(* endpoint passes them.                                                   *)
(***************************************************************************)
EXTENDS Integers, FiniteSets

CONSTANTS Clients,      \* client ids
          Uris,         \* documents that may be locked
          TTLs,         \* lengths of a lock a client may ask for
          NoLock,       \* no row
          MaxTime,      \* bound of the clock
          MaxRows       \* bound of the rows ever inserted

ASSUME LockAssumption == /\ TTLs \subseteq Nat
                         /\ MaxTime \in Nat /\ MaxRows \in Nat
                         /\ NoLock \notin [id : Nat, client : Clients, expires : Nat]
                         /\ NoLock \notin [client : Clients, until : Nat]

VARIABLES clock,        \* now()
          locks,        \* document_locks, by source_uri
          issued,       \* rows inserted so far, the source of their ids
          acquiring,    \* the open acquisition of each client
          granted       \* history: until when a client was told it holds a lock

lockVars == <<clock, locks, issued, acquiring, granted>>

Lock == [id : Nat, client : Clients, expires : Nat]
NotAcquiring == [step |-> "idle"]
Acquisition ==
  [step : {"selected"}, uri : Uris, at : Nat, ttl : TTLs,
   existing : Lock \cup {NoLock}]

LockInit ==
  /\ clock = 1
  /\ locks = [u \in Uris |-> NoLock]
  /\ issued = 0
  /\ acquiring = [c \in Clients |-> NotAcquiring]
  /\ granted = [c \in Clients |-> [u \in Uris |-> 0]]

-----------------------------------------------------------------------------
\* A row that "DELETE ... WHERE expires_at < now()" removes.
IsExpired(row, at) == row # NoLock /\ row.expires < at

\* What an acquisition selects after it has deleted an expired row.
Selected(u, at) == IF IsExpired(locks[u], at) THEN NoLock ELSE locks[u]

\* The unique index: another row of this document is there when the insert is
\* made, other than the expired one this transaction has deleted.
Duplicate(a) == locks[a.uri] # NoLock /\ ~IsExpired(locks[a.uri], a.at)

\* A slip: an update by the URI and not by the id.
MutStillThere(a) == locks[a.uri] # NoLock

\* The row an acquisition extends, found by its id.
StillThere(a) == locks[a.uri] # NoLock /\ locks[a.uri].id = a.existing.id

\* The acquisition is over without a lock: another client holds it, or the write
\* failed and everything was rolled back.
GiveUp(c) ==
  /\ acquiring' = [acquiring EXCEPT ![c] = NotAcquiring]
  /\ UNCHANGED <<clock, locks, issued, granted>>

\* The acquisition is committed and its caller is told how long it holds.
Grant(c, row) ==
  LET u == acquiring[c].uri IN
  /\ locks' = [locks EXCEPT ![u] = row]
  /\ granted' = [granted EXCEPT ![c][u] = row.expires]
  /\ acquiring' = [acquiring EXCEPT ![c] = NotAcquiring]
  /\ UNCHANGED clock

\* acquire_lock up to its SELECT; now() is the time of the transaction's begin.
Select(c, u, ttl) ==
  /\ acquiring[c] = NotAcquiring
  /\ acquiring' = [acquiring EXCEPT ![c] =
       [step |-> "selected", uri |-> u, at |-> clock, ttl |-> ttl,
        existing |-> Selected(u, clock)]]
  /\ UNCHANGED <<clock, locks, issued, granted>>

\* The client has a lock already: extend it, unless it is gone.
Extend(c) ==
  LET a == acquiring[c] IN
  /\ a # NotAcquiring /\ a.existing # NoLock
  /\ a.existing.client = c
  /\ IF StillThere(a)
     THEN /\ Grant(c, [locks[a.uri] EXCEPT !.expires = a.at + a.ttl])
          /\ UNCHANGED issued
     ELSE GiveUp(c)

\* Another client holds the lock.
Conflict(c) ==
  /\ acquiring[c] # NotAcquiring /\ acquiring[c].existing # NoLock
  /\ acquiring[c].existing.client # c
  /\ GiveUp(c)

\* There was no lock: insert one, unless another transaction has.
Insert(c) ==
  LET a == acquiring[c] IN
  /\ a # NotAcquiring /\ a.existing = NoLock
  /\ IF Duplicate(a)
     THEN GiveUp(c)
     ELSE /\ issued < MaxRows
          /\ issued' = issued + 1
          /\ Grant(c, [id |-> issued + 1, client |-> c, expires |-> a.at + a.ttl])

\* release_lock: only a row of this client.  The client gives up its claim.
Release(c, u) ==
  /\ acquiring[c] = NotAcquiring
  /\ locks' = IF locks[u] # NoLock /\ locks[u].client = c
              THEN [locks EXCEPT ![u] = NoLock] ELSE locks
  /\ granted' = [granted EXCEPT ![c][u] = 0]
  /\ UNCHANGED <<clock, issued, acquiring>>

\* force_release_lock: an administrator takes the lock from whoever holds it, and
\* answers for it: the claim is void.
ForceRelease(u) ==
  /\ locks[u] # NoLock
  /\ locks' = [locks EXCEPT ![u] = NoLock]
  /\ granted' = [granted EXCEPT ![locks[u].client][u] = 0]
  /\ UNCHANGED <<clock, issued, acquiring>>

\* cleanup_expired_locks.
Cleanup ==
  /\ \E u \in Uris : IsExpired(locks[u], clock)
  /\ locks' = [u \in Uris |-> Selected(u, clock)]
  /\ UNCHANGED <<clock, issued, acquiring, granted>>

LockTick ==
  /\ clock < MaxTime
  /\ clock' = clock + 1
  /\ UNCHANGED <<locks, issued, acquiring, granted>>

LockNext ==
  \/ \E c \in Clients, u \in Uris : \E ttl \in TTLs : Select(c, u, ttl)
  \/ \E c \in Clients : Extend(c) \/ Conflict(c) \/ Insert(c)
  \/ \E c \in Clients, u \in Uris : Release(c, u)
  \/ \E u \in Uris : ForceRelease(u)
  \/ Cleanup
  \/ LockTick

LockSpec == LockInit /\ [][LockNext]_lockVars

-----------------------------------------------------------------------------
\* check_lock: the lock a query shows.
Shown(u) == IF locks[u] # NoLock /\ locks[u].expires > clock THEN locks[u] ELSE NoLock

\* A client that was told it holds a lock, and whose time is not over, holds it:
\* the table shows its lock to everybody, so no other client is told the same,
\* whatever acquisitions, releases and clean-ups ran between the statements of
\* an acquisition.
GrantIsBacked ==
  \A c \in Clients, u \in Uris :
    granted[c][u] > clock => Shown(u) # NoLock /\ Shown(u).client = c

\* Who holds each document, for those who look: the rows that check_lock shows.  And what
\* the clients were told, as long as it lasts.
Holder ==
  [u \in Uris |-> IF Shown(u) = NoLock THEN NoLock
                  ELSE [client |-> Shown(u).client, until |-> Shown(u).expires]]

Told == [c \in Clients |-> [u \in Uris |-> IF granted[c][u] > clock THEN granted[c][u] ELSE 0]]

Service == INSTANCE ExclusiveLocks
  WITH NoHolder <- NoLock, now <- clock, holder <- Holder, told <- Told

\* An acquisition acts on what it selected a while ago, deletes what has expired at its
\* own time and extends by id; yet it never takes a document from its holder, whatever
\* came between: only its release, an administrator or the time ends a hold, and a client
\* is told that it holds what the table shows it to (acquire_lock, release_lock,
\* cleanup_expired_locks).
ImplementsExclusiveLocks == Service!Spec

\* The types of the variables.
LockTypeOK ==
  /\ clock \in Nat /\ issued \in Nat
  /\ locks \in [Uris -> Lock \cup {NoLock}]
  /\ acquiring \in [Clients -> Acquisition \cup {NotAcquiring}]
  /\ granted \in [Clients -> [Uris -> Nat]]

=============================================================================
