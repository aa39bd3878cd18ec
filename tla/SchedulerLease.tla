--------------------------- MODULE SchedulerLease ---------------------------
(***************************************************************************)
(* server_scheduler.py: which of several API replicas runs the scheduler.  *)
(* The lease is a session-level advisory lock of PostgreSQL, taken on a    *)
(* connection of the replica's pool that goes back to the pool at once.    *)
(*                                                                         *)
(* The pool (database.py) hands out an idle connection or opens one, up to *)
(* Capacity; psycopg2 keeps at most MinConn idle ones and closes the       *)
(* others when they come back.  A closed connection loses its locks.       *)
(* Connections lost to the network are not modelled.                       *)
(***************************************************************************)
EXTENDS Integers, FiniteSets

CONSTANTS Replicas,     \* API processes that share the database
          Capacity,     \* pool_size + max_overflow
          MinConn,      \* minconn of the psycopg2 pool: 1 in the code
          NoConn,       \* no connection
          MaxRequests,  \* bound: requests beside the scheduler, per replica
          MaxStarts     \* bound: starts of a replica

ASSUME LeaseAssumption == /\ Capacity \in Nat \ {0} /\ MinConn \in Nat \ {0}
                          /\ MaxRequests \in Nat /\ MaxStarts \in Nat
                          /\ NoConn \notin Replicas \X (1..Capacity)

VARIABLES idle,         \* connections waiting in the pool of each replica
          busy,         \* connections other requests of the replica use
          advisory,     \* session that has the advisory lock, and how often
          task,         \* step of the scheduler task
          lent,         \* connection the scheduler's thread is using
          got,          \* what pg_try_advisory_lock returned to that thread
          held,         \* _lease_held
          orphan,       \* a scan thread goes on though its task was cancelled
          requests,     \* requests made so far
          starts        \* starts made so far

leaseVars ==
  <<idle, busy, advisory, task, lent, got, held, orphan, requests, starts>>

Conns(r) == {r} \X (1..Capacity)
OpenConns(r) == idle[r] \cup busy[r] \cup (IF lent[r] = NoConn THEN {} ELSE {lent[r]})
Free == [session |-> NoConn, depth |-> 0]

\* Steps of the task: "off" no process, "loop" at the head of the loop, "trying"
\* the thread of an acquisition, "scan" the scans of one round, "stopping" after
\* the cancellation, "releasing" the thread of the release, "closed" the pool is
\* closed and the process is about to end.
Steps == {"off", "loop", "trying", "scan", "stopping", "releasing", "closed"}

LeaseInit ==
  /\ idle = [r \in Replicas |-> {}]
  /\ busy = [r \in Replicas |-> {}]
  /\ advisory = Free
  /\ task = [r \in Replicas |-> "off"]
  /\ lent = [r \in Replicas |-> NoConn]
  /\ got = [r \in Replicas |-> FALSE]
  /\ held = [r \in Replicas |-> FALSE]
  /\ orphan = [r \in Replicas |-> FALSE]
  /\ requests = [r \in Replicas |-> 0]
  /\ starts = [r \in Replicas |-> 0]

-----------------------------------------------------------------------------
\* getconn: an idle connection if there is one, else a new one, if the
\* semaphore has a slot.
Available(r) ==
  IF idle[r] # {} THEN idle[r]
  ELSE IF Cardinality(OpenConns(r)) < Capacity
       THEN {CHOOSE c \in Conns(r) : c \notin OpenConns(r)}
       ELSE {}

\* putconn: kept if there are fewer than MinConn idle ones, else closed.
Kept(r) == Cardinality(idle[r]) < MinConn
PutBack(r, c) == IF Kept(r) THEN idle[r] \cup {c} ELSE idle[r]

\* The advisory lock after the sessions of C have ended.
Without(C) == IF advisory.session \in C THEN Free ELSE advisory
AfterPut(r, c) == IF Kept(r) THEN advisory ELSE Without({c})

\* Another request of the replica takes a connection.
Borrow(r) ==
  /\ task[r] \notin {"off", "closed"}
  /\ requests[r] < MaxRequests
  /\ \E c \in Available(r) :
       /\ idle' = [idle EXCEPT ![r] = @ \ {c}]
       /\ busy' = [busy EXCEPT ![r] = @ \cup {c}]
  /\ requests' = [requests EXCEPT ![r] = @ + 1]
  /\ UNCHANGED <<advisory, task, lent, got, held, orphan, starts>>

\* It gives the connection back.
GiveBack(r) ==
  \E c \in busy[r] :
    /\ busy' = [busy EXCEPT ![r] = @ \ {c}]
    /\ idle' = [idle EXCEPT ![r] = PutBack(r, c)]
    /\ advisory' = AfterPut(r, c)
    /\ UNCHANGED <<task, lent, got, held, orphan, requests, starts>>

-----------------------------------------------------------------------------
\* start(), after the services of the new process have been initialised.
StartReplica(r) ==
  /\ task[r] = "off" /\ ~orphan[r]
  /\ starts[r] < MaxStarts
  /\ starts' = [starts EXCEPT ![r] = @ + 1]
  /\ task' = [task EXCEPT ![r] = "loop"]
  /\ UNCHANGED <<idle, busy, advisory, lent, got, held, orphan, requests>>

\* The SELECT of _sync_try_acquire_lease.  A session may take its own lock again.
TryLock(r) ==
  /\ task[r] = "loop" /\ ~held[r]
  /\ \E c \in Available(r) :
       LET ok == advisory.session \in {NoConn, c} IN
       /\ idle' = [idle EXCEPT ![r] = @ \ {c}]
       /\ lent' = [lent EXCEPT ![r] = c]
       /\ got' = [got EXCEPT ![r] = ok]
       /\ advisory' = IF ok THEN [session |-> c, depth |-> advisory.depth + 1]
                      ELSE advisory
  /\ task' = [task EXCEPT ![r] = "trying"]
  /\ UNCHANGED <<busy, held, orphan, requests, starts>>

\* The thread's connection goes back to the pool.
PutLent(r) ==
  /\ idle' = [idle EXCEPT ![r] = PutBack(r, lent[r])]
  /\ advisory' = AfterPut(r, lent[r])
  /\ lent' = [lent EXCEPT ![r] = NoConn]

\* A slip: a refused lock is taken for a granted one.
MutBelieve(r) == TRUE

\* _try_acquire_lease returns to the loop, which believes it.
Believe(r) == got[r]
EndTry(r) ==
  /\ task[r] = "trying"
  /\ PutLent(r)
  /\ held' = [held EXCEPT ![r] = Believe(r)]
  /\ got' = [got EXCEPT ![r] = FALSE]
  /\ task' = [task EXCEPT ![r] = "loop"]
  /\ UNCHANGED <<busy, orphan, requests, starts>>

\* _run_pending_scans and the purge of one round of the loop.
ScanRound(r) ==
  /\ task[r] = "loop" /\ held[r]
  /\ task' = [task EXCEPT ![r] = "scan"]
  /\ UNCHANGED <<idle, busy, advisory, lent, got, held, orphan, requests, starts>>

EndRound(r) ==
  /\ task[r] = "scan"
  /\ task' = [task EXCEPT ![r] = "loop"]
  /\ UNCHANGED <<idle, busy, advisory, lent, got, held, orphan, requests, starts>>

\* stop() cancels the task.  A thread cannot be cancelled: a scan goes on, and an
\* acquisition that was under way may leave the lock behind, unknown to anyone.
StopReplica(r) ==
  /\ task[r] \in {"loop", "trying", "scan"}
  /\ task' = [task EXCEPT ![r] = "stopping"]
  /\ orphan' = [orphan EXCEPT ![r] = task[r] = "scan"]
  /\ UNCHANGED <<idle, busy, advisory, lent, got, held, requests, starts>>

\* The thread of the cancelled acquisition puts its connection back.
EndCancelledTry(r) ==
  /\ task[r] = "stopping" /\ lent[r] # NoConn
  /\ PutLent(r)
  /\ got' = [got EXCEPT ![r] = FALSE]
  /\ UNCHANGED <<busy, task, held, orphan, requests, starts>>

\* The pg_advisory_unlock of _release_lease, on whatever connection the pool
\* gives: only the session that has the lock can give it up.
Unlock(r) ==
  /\ task[r] = "stopping" /\ held[r] /\ lent[r] = NoConn
  /\ \E c \in Available(r) :
       /\ idle' = [idle EXCEPT ![r] = @ \ {c}]
       /\ lent' = [lent EXCEPT ![r] = c]
       /\ advisory' = IF advisory.session # c THEN advisory
                      ELSE IF advisory.depth = 1 THEN Free
                      ELSE [advisory EXCEPT !.depth = @ - 1]
  /\ task' = [task EXCEPT ![r] = "releasing"]
  /\ UNCHANGED <<busy, got, held, orphan, requests, starts>>

EndUnlock(r) ==
  /\ task[r] = "releasing"
  /\ PutLent(r)
  /\ held' = [held EXCEPT ![r] = FALSE]
  /\ task' = [task EXCEPT ![r] = "stopping"]
  /\ UNCHANGED <<busy, got, orphan, requests, starts>>

\* A slip: the pool is left open when the server shuts down, and its sessions
\* outlive the process.
MutClosePool(r) ==
  /\ task[r] = "stopping" /\ (held[r] => Available(r) = {})
  /\ task' = [task EXCEPT ![r] = "closed"]
  /\ held' = [held EXCEPT ![r] = FALSE]
  /\ UNCHANGED <<idle, busy, advisory, lent, got, orphan, requests, starts>>

\* close_db_manager at the end of the lifespan closes every connection, also
\* under a scan that still runs.  A release that finds no connection is given up.
ClosePool(r) ==
  /\ task[r] = "stopping"
  /\ held[r] => Available(r) = {}
  /\ advisory' = Without(Conns(r))
  /\ idle' = [idle EXCEPT ![r] = {}]
  /\ busy' = [busy EXCEPT ![r] = {}]
  /\ lent' = [lent EXCEPT ![r] = NoConn]
  /\ got' = [got EXCEPT ![r] = FALSE]
  /\ held' = [held EXCEPT ![r] = FALSE]
  /\ task' = [task EXCEPT ![r] = "closed"]
  /\ UNCHANGED <<orphan, requests, starts>>

\* The process waits for its threads and ends.
EndThread(r) ==
  /\ orphan[r]
  /\ orphan' = [orphan EXCEPT ![r] = FALSE]
  /\ UNCHANGED <<idle, busy, advisory, task, lent, got, held, requests, starts>>

Exit(r) ==
  /\ task[r] = "closed" /\ ~orphan[r]
  /\ task' = [task EXCEPT ![r] = "off"]
  /\ UNCHANGED <<idle, busy, advisory, lent, got, held, orphan, requests, starts>>

\* The process is killed in any step; the server ends its sessions.
Kill(r) ==
  /\ task[r] # "off"
  /\ advisory' = Without(Conns(r))
  /\ idle' = [idle EXCEPT ![r] = {}]
  /\ busy' = [busy EXCEPT ![r] = {}]
  /\ lent' = [lent EXCEPT ![r] = NoConn]
  /\ got' = [got EXCEPT ![r] = FALSE]
  /\ held' = [held EXCEPT ![r] = FALSE]
  /\ orphan' = [orphan EXCEPT ![r] = FALSE]
  /\ task' = [task EXCEPT ![r] = "off"]
  /\ UNCHANGED <<requests, starts>>

\* The steps a replica takes by itself.
Progress(r) ==
  \/ TryLock(r) \/ EndTry(r) \/ ScanRound(r) \/ EndRound(r)
  \/ EndCancelledTry(r) \/ Unlock(r) \/ EndUnlock(r)
  \/ ClosePool(r) \/ EndThread(r) \/ Exit(r)

LeaseStep(r) ==
  \/ Borrow(r) \/ GiveBack(r) \/ StartReplica(r) \/ StopReplica(r) \/ Kill(r) \/ Progress(r)

LeaseNext == \E r \in Replicas : LeaseStep(r)

LeaseFairness ==
  \A r \in Replicas : WF_leaseVars(Progress(r)) /\ WF_leaseVars(GiveBack(r))

LeaseSpec == LeaseInit /\ [][LeaseNext]_leaseVars

-----------------------------------------------------------------------------
\* The task runs and believes that it has the lease.
Leads(r) == held[r] /\ task[r] \in {"loop", "scan"}

\* At most one replica runs the scheduler: the advisory lock guarantees a
\* singleton across the API replicas, as the head of server_scheduler.py says.
OneScheduler ==
  \A r, s \in Replicas : Leads(r) /\ Leads(s) => r = s

\* A replica that runs the scheduler has the advisory lock, on one of its open
\* connections, so nobody else can get it.  This needs a pool that closes no
\* connection that comes back, Capacity <= MinConn.
LeaseIsLocked ==
  \A r \in Replicas : Leads(r) => advisory.session \in OpenConns(r)

Alone(r) ==
  /\ task[r] \in {"loop", "trying", "scan"}
  /\ \A s \in Replicas \ {r} : task[s] = "off"

\* If one replica goes on running, and the others are down for good, it gets the
\* lease, whatever the others left behind.
Takeover == \A r \in Replicas : <>[]Alone(r) => <>[]held[r]

\* The variables have their types.
LeaseTypeOK ==
  /\ \A r \in Replicas :
       /\ idle[r] \subseteq Conns(r) /\ busy[r] \subseteq Conns(r)
       /\ lent[r] \in Conns(r) \cup {NoConn}
  /\ advisory.session \in (UNION {Conns(r) : r \in Replicas}) \cup {NoConn}
  /\ advisory.depth \in Nat
  /\ advisory.session = NoConn <=> advisory.depth = 0
  /\ task \in [Replicas -> Steps]
  /\ got \in [Replicas -> BOOLEAN]
  /\ held \in [Replicas -> BOOLEAN] /\ orphan \in [Replicas -> BOOLEAN]
  /\ requests \in [Replicas -> Nat] /\ starts \in [Replicas -> Nat]

=============================================================================
