--------------------------- MODULE ConnectionPool ---------------------------
(***************************************************************************)
(* The pool of database connections (database.py: DatabaseManager), shared *)
(* by the start-up thread, the event loop and the executor's threads.      *)
(*                                                                         *)
(* get_db_manager publishes the manager before it is initialised, and      *)
(* nothing serialises initialize: threads that meet there make a pool and  *)
(* a semaphore each, and the last one stays.  At shutdown the manager is   *)
(* closed under whoever still uses it.                                     *)
(***************************************************************************)
EXTENDS Integers, Sequences, FiniteSets

CONSTANTS Threads,
          PoolCapacity,  \* pool_size + max_overflow
          MaxManagers,   \* bound: managers ever made
          MaxPools,      \* bound: pools ever made
          MaxUses        \* bound: connections asked for

ASSUME PoolAssumption ==
  /\ PoolCapacity \in Nat \ {0} /\ {MaxManagers, MaxPools, MaxUses} \subseteq Nat
  /\ IsFiniteSet(Threads)

VARIABLES global,    \* _db_manager, 0 for None
          manager,   \* the fields of each manager; its semaphore has the pool's number
          outstanding,      \* connections each pool has given out
          slots,     \* value of the semaphore made with each pool
          closed,    \* pools that closeall was called on
          made,      \* pools made so far, and the manager each was made for
          thread,    \* where each thread is, its manager, its connection's pool
          uses

poolVars == <<global, manager, outstanding, slots, closed, made, thread, uses>>

Managers == 1 .. MaxManagers
Pools == 1 .. MaxPools
Blank == [pool |-> 0, semaphore |-> 0, initialized |-> FALSE]
Resting == [step |-> "resting", of |-> 0, acquired |-> FALSE, conn |-> 0]

PoolInit ==
  /\ global = 0 /\ manager = [m \in Managers |-> Blank]
  /\ outstanding = [p \in Pools |-> 0] /\ slots = [p \in Pools |-> PoolCapacity]
  /\ closed = {} /\ made = <<>>
  /\ thread = [t \in Threads |-> Resting] /\ uses = 0

-----------------------------------------------------------------------------
Mgr(t) == manager[thread[t].of]
GoTo(t, step) == thread' = [thread EXCEPT ![t].step = step]

\* get_db_manager, then get_connection's and initialize's look at _initialized.
AskConnection(t) ==
  /\ thread[t].step = "resting" /\ uses < MaxUses /\ uses' = uses + 1
  /\ \E m \in (IF global = 0 THEN {i \in Managers : manager[i] = Blank
                                      /\ \A j \in Threads : thread[j].of # i}
               ELSE {global}) :
       /\ global' = m
       /\ thread' = [thread EXCEPT ![t] =
            [Resting EXCEPT !.of = m,
                            !.step = IF manager[m].initialized THEN "slot" ELSE "connecting"]]
  /\ UNCHANGED <<manager, outstanding, slots, closed, made>>

\* The database is reached and the fields are set; or it is not, and the manager
\* stays as it is for the next caller to initialise.
Connect(t) ==
  /\ thread[t].step = "connecting" /\ Len(made) < MaxPools
  /\ LET p == Len(made) + 1
     IN /\ made' = Append(made, thread[t].of)
        /\ manager' = [manager EXCEPT ![thread[t].of] =
             [pool |-> p, semaphore |-> p, initialized |-> TRUE]]
  /\ GoTo(t, "slot")
  /\ UNCHANGED <<global, outstanding, slots, closed, uses>>

Unreachable(t) ==
  /\ thread[t].step = "connecting"
  /\ thread' = [thread EXCEPT ![t] = Resting]
  /\ UNCHANGED <<global, manager, outstanding, slots, closed, made, uses>>

-----------------------------------------------------------------------------
\* _acquire_pool_slot: a slot, a timeout while there is none, or no semaphore.
Acquire(t) ==
  /\ thread[t].step = "slot"
  /\ LET s == Mgr(t).semaphore
     IN IF s # 0 /\ slots[s] > 0
        THEN /\ slots' = [slots EXCEPT ![s] = @ - 1]
             /\ thread' = [thread EXCEPT ![t].step = "lend", ![t].acquired = TRUE]
        ELSE GoTo(t, "finally") /\ UNCHANGED slots
  /\ UNCHANGED <<global, manager, outstanding, closed, made, uses>>

Lendable(p) == p \notin closed /\ outstanding[p] < PoolCapacity

\* getconn of the manager's pool, which raises when it is closed or exhausted, or
\* when the connection cannot be made.
Lend(t) ==
  /\ thread[t].step = "lend"
  /\ LET p == Mgr(t).pool
     IN \/ /\ Lendable(p)
           /\ outstanding' = [outstanding EXCEPT ![p] = @ + 1]
           /\ thread' = [thread EXCEPT ![t].step = "using", ![t].conn = p]
        \/ GoTo(t, "finally") /\ UNCHANGED outstanding
  /\ UNCHANGED <<global, manager, slots, closed, made, uses>>

\* The body, with or without an error, is over: putconn to the manager's pool, which
\* raises when that pool is closed or is not the connection's, and then the slot is
\* not released.
PutConn(t) ==
  /\ thread[t].step = "using"
  /\ LET p == Mgr(t).pool
     IN IF p = thread[t].conn /\ p \notin closed
        THEN outstanding' = [outstanding EXCEPT ![p] = @ - 1] /\ GoTo(t, "finally")
        ELSE thread' = [thread EXCEPT ![t] = Resting] /\ UNCHANGED outstanding
  /\ UNCHANGED <<global, manager, slots, closed, made, uses>>

\* A slip for QuietPoolIsWhole: the slot is released with the connection only.
MutReleases(t) == thread[t].conn # 0
Releases(t) == thread[t].acquired

\* _release_pool_slot: the semaphore is bounded, an error is only logged.
HandBack(t) ==
  /\ thread[t].step = "finally"
  /\ LET s == Mgr(t).semaphore
     IN slots' = IF Releases(t) /\ s # 0 /\ slots[s] < PoolCapacity
                 THEN [slots EXCEPT ![s] = @ + 1] ELSE slots
  /\ thread' = [thread EXCEPT ![t] = Resting]
  /\ UNCHANGED <<global, manager, outstanding, closed, made, uses>>

\* close_db_manager: the pool stays where it is, closed.
CloseManager ==
  /\ global # 0
  /\ global' = 0
  /\ manager' = [manager EXCEPT ![global] =
       IF @.pool = 0 THEN @ ELSE [@ EXCEPT !.semaphore = 0, !.initialized = FALSE]]
  /\ closed' = closed \cup ({manager[global].pool} \ {0})
  /\ UNCHANGED <<outstanding, slots, made, thread, uses>>

PoolNext ==
  \/ CloseManager
  \/ \E t \in Threads :
       AskConnection(t) \/ Connect(t) \/ Unreachable(t) \/ Acquire(t) \/ Lend(t) \/ PutConn(t)
         \/ HandBack(t)

PoolSpec == PoolInit /\ [][PoolNext]_poolVars

-----------------------------------------------------------------------------
\* When nobody uses the pool it has every connection and every slot: neither errors,
\* timeouts, several initialisations at once nor a shutdown leave a slot taken for
\* ever, which in the end would block every request.
QuietPoolIsWhole ==
  \A m \in Managers :
    manager[m].initialized /\ (\A t \in Threads : thread[t].of # m) =>
      slots[manager[m].semaphore] = PoolCapacity /\ outstanding[manager[m].pool] = 0

\* The variables have their types.
PoolTypeOK ==
  /\ global \in 0 .. MaxManagers
  /\ manager \in [Managers -> [pool : 0 .. MaxPools, semaphore : 0 .. MaxPools,
                               initialized : BOOLEAN]]
  /\ outstanding \in [Pools -> 0 .. PoolCapacity] /\ slots \in [Pools -> 0 .. PoolCapacity]
  /\ closed \subseteq Pools /\ made \in Seq(Managers)
  /\ thread \in [Threads -> [step : {"resting", "connecting", "slot", "lend", "using",
                                     "finally"},
                             of : 0 .. MaxManagers, acquired : BOOLEAN,
                             conn : 0 .. MaxPools]]
  /\ uses \in Nat
=============================================================================
