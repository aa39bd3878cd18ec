--------------------------- MODULE DocumentProofs ---------------------------
(***************************************************************************)
(* Proofs about documents: who may change one, what its text is of, and    *)
(* who sees it.                                                            *)
(***************************************************************************)
EXTENDS DocumentLocks, Processing, Visibility, TLAPS

-----------------------------------------------------------------------------
(***************************************************************************)
(* Locks: two clients are never both told that they hold the lock of a     *)
(* document, for any sets of clients and documents and any lengths of      *)
(* locks. An acquisition acts on a row it selected before; what saves it   *)
(* is that ids are never used twice, so that a row found again by its id   *)
(* is still the same client's.                                             *)
(***************************************************************************)

Open(c) == acquiring[c] # NotAcquiring

\* The row an acquisition has selected, if it is there still, is still of the
\* client it was of, and acquisitions began in the past.
RowsKept ==
  \A c \in Clients : Open(c) =>
    /\ acquiring[c].at <= clock
    /\ acquiring[c].existing # NoLock =>
         /\ acquiring[c].existing.id <= issued
         /\ LET lock == locks[acquiring[c].uri]
            IN  lock # NoLock /\ lock.id = acquiring[c].existing.id
                  => lock.client = acquiring[c].existing.client

\* The ids in the table have been issued.
IdsIssued == \A u \in Uris : locks[u] # NoLock => locks[u].id <= issued

\* What a client was told is what the table says, as long as it lasts.
Backed ==
  \A c \in Clients, u \in Uris :
    granted[c][u] > clock =>
      locks[u] # NoLock /\ locks[u].client = c /\ locks[u].expires = granted[c][u]

LockInv == LockTypeOK /\ RowsKept /\ IdsIssued /\ Backed

\* An open acquisition has the fields of one.
LEMMA OpenType ==
  ASSUME LockTypeOK, NEW c \in Clients, Open(c)
  PROVE  /\ acquiring[c] \in Acquisition /\ acquiring[c].uri \in Uris
         /\ acquiring[c].at \in Nat /\ acquiring[c].ttl \in TTLs /\ acquiring[c].ttl \in Nat
         /\ acquiring[c].existing # NoLock => acquiring[c].existing \in Lock
BY LockAssumption DEF LockTypeOK, Open, Acquisition

\* Nobody holds or acquires a lock at the start.
LEMMA LockInitInv == LockInit => LockInv
BY DEF LockInit, LockInv, LockTypeOK, RowsKept, IdsIssued, Backed, Open, NotAcquiring

\* A SELECT: the row it finds is the one in the table, unless it has expired.
LEMMA SelectInv ==
  ASSUME LockInv, NEW c \in Clients, NEW u \in Uris, NEW ttl \in TTLs, Select(c, u, ttl)
  PROVE  LockInv'
<1> DEFINE a == [step |-> "selected", uri |-> u, at |-> clock, ttl |-> ttl,
                 existing |-> Selected(u, clock)]
<1>1. acquiring' = [acquiring EXCEPT ![c] = a] /\ UNCHANGED <<clock, locks, issued, granted>>
  BY DEF Select
<1>2. Selected(u, clock) \in {NoLock, locks[u]} /\ locks[u] \in Lock \cup {NoLock}
  BY DEF Selected, LockInv, LockTypeOK
<1>3. /\ a \in Acquisition /\ a.uri = u /\ a.at = clock
      /\ a.existing # NoLock => a.existing = locks[u]
  BY <1>2, LockAssumption DEF Acquisition, LockInv, LockTypeOK
<1> HIDE DEF a
<1>4. LockTypeOK'
  BY <1>1, <1>3 DEF LockInv, LockTypeOK
<1>5. RowsKept'
  BY <1>1, <1>2, <1>3 DEF LockInv, LockTypeOK, RowsKept, IdsIssued, Open
<1>6. IdsIssued' /\ Backed'
  BY <1>1 DEF LockInv, IdsIssued, Backed
<1> QED BY <1>4, <1>5, <1>6 DEF LockInv

\* An acquisition that ends without a lock changes nothing else.
LEMMA GiveUpInv ==
  ASSUME LockInv, NEW c \in Clients, GiveUp(c)
  PROVE  LockInv'
<1>1. LockTypeOK'
  BY DEF LockInv, LockTypeOK, GiveUp
<1>2. RowsKept'
  BY DEF LockInv, LockTypeOK, RowsKept, GiveUp, Open
<1>3. IdsIssued' /\ Backed'
  BY DEF LockInv, IdsIssued, Backed, GiveUp
<1> QED BY <1>1, <1>2, <1>3 DEF LockInv

\* A grant is sound if nobody else holds the lock and the row it writes is new or
\* has the id and the client of the one it replaces.
LEMMA GrantInv ==
  ASSUME LockInv, NEW c \in Clients, Open(c), NEW lock \in Lock, Grant(c, lock),
         lock.client = c, lock.id <= issued', issued' \in Nat, issued <= issued',
         \A e \in Clients \ {c} : ~(granted[e][acquiring[c].uri] > clock),
         \/ lock.id > issued
         \/ /\ locks[acquiring[c].uri] # NoLock
            /\ lock.id = locks[acquiring[c].uri].id
            /\ lock.client = locks[acquiring[c].uri].client
  PROVE  LockInv'
<1> DEFINE u == acquiring[c].uri
<1>1. /\ locks' = [locks EXCEPT ![u] = lock]
      /\ granted' = [granted EXCEPT ![c][u] = lock.expires]
      /\ acquiring' = [acquiring EXCEPT ![c] = NotAcquiring] /\ clock' = clock
  BY DEF Grant
<1>2. u \in Uris /\ lock.expires \in Nat /\ lock.id \in Nat /\ lock # NoLock
  BY OpenType, LockAssumption DEF LockInv, Lock
<1> HIDE DEF u
<1>3. LockTypeOK'
  BY <1>1, <1>2 DEF LockInv, LockTypeOK
<1>4. RowsKept'
  <2>1. ASSUME NEW e \in Clients, Open(e)'
        PROVE  /\ acquiring'[e] = acquiring[e] /\ Open(e) /\ acquiring[e].at <= clock
               /\ acquiring[e].existing # NoLock =>
                    acquiring[e].existing.id \in Nat /\ acquiring[e].existing.id <= issued
    BY <1>1, <2>1, OpenType DEF LockInv, LockTypeOK, RowsKept, Open, Lock
  <2>2. ASSUME NEW e \in Clients, Open(e)', acquiring[e].existing # NoLock,
               locks'[acquiring[e].uri] # NoLock,
               locks'[acquiring[e].uri].id = acquiring[e].existing.id
        PROVE  locks'[acquiring[e].uri].client = acquiring[e].existing.client
    <3>1. acquiring[e].uri \in Uris /\ issued \in Nat /\ locks \in [Uris -> Lock \cup {NoLock}]
      BY <2>1, <2>2, OpenType DEF LockInv, LockTypeOK
    <3>2. CASE acquiring[e].uri # u
      BY <1>1, <2>1, <2>2, <3>1, <3>2 DEF LockInv, RowsKept
    <3>3. CASE acquiring[e].uri = u /\ lock.id > issued
      BY <1>1, <1>2, <2>1, <2>2, <3>1, <3>3
    <3>4. CASE acquiring[e].uri = u /\ locks[u] # NoLock /\ lock.id = locks[u].id
                 /\ lock.client = locks[u].client
      BY <1>1, <1>2, <2>1, <2>2, <3>1, <3>4 DEF LockInv, RowsKept
    <3> QED BY <3>2, <3>3, <3>4 DEF u
  <2>3. issued \in Nat
    BY DEF LockInv, LockTypeOK
  <2> QED BY <1>1, <2>1, <2>2, <2>3 DEF RowsKept
<1>5. IdsIssued'
  BY <1>1, <1>2 DEF LockInv, LockTypeOK, IdsIssued, Lock
<1>6. Backed'
  BY <1>1, <1>2 DEF LockInv, LockTypeOK, Backed, u
<1> QED BY <1>3, <1>4, <1>5, <1>6 DEF LockInv

\* Extending keeps the row; it is this client's, so it is nobody else's.
LEMMA ExtendInv ==
  ASSUME LockInv, NEW c \in Clients, Extend(c)
  PROVE  LockInv'
<1> DEFINE a == acquiring[c]
           u == a.uri
           lock == [locks[u] EXCEPT !.expires = a.at + a.ttl]
<1>1. Open(c) /\ a.existing # NoLock /\ a.existing.client = c
  BY DEF Extend, Open
<1>2. CASE GiveUp(c)
  BY <1>2, GiveUpInv
<1>3. CASE StillThere(a) /\ Grant(c, lock) /\ UNCHANGED issued
  <2>1. u \in Uris /\ locks[u] \in Lock /\ a.at \in Nat /\ a.ttl \in Nat
    BY <1>1, <1>3, OpenType DEF StillThere, LockInv, LockTypeOK
  <2>2. locks[u] # NoLock /\ locks[u].client = c /\ locks[u].id <= issued
    BY <1>1, <1>3, <2>1 DEF StillThere, LockInv, RowsKept, IdsIssued
  <2>3. lock \in Lock /\ lock.client = c /\ lock.id = locks[u].id /\ lock.client = locks[u].client
    BY <2>1, <2>2 DEF Lock
  <2>4. \A e \in Clients \ {c} : ~(granted[e][u] > clock)
    BY <2>1, <2>2 DEF LockInv, Backed
  <2>5. issued \in Nat /\ issued' = issued
    BY <1>3 DEF LockInv, LockTypeOK
  <2> HIDE DEF lock
  <2> QED BY <1>1, <1>3, <2>2, <2>3, <2>4, <2>5, GrantInv
<1> QED BY <1>2, <1>3 DEF Extend

\* Inserting takes a new id; a row in the way has expired, so nobody holds it.
LEMMA InsertInv ==
  ASSUME LockInv, NEW c \in Clients, Insert(c)
  PROVE  LockInv'
<1> DEFINE a == acquiring[c]
           u == a.uri
           lock == [id |-> issued + 1, client |-> c, expires |-> a.at + a.ttl]
<1>1. Open(c)
  BY DEF Insert, Open
<1>2. CASE GiveUp(c)
  BY <1>2, GiveUpInv
<1>3. CASE ~Duplicate(a) /\ issued' = issued + 1 /\ Grant(c, lock)
  <2>1. u \in Uris /\ a.at \in Nat /\ a.ttl \in Nat /\ issued \in Nat /\ clock \in Nat
    BY <1>1, OpenType DEF LockInv, LockTypeOK
  <2>2. lock \in Lock /\ lock.client = c /\ lock.id = issued + 1
    BY <2>1 DEF Lock
  <2>3. \A e \in Clients \ {c} : ~(granted[e][u] > clock)
    <3>1. locks[u] = NoLock \/ locks[u].expires < a.at
      BY <1>3 DEF Duplicate, IsExpired
    <3>2. a.at <= clock /\ granted \in [Clients -> [Uris -> Nat]]
      BY <1>1 DEF LockInv, RowsKept, LockTypeOK
    <3>3. ASSUME NEW e \in Clients, granted[e][u] > clock PROVE FALSE
      <4>1. locks[u] # NoLock /\ locks[u].expires = granted[e][u]
        BY <2>1, <3>3 DEF LockInv, Backed
      <4> QED BY <2>1, <3>1, <3>2, <3>3, <4>1
    <3> QED BY <3>3
  <2> HIDE DEF lock
  <2> QED BY <1>1, <1>3, <2>1, <2>2, <2>3, GrantInv
<1> QED BY <1>2, <1>3 DEF Insert

\* A release, an expired row or a forced release takes away no lock that its
\* client is still told it holds.
LEMMA ReleaseInv ==
  ASSUME LockInv,
         \/ \E c \in Clients, u \in Uris : Release(c, u)
         \/ \E u \in Uris : ForceRelease(u)
         \/ Cleanup \/ LockTick
  PROVE  LockInv'
<1>1. CASE \E c \in Clients, u \in Uris : Release(c, u)
  <2>1. PICK c \in Clients, u \in Uris : Release(c, u)
    BY <1>1
  <2>2. LockTypeOK'
    BY <2>1 DEF LockInv, LockTypeOK, Release
  <2>3. RowsKept' /\ IdsIssued'
    BY <2>1 DEF LockInv, LockTypeOK, RowsKept, IdsIssued, Release, Open
  <2>4. Backed'
    BY <2>1 DEF LockInv, LockTypeOK, Backed, Release
  <2> QED BY <2>2, <2>3, <2>4 DEF LockInv
<1>2. CASE \E u \in Uris : ForceRelease(u)
  <2>1. PICK u \in Uris : ForceRelease(u)
    BY <1>2
  <2>2. locks[u] \in Lock /\ locks[u].client \in Clients
    BY <2>1 DEF LockInv, LockTypeOK, ForceRelease, Lock
  <2>3. LockTypeOK'
    BY <2>1, <2>2 DEF LockInv, LockTypeOK, ForceRelease
  <2>4. RowsKept' /\ IdsIssued'
    BY <2>1 DEF LockInv, LockTypeOK, RowsKept, IdsIssued, ForceRelease, Open
  <2>5. Backed'
    BY <2>1, <2>2 DEF LockInv, LockTypeOK, Backed, ForceRelease
  <2> QED BY <2>3, <2>4, <2>5 DEF LockInv
<1>3. CASE Cleanup
  <2>1. \A u \in Uris : locks'[u] = Selected(u, clock) /\ locks'[u] \in {NoLock, locks[u]}
    BY <1>3 DEF Cleanup, Selected
  <2>2. LockTypeOK'
    BY <1>3, <2>1 DEF LockInv, LockTypeOK, Cleanup
  <2>3. RowsKept' /\ IdsIssued'
    BY <1>3, <2>1, OpenType DEF LockInv, RowsKept, IdsIssued, Cleanup, Open
  <2>4. Backed'
    BY <1>3, <2>1 DEF LockInv, LockTypeOK, Backed, Cleanup, Selected, IsExpired, Lock
  <2> QED BY <2>2, <2>3, <2>4 DEF LockInv
<1>4. CASE LockTick
  <2>1. LockTypeOK'
    BY <1>4 DEF LockInv, LockTypeOK, LockTick
  <2>2. RowsKept' /\ IdsIssued'
    BY <1>4, OpenType DEF LockInv, LockTypeOK, RowsKept, IdsIssued, LockTick, Open
  <2>3. Backed'
    BY <1>4 DEF LockInv, LockTypeOK, Backed, LockTick
  <2> QED BY <2>1, <2>2, <2>3 DEF LockInv
<1> QED BY <1>1, <1>2, <1>3, <1>4

\* The inductive invariant: what clients were told agrees with the table, and the
\* rows open acquisitions selected are those of the same clients.
THEOREM LockInvHolds == LockSpec => []LockInv
<1>1. LockInv /\ [LockNext]_lockVars => LockInv'
  <2> SUFFICES ASSUME LockInv, [LockNext]_lockVars PROVE LockInv'
    OBVIOUS
  <2>1. ASSUME NEW c \in Clients, NEW u \in Uris, NEW ttl \in TTLs, Select(c, u, ttl)
        PROVE  LockInv'
    BY <2>1, SelectInv
  <2>2. ASSUME NEW c \in Clients, Extend(c) \/ Conflict(c) \/ Insert(c)
        PROVE  LockInv'
    BY <2>2, ExtendInv, InsertInv, GiveUpInv DEF Conflict
  <2>3. CASE UNCHANGED lockVars
    BY <2>3 DEF lockVars, LockInv, LockTypeOK, RowsKept, IdsIssued, Backed, Open
  <2> QED BY <2>1, <2>2, <2>3, ReleaseInv DEF LockNext
<1> QED BY <1>1, LockInitInv, PTL DEF LockSpec

\* A client that was told it holds a lock holds it until its time is over, and no
\* other client is told the same, whatever ran between the statements of an
\* acquisition (acquire_lock, release_lock, cleanup_expired_locks).
THEOREM GrantIsBackedHolds == LockSpec => []GrantIsBacked
<1>1. LockInv => GrantIsBacked
  BY DEF LockInv, Backed, GrantIsBacked, Shown
<1> QED BY <1>1, LockInvHolds, PTL

\* The lock table, the acquisitions under way and what clients were told have
\* their types.
THEOREM LocksTyped == LockSpec => []LockTypeOK
<1>1. LockInv => LockTypeOK
  BY DEF LockInv
<1> QED BY <1>1, LockInvHolds, PTL

-----------------------------------------------------------------------------
(***************************************************************************)
(* The locks implement ExclusiveLocks: the table, the ids, the expired     *)
(* rows and the open acquisitions are how; who holds a document, and until *)
(* when, is what.                                                          *)
(***************************************************************************)

\* What a row of the table makes of the holder of its document.
Held(lock, at) ==
  IF lock # NoLock /\ lock.expires > at THEN [client |-> lock.client, until |-> lock.expires]
  ELSE NoLock

\* What is left of what a client was told.
Claim(g, at) == IF g > at THEN g ELSE 0

\* The holders are those of the rows, and the claims what is left of what was granted.
LEMMA HolderIs ==
  /\ Holder = [u \in Uris |-> Held(locks[u], clock)]
  /\ Told = [c \in Clients |-> [u \in Uris |-> Claim(granted[c][u], clock)]]
BY DEF Holder, Shown, Held, Told, Claim

\* A document has a holder exactly if its row is shown.
LEMMA HolderShown ==
  ASSUME LockTypeOK, NEW u \in Uris
  PROVE  /\ Holder[u] = NoLock <=> ~(locks[u] # NoLock /\ locks[u].expires > clock)
         /\ Holder[u] # NoLock => Holder[u].client = locks[u].client
<1>1. locks[u] # NoLock =>
        [client |-> locks[u].client, until |-> locks[u].expires] \in [client : Clients, until : Nat]
  BY DEF LockTypeOK, Lock
<1> QED BY <1>1, HolderIs, LockAssumption DEF Held

\* Who claims a document holds it.
LEMMA ClaimsAreHeld ==
  ASSUME LockInv, NEW c \in Clients, NEW u \in Uris, Told[c][u] # 0
  PROVE  Holder[u] # NoLock /\ Holder[u].client = c
<1>1. granted[c][u] > clock
  BY HolderIs DEF Claim
<1>2. /\ locks[u] # NoLock /\ locks[u].client = c /\ locks[u].expires > clock /\ LockTypeOK
  BY <1>1 DEF LockInv, Backed
<1> QED BY <1>2, HolderShown

\* A change of one row changes the holder of one document, and a change of what one
\* client was told of it one claim.
LEMMA RowReplaced ==
  ASSUME LockTypeOK, NEW u \in Uris, NEW lock, clock' = clock,
         locks' = [locks EXCEPT ![u] = lock]
  PROVE  Holder' = [Holder EXCEPT ![u] = Held(lock, clock)]
<1>1. Holder' = [v \in Uris |-> Held(locks'[v], clock)]
  BY DEF Holder, Shown, Held
<1>2. \A v \in Uris : locks'[v] = IF v = u THEN lock ELSE locks[v]
  BY DEF LockTypeOK
<1> QED BY <1>1, <1>2, HolderIs

\* The same for what the clients were told.
LEMMA ClaimReplaced ==
  ASSUME LockTypeOK, NEW c \in Clients, NEW u \in Uris, NEW g, clock' = clock,
         granted' = [granted EXCEPT ![c][u] = g]
  PROVE  Told' = [Told EXCEPT ![c][u] = Claim(g, clock)]
<1>1. Told' = [d \in Clients |-> [v \in Uris |-> Claim(granted'[d][v], clock)]]
  BY DEF Told, Claim
<1>2. \A d \in Clients, v \in Uris :
        granted'[d][v] = IF d = c /\ v = u THEN g ELSE granted[d][v]
  BY DEF LockTypeOK
<1>3. ASSUME NEW d \in Clients
      PROVE  [v \in Uris |-> Claim(granted'[d][v], clock)] =
               IF d = c THEN [Told[c] EXCEPT ![u] = Claim(g, clock)] ELSE Told[d]
  BY <1>2, HolderIs
<1>4. Told' = [Told EXCEPT ![c] = [Told[c] EXCEPT ![u] = Claim(g, clock)]]
  BY <1>1, <1>3, HolderIs
<1> QED BY <1>4

\* A client without a claim of a document that is told nothing of it keeps having none.
LEMMA NoClaim ==
  ASSUME NEW c \in Clients, NEW u \in Uris, Told[c][u] = 0
  PROVE  [Told EXCEPT ![c][u] = 0] = Told
<1>1. [Told[c] EXCEPT ![u] = 0] = Told[c]
  BY HolderIs
<1>2. [Told EXCEPT ![c] = Told[c]] = Told
  BY HolderIs
<1> QED BY <1>1, <1>2

\* A document without a holder that gets none keeps having none.
LEMMA NoHold ==
  ASSUME NEW u \in Uris, Holder[u] = NoLock
  PROVE  [Holder EXCEPT ![u] = NoLock] = Holder
BY HolderIs

\* The row and the claim of a client go away: the end of its hold, if it had one.
LEMMA HoldEnds ==
  ASSUME LockInv, NEW c \in Clients, NEW u \in Uris, clock' = clock,
         Holder' = [Holder EXCEPT ![u] = NoLock], Told' = [Told EXCEPT ![c][u] = 0],
         Holder[u] # NoLock => Holder[u].client = c
  PROVE  [Service!Next]_<<clock, Holder, Told>>
<1>1. CASE Holder[u] = NoLock
  <2>1. Told[c][u] = 0
    BY <1>1, ClaimsAreHeld
  <2> QED BY <1>1, <2>1, NoHold, NoClaim
<1>2. CASE Holder[u] # NoLock
  <2>1. Service!End(u)
    BY <1>2 DEF Service!End
  <2> QED BY <2>1 DEF Service!Next
<1> QED BY <1>1, <1>2

\* What is granted is told.
LEMMA Granted ==
  ASSUME LockTypeOK, NEW c \in Clients, NEW lock, Grant(c, lock), acquiring[c].uri \in Uris
  PROVE  Told' = [Told EXCEPT ![c][acquiring[c].uri] = Claim(lock.expires, clock)]
<1>1. PICK u \in Uris : u = acquiring[c].uri
  OBVIOUS
<1>2. clock' = clock /\ granted' = [granted EXCEPT ![c][u] = lock.expires]
  BY <1>1 DEF Grant
<1>3. Told' = [Told EXCEPT ![c][u] = Claim(lock.expires, clock)]
  BY <1>2, ClaimReplaced
<1> QED BY <1>1, <1>3

\* What is granted to a client that may have the document is a hold of it, or the end of
\* one when the time of the grant is over by the commit.
LEMMA GrantTakes ==
  ASSUME LockInv, NEW c \in Clients, Open(c), NEW lock, Grant(c, lock),
         lock \in Lock, lock.client = c, lock.expires = acquiring[c].at + acquiring[c].ttl,
         Holder[acquiring[c].uri] # NoLock => Holder[acquiring[c].uri].client = c
  PROVE  [Service!Next]_<<clock, Holder, Told>>
<1> DEFINE u == acquiring[c].uri
<1>1. /\ LockTypeOK /\ u \in Uris /\ acquiring[c].at \in Nat /\ acquiring[c].ttl \in TTLs
      /\ acquiring[c].ttl \in Nat /\ clock \in Nat /\ acquiring[c].at <= clock
  BY OpenType DEF LockInv, LockTypeOK, RowsKept
<1>2. clock' = clock /\ Holder' = [Holder EXCEPT ![u] = Held(lock, clock)]
  BY <1>1, RowReplaced DEF Grant
<1>3. Told' = [Told EXCEPT ![c][u] = Claim(lock.expires, clock)]
  BY <1>1, Granted
<1>4. lock # NoLock
  BY LockAssumption DEF LockAssumption, Lock
<1>5. CASE lock.expires > clock
  <2>1. /\ Holder' = [Holder EXCEPT ![u] = [client |-> c, until |-> lock.expires]]
        /\ Told' = [Told EXCEPT ![c][u] = lock.expires]
    BY <1>2, <1>3, <1>4, <1>5 DEF Held, Claim
  <2>2. lock.expires \in (clock + 1) .. (clock + acquiring[c].ttl)
    BY <1>1, <1>5
  <2>3. Service!Take(c, u)
    BY <1>1, <1>2, <2>1, <2>2 DEF Service!Take
  <2> QED BY <1>1, <2>3 DEF Service!Next
<1>6. CASE ~(lock.expires > clock)
  <2>1. Holder' = [Holder EXCEPT ![u] = NoLock] /\ Told' = [Told EXCEPT ![c][u] = 0]
    BY <1>2, <1>3, <1>6 DEF Held, Claim
  <2> QED BY <1>1, <1>2, <2>1, HoldEnds
<1> QED BY <1>5, <1>6

\* An extension is of a row that was selected and is there by its id, which is then still
\* the client's own.
LEMMA ExtendTakes ==
  ASSUME LockInv, NEW c \in Clients, Extend(c)
  PROVE  [Service!Next]_<<clock, Holder, Told>>
<1> DEFINE a == acquiring[c]
           lock == [locks[a.uri] EXCEPT !.expires = a.at + a.ttl]
<1>1. Open(c) /\ a.existing # NoLock /\ a.existing.client = c /\ LockTypeOK
  BY DEF Extend, Open, LockInv
<1>2. CASE GiveUp(c)
  BY <1>2 DEF GiveUp, Holder, Shown, Told
<1>3. CASE StillThere(a) /\ Grant(c, lock)
  <2>1. a.uri \in Uris /\ a.at \in Nat /\ a.ttl \in Nat /\ locks[a.uri] \in Lock
    BY <1>1, <1>3, OpenType DEF LockInv, LockTypeOK, StillThere
  <2>2. locks[a.uri].client = c
    BY <1>1, <1>3 DEF LockInv, RowsKept, StillThere
  <2>3. lock \in Lock /\ lock.client = c /\ lock.expires = a.at + a.ttl
    BY <2>1, <2>2 DEF Lock
  <2>4. Holder[a.uri] # NoLock => Holder[a.uri].client = c
    BY <1>1, <2>1, <2>2, HolderShown
  <2> HIDE DEF lock
  <2> QED BY <1>1, <1>3, <2>3, <2>4, GrantTakes
<1> QED BY <1>2, <1>3 DEF Extend

\* An insertion finds no row in the way but one that has expired, which nobody holds.
LEMMA InsertTakes ==
  ASSUME LockInv, NEW c \in Clients, Insert(c)
  PROVE  [Service!Next]_<<clock, Holder, Told>>
<1> DEFINE a == acquiring[c]
           lock == [id |-> issued + 1, client |-> c, expires |-> a.at + a.ttl]
<1>1. Open(c) /\ LockTypeOK
  BY DEF Insert, Open, LockInv
<1>2. CASE GiveUp(c)
  BY <1>2 DEF GiveUp, Holder, Shown, Told
<1>3. CASE ~Duplicate(a) /\ Grant(c, lock)
  <2>1. /\ a.uri \in Uris /\ a.at \in Nat /\ a.ttl \in Nat /\ issued \in Nat /\ clock \in Nat
        /\ a.at <= clock /\ locks[a.uri] \in Lock \cup {NoLock}
    BY <1>1, OpenType DEF LockInv, LockTypeOK, RowsKept
  <2>2. lock \in Lock /\ lock.client = c /\ lock.expires = a.at + a.ttl
    BY <2>1 DEF Lock
  <2>3. locks[a.uri] = NoLock \/ ~(locks[a.uri].expires > clock)
    BY <1>3, <2>1 DEF Duplicate, IsExpired, Lock
  <2>4. Holder[a.uri] = NoLock
    BY <1>1, <2>1, <2>3, HolderShown
  <2> HIDE DEF lock
  <2> QED BY <1>1, <1>3, <2>2, <2>4, GrantTakes
<1> QED BY <1>2, <1>3 DEF Insert

\* A release ends the client's own hold; of a document another client holds, it changes
\* nothing, as nobody claims what another holds.
LEMMA ReleaseEnds ==
  ASSUME LockInv, NEW c \in Clients, NEW u \in Uris, Release(c, u)
  PROVE  [Service!Next]_<<clock, Holder, Told>>
<1>1. LockTypeOK /\ clock' = clock /\ clock \in Nat
  BY DEF LockInv, LockTypeOK, Release
<1>2. Told' = [Told EXCEPT ![c][u] = 0]
  BY <1>1, ClaimReplaced DEF Release, Claim
<1>3. CASE locks[u] # NoLock /\ locks[u].client = c
  <2>1. Holder' = [Holder EXCEPT ![u] = NoLock]
    BY <1>1, <1>3, RowReplaced DEF Release, Held
  <2>2. Holder[u] # NoLock => Holder[u].client = c
    BY <1>1, <1>3, HolderShown
  <2> QED BY <1>1, <1>2, <2>1, <2>2, HoldEnds
<1>4. CASE ~(locks[u] # NoLock /\ locks[u].client = c)
  <2>1. Holder' = Holder
    BY <1>4 DEF Release, Holder, Shown
  <2>2. Holder[u] # NoLock => Holder[u].client # c
    BY <1>1, <1>4, HolderShown
  <2>3. Told[c][u] = 0
    BY <2>2, ClaimsAreHeld
  <2> QED BY <1>1, <1>2, <2>1, <2>3, NoClaim
<1> QED BY <1>3, <1>4

\* A forced release ends the hold of whoever has the row.
LEMMA ForceEnds ==
  ASSUME LockInv, NEW u \in Uris, ForceRelease(u)
  PROVE  [Service!Next]_<<clock, Holder, Told>>
<1> DEFINE c == locks[u].client
<1>1. LockTypeOK /\ clock' = clock /\ clock \in Nat /\ c \in Clients
  BY DEF LockInv, LockTypeOK, Lock, ForceRelease
<1>2. Told' = [Told EXCEPT ![c][u] = 0]
  BY <1>1, ClaimReplaced DEF ForceRelease, Claim
<1>3. Holder' = [Holder EXCEPT ![u] = NoLock]
  BY <1>1, RowReplaced DEF ForceRelease, Held
<1>4. Holder[u] # NoLock => Holder[u].client = c
  BY <1>1, HolderShown
<1> QED BY <1>1, <1>2, <1>3, <1>4, HoldEnds

\* Time ends the holds whose time it is; a clean-up deletes rows that nobody held.
LEMMA TimePasses ==
  ASSUME LockTypeOK, Cleanup \/ LockTick
  PROVE  [Service!Next]_<<clock, Holder, Told>>
<1>1. CASE Cleanup
  <2>1. ASSUME NEW u \in Uris PROVE Held(locks'[u], clock) = Held(locks[u], clock)
    BY <1>1 DEF Cleanup, Selected, IsExpired, Held, LockTypeOK, Lock
  <2>2. clock' = clock /\ Holder' = [u \in Uris |-> Held(locks'[u], clock)] /\ Told' = Told
    BY <1>1 DEF Cleanup, Holder, Shown, Held, Told
  <2> QED BY <2>1, <2>2, HolderIs
<1>2. CASE LockTick
  <2>1. /\ clock' = clock + 1 /\ clock \in Nat
        /\ Holder' = [u \in Uris |-> Held(locks[u], clock + 1)]
        /\ Told' = [c \in Clients |-> [u \in Uris |-> Claim(granted[c][u], clock + 1)]]
    BY <1>2 DEF LockTick, Holder, Shown, Held, Told, Claim, LockTypeOK
  <2>2. ASSUME NEW u \in Uris
        PROVE  Held(locks[u], clock + 1) =
                 IF Holder[u] # NoLock /\ Holder[u].until > clock' THEN Holder[u] ELSE NoLock
    <3>1. Holder[u] = Held(locks[u], clock)
      BY HolderIs
    <3>2. locks[u] # NoLock => locks[u].expires \in Nat
      BY DEF LockTypeOK, Lock
    <3> QED BY <2>1, <3>1, <3>2 DEF LockTypeOK, Held
  <2>3. ASSUME NEW c \in Clients, NEW u \in Uris
        PROVE  Claim(granted[c][u], clock + 1) = IF Told[c][u] > clock' THEN Told[c][u] ELSE 0
    <3>1. Told[c][u] = Claim(granted[c][u], clock) /\ granted[c][u] \in Nat
      BY HolderIs DEF LockTypeOK
    <3> QED BY <2>1, <3>1 DEF Claim
  <2>4. Service!Pass
    BY <2>1, <2>2, <2>3 DEF Service!Pass
  <2> QED BY <2>4 DEF Service!Next
<1> QED BY <1>1, <1>2

\* The locks implement what they promise, for any sets of clients and documents, any
\* lengths of locks and any interleaving of the statements of acquisitions.
THEOREM LocksImplement == LockSpec => ImplementsExclusiveLocks
<1>1. LockInit => Service!Init
  BY DEF LockInit, Service!Init, Holder, Shown, Told
<1>2. LockInv /\ [LockNext]_lockVars => [Service!Next]_<<clock, Holder, Told>>
  <2> SUFFICES ASSUME LockInv, [LockNext]_lockVars
               PROVE  [Service!Next]_<<clock, Holder, Told>>
    OBVIOUS
  <2>1. ASSUME NEW c \in Clients, NEW u \in Uris, NEW ttl \in TTLs, Select(c, u, ttl)
        PROVE  UNCHANGED <<clock, Holder, Told>>
    BY <2>1 DEF Select, Holder, Shown, Told
  <2>2. ASSUME NEW c \in Clients, Extend(c) \/ Conflict(c) \/ Insert(c)
        PROVE  [Service!Next]_<<clock, Holder, Told>>
    BY <2>2, ExtendTakes, InsertTakes DEF Conflict, GiveUp, Holder, Shown, Told
  <2>3. CASE Cleanup \/ LockTick
    BY <2>3, TimePasses DEF LockInv
  <2>4. CASE UNCHANGED lockVars
    BY <2>4 DEF lockVars, Holder, Shown, Told
  <2> QED BY <2>1, <2>2, <2>3, <2>4, ReleaseEnds, ForceEnds DEF LockNext
<1> QED BY <1>1, <1>2, LockInvHolds, PTL DEF LockSpec, ImplementsExclusiveLocks, Service!Spec

-----------------------------------------------------------------------------
(***************************************************************************)
(* Processing: the file is hashed before it is read, so the text of a      *)
(* document is never older than the hash kept with it, and a pass that     *)
(* finds its hash there may skip the file, whoever rewrites it between two *)
(* steps.                                                                  *)
(***************************************************************************)

Pass == [at : {"gate", "hash", "load", "check", "write", "done"}, mode : OcrModes,
         force : BOOLEAN, hash : Nat, read : Nat, text : Texts \cup {NoText},
         answer : {"none", "has native text", "error", "encrypted", "unchanged",
                   "refused", "success"}]

\* Hashes and readings are numbers of contents.
PassType ==
  /\ onDisk \in [kind : Kinds, version : Nat, content : Content]
  /\ row \in [hash : Nat, read : Nat, text : Texts \cup {NoText}]
  /\ pass \in Pass

\* The order of the steps: the hash is of a content no newer than the text.
ReadAfterHash ==
  /\ pass.at = "load" => pass.hash <= onDisk.version
  /\ pass.at \in {"check", "write"} => pass.hash <= pass.read
  /\ row.hash <= row.read

PassInv ==
  /\ PassType /\ ReadAfterHash
  /\ pass.answer = "unchanged" => pass.at = "done" /\ row.hash = pass.hash

\* Nothing is indexed at the start.
LEMMA ProcessingInitInv == ProcessingInit => PassInv
<1> SUFFICES ASSUME ProcessingInit PROVE PassInv
  OBVIOUS
<1>1. onDisk \in [kind : Kinds, version : Nat, content : Content]
  BY DEF ProcessingInit, ContentOf
<1>2. NoPass \in Pass
  BY DEF NoPass, Pass, OcrModes
<1> QED BY <1>1, <1>2 DEF ProcessingInit, PassInv, PassType, ReadAfterHash, NoPass

\* A pass that ends with an answer keeps what it knows.
LEMMA EndsInv ==
  ASSUME PassInv, NEW answer \in {"has native text", "error", "encrypted", "unchanged",
                                  "refused"},
         PassEnds(answer), answer = "unchanged" => row.hash = pass.hash
  PROVE  PassInv'
BY DEF PassInv, PassType, ReadAfterHash, PassEnds, Pass

\* A pass that goes on has the hash of a content that the text is no older than.
LEMMA GoesOnInv ==
  ASSUME PassInv, NEW p \in Pass, GoesOn(p), p.answer # "unchanged",
         p.at = "load" => p.hash <= onDisk.version,
         p.at \in {"check", "write"} => p.hash <= p.read
  PROVE  PassInv'
BY DEF PassInv, PassType, ReadAfterHash, GoesOn

\* The texts a loader returns are texts, or say that there is none.
LEMMA LoadedTextType ==
  ASSUME NEW mode, NEW text \in LoadedText(mode), text # "encrypted", text # "failed"
  PROVE  OrFallback(text) \in Texts \cup {NoText}
BY DEF LoadedText, FromPdf, FromImage, FromText, FromSlides, FromWord, ByOcr, Native,
       OrFallback, Texts

\* The steps of a pass up to the write.
LEMMA ReadInv ==
  ASSUME PassInv, OcrGate \/ ValidateAndHash \/ LoadFile \/ CheckExisting
  PROVE  PassInv'
<1>0. pass \in Pass /\ onDisk.version \in Nat
  BY DEF PassInv, PassType
<1>1. pass.at # "done" => pass.answer # "unchanged"
  BY DEF PassInv
<1>2. CASE OcrGate
  <2> DEFINE p == [pass EXCEPT !.at = "hash"]
  <2>1. p \in Pass /\ p.at = "hash" /\ p.answer # "unchanged"
    BY <1>0, <1>1, <1>2 DEF Pass, OcrGate
  <2>2. GoesOn(p) \/ PassEnds("has native text")
    BY <1>2 DEF OcrGate
  <2> HIDE DEF p
  <2> QED BY <2>1, <2>2, EndsInv, GoesOnInv
<1>3. CASE ValidateAndHash
  <2> DEFINE p == [pass EXCEPT !.at = "load", !.hash = onDisk.version]
  <2>1. p \in Pass /\ p.at = "load" /\ p.answer # "unchanged" /\ p.hash = onDisk.version
    BY <1>0, <1>1, <1>3 DEF Pass, ValidateAndHash
  <2>2. GoesOn(p) \/ PassEnds("error")
    BY <1>3 DEF ValidateAndHash
  <2> HIDE DEF p
  <2>3. p.hash <= onDisk.version
    BY <1>0, <2>1
  <2>4. CASE GoesOn(p)
    BY <2>1, <2>3, <2>4, GoesOnInv
  <2> QED BY <2>2, <2>4, EndsInv
<1>4. CASE LoadFile
  <2>1. PICK text \in LoadedText(pass.mode) :
          CASE text = "encrypted" -> PassEnds("encrypted")
            [] text = "failed" \/ OrFallback(text) = NoText -> PassEnds("error")
            [] OTHER -> GoesOn([pass EXCEPT !.at = "check", !.read = onDisk.version,
                                     !.text = OrFallback(text)])
    BY <1>4 DEF LoadFile
  <2> DEFINE p == [pass EXCEPT !.at = "check", !.read = onDisk.version,
                               !.text = OrFallback(text)]
  <2>2. pass.at = "load" /\ pass.hash <= onDisk.version
    BY <1>4 DEF LoadFile, PassInv, ReadAfterHash
  <2>3. CASE PassEnds("encrypted") \/ PassEnds("error")
    BY <2>3, EndsInv
  <2>4. CASE GoesOn(p) /\ text # "encrypted" /\ text # "failed"
    <3>1. OrFallback(text) \in Texts \cup {NoText}
      BY <2>4, LoadedTextType
    <3>2. p \in Pass /\ p.at = "check" /\ p.hash <= p.read /\ p.answer # "unchanged"
      BY <1>0, <1>1, <2>2, <3>1 DEF Pass
    <3> HIDE DEF p
    <3> QED BY <2>4, <3>2, GoesOnInv
  <2> QED BY <2>1, <2>3, <2>4
<1>5. CASE CheckExisting
  <2>1. pass.at = "check" /\ pass.hash <= pass.read
    BY <1>5 DEF CheckExisting, PassInv, ReadAfterHash
  <2>2. CASE PassEnds("unchanged") /\ row.hash = FileHash
    BY <2>2, EndsInv DEF FileHash
  <2>3. CASE PassEnds("refused")
    BY <2>3, EndsInv
  <2>4. CASE GoesOn([pass EXCEPT !.at = "write"])
    <3>1. [pass EXCEPT !.at = "write"] \in Pass
      BY <1>0 DEF Pass
    <3> QED BY <1>0, <1>1, <2>1, <2>4, <3>1, GoesOnInv DEF Pass
  <2> QED BY <1>5, <2>2, <2>3, <2>4 DEF CheckExisting
<1> QED BY <1>2, <1>3, <1>4, <1>5

\* The write keeps the hash and the text together.
LEMMA WriteInv ==
  ASSUME PassInv, WriteRow
  PROVE  PassInv'
<1>1. CASE PassEnds("error")
  BY <1>1, EndsInv
<1>2. CASE /\ row' = [hash |-> FileHash, read |-> pass.read, text |-> pass.text]
           /\ pass' = [pass EXCEPT !.at = "done", !.answer = "success"]
           /\ UNCHANGED onDisk
  <2>1. pass \in Pass /\ pass.hash <= pass.read
    BY DEF WriteRow, PassInv, PassType, ReadAfterHash
  <2>2. pass' \in Pass /\ pass'.at = "done" /\ pass'.answer = "success"
    BY <1>2, <2>1 DEF Pass
  <2>3. row' \in [hash : Nat, read : Nat, text : Texts \cup {NoText}] /\ row'.hash <= row'.read
    BY <1>2, <2>1 DEF Pass, FileHash
  <2> QED BY <1>2, <2>2, <2>3 DEF PassInv, PassType, ReadAfterHash
<1> QED BY <1>1, <1>2 DEF WriteRow

\* The inductive invariant of a pass among others' rewrites of the file.
THEOREM PassInvHolds == ProcessingSpec => []PassInv
<1>1. PassInv /\ [ProcessingNext]_processingVars => PassInv'
  <2> SUFFICES ASSUME PassInv, [ProcessingNext]_processingVars PROVE PassInv'
    OBVIOUS
  <2>1. CASE Rewrite
    <3>1. PICK c \in Content : onDisk' = [onDisk EXCEPT !.version = @ + 1, !.content = c]
      BY <2>1 DEF Rewrite, ContentOf
    <3> DEFINE n == onDisk.version + 1
    <3>2. n \in Nat /\ onDisk' = [onDisk EXCEPT !.version = n, !.content = c]
      BY <3>1 DEF PassInv, PassType
    <3> HIDE DEF n
    <3>3. /\ onDisk'.version = n
          /\ onDisk' \in [kind : Kinds, version : Nat, content : Content]
      BY <3>2 DEF PassInv, PassType
    <3>4. /\ onDisk.version \in Nat /\ n = onDisk.version + 1 /\ pass.hash \in Nat
          /\ UNCHANGED <<pass, row>>
      BY <2>1 DEF Rewrite, PassInv, PassType, Pass, n
    <3> QED BY <3>3, <3>4 DEF PassInv, PassType, ReadAfterHash
  <2>2. ASSUME NEW mode \in OcrModes, NEW force \in BOOLEAN, IndexFile(mode, force)
        PROVE  PassInv'
    <3>1. pass' \in Pass /\ pass'.at \in {"gate", "hash"} /\ pass'.answer = "none"
      BY <2>2 DEF IndexFile, NoPass, Pass
    <3> QED BY <2>2, <3>1 DEF IndexFile, PassInv, PassType, ReadAfterHash
  <2>3. CASE UNCHANGED processingVars
    BY <2>3 DEF processingVars, PassInv, PassType, ReadAfterHash
  <2> QED BY <2>1, <2>2, <2>3, ReadInv, WriteInv DEF ProcessingNext
<1> QED BY <1>1, ProcessingInitInv, PTL DEF ProcessingSpec

\* A pass that answers "unchanged" found in the index the text of the content it
\* hashed, or of a later one (index_document, calculate_file_hash before the
\* loader).
THEOREM UnchangedIsTrueHolds == ProcessingSpec => []UnchangedIsTrue
<1>1. PassInv => UnchangedIsTrue
  BY DEF PassInv, PassType, Pass, ReadAfterHash, UnchangedIsTrue
<1> QED BY <1>1, PassInvHolds, PTL

\* What a pass knows is of a content there has been, and a file stays of its kind.
PassBounds ==
  /\ onDisk.version \in 1 .. MaxWrites + 1 /\ onDisk.content \in ContentOf(onDisk.kind)
  /\ tesseract \in BOOLEAN /\ passes \in 0 .. MaxPasses
  /\ row.hash <= onDisk.version /\ row.read <= onDisk.version
  /\ pass.hash <= onDisk.version /\ pass.read <= onDisk.version

\* A step of a pass that writes nothing learns nothing of contents to come.
LEMMA PassLearns ==
  ASSUME PassInv, PassBounds, UNCHANGED <<onDisk, tesseract, row, passes>>,
         pass'.hash \in {pass.hash, onDisk.version}, pass'.read \in {pass.read, onDisk.version}
  PROVE  PassBounds'
BY DEF PassInv, PassType, PassBounds

\* Every step keeps the bounds.
LEMMA PassBoundsStep ==
  ASSUME PassInv, PassBounds, [ProcessingNext]_processingVars
  PROVE  PassBounds'
<1>0. /\ onDisk \in [kind : Kinds, version : Nat, content : Content] /\ pass \in Pass
      /\ row \in [hash : Nat, read : Nat, text : Texts \cup {NoText}]
  BY DEF PassInv, PassType
<1>1. CASE UNCHANGED processingVars
  BY <1>1, PassLearns DEF processingVars
<1>2. CASE Rewrite
  <2>1. PICK c \in ContentOf(onDisk.kind) :
          onDisk' = [onDisk EXCEPT !.version = @ + 1, !.content = c]
    BY <1>2 DEF Rewrite
  <2>2. /\ onDisk'.version = onDisk.version + 1 /\ onDisk'.content = c
        /\ onDisk'.kind = onDisk.kind
    BY <1>0, <2>1
  <2>3. onDisk.version <= MaxWrites /\ UNCHANGED <<tesseract, row, pass, passes>>
    BY <1>2 DEF Rewrite
  <2>4. onDisk'.version \in 1 .. MaxWrites + 1 /\ onDisk.version <= onDisk'.version
    BY <1>0, <2>2, <2>3, ProcessingAssumption
  <2>5. onDisk'.content \in ContentOf(onDisk'.kind)
    BY <2>2
  <2>6. /\ row.hash <= onDisk'.version /\ row.read <= onDisk'.version
        /\ pass.hash <= onDisk'.version /\ pass.read <= onDisk'.version
    <3>1. row.hash \in Nat /\ row.read \in Nat /\ onDisk.version \in Nat
      BY <1>0
    <3>2. pass.hash \in Nat /\ pass.read \in Nat
      BY <1>0 DEF Pass
    <3>3. onDisk'.version \in Nat
      BY <2>2, <3>1
    <3> QED BY <2>4, <3>1, <3>2, <3>3 DEF PassBounds
  <2> QED BY <2>3, <2>4, <2>5, <2>6 DEF PassBounds
<1>3. ASSUME NEW mode \in OcrModes, NEW force \in BOOLEAN, IndexFile(mode, force)
      PROVE  PassBounds'
  <2>1. pass'.hash = 0 /\ pass'.read = 0 /\ UNCHANGED <<onDisk, tesseract, row>>
    BY <1>3 DEF IndexFile, NoPass
  <2>2. passes' \in 0 .. MaxPasses
    BY <1>3, ProcessingAssumption DEF IndexFile, PassBounds
  <2> QED BY <1>0, <2>1, <2>2 DEF PassBounds
<1>4. ASSUME NEW answer, PassEnds(answer)
      PROVE  PassBounds'
  BY <1>0, <1>4, PassLearns DEF PassEnds, Pass
<1>5. CASE OcrGate
  BY <1>0, <1>4, <1>5, PassLearns DEF OcrGate, GoesOn, Pass
<1>6. CASE ValidateAndHash
  BY <1>0, <1>4, <1>6, PassLearns DEF ValidateAndHash, GoesOn, Pass
<1>7. CASE LoadFile
  <2>1. PICK text \in LoadedText(pass.mode) :
          CASE text = "encrypted" -> PassEnds("encrypted")
            [] text = "failed" \/ OrFallback(text) = NoText -> PassEnds("error")
            [] OTHER -> GoesOn([pass EXCEPT !.at = "check", !.read = onDisk.version,
                                     !.text = OrFallback(text)])
    BY <1>7 DEF LoadFile
  <2>2. CASE GoesOn([pass EXCEPT !.at = "check", !.read = onDisk.version,
                                 !.text = OrFallback(text)])
    BY <1>0, <2>2, PassLearns DEF GoesOn, Pass
  <2> QED BY <1>4, <2>1, <2>2
<1>8. CASE CheckExisting
  BY <1>0, <1>4, <1>8, PassLearns DEF CheckExisting, GoesOn, Pass
<1>9. CASE WriteRow
  <2>1. CASE /\ row' = [hash |-> FileHash, read |-> pass.read, text |-> pass.text]
             /\ pass' = [pass EXCEPT !.at = "done", !.answer = "success"]
             /\ UNCHANGED <<onDisk, tesseract, passes>>
    BY <1>0, <2>1 DEF PassBounds, Pass, FileHash
  <2> QED BY <1>4, <1>9, <2>1 DEF WriteRow
<1> QED BY <1>1, <1>2, <1>3, <1>5, <1>6, <1>7, <1>8, <1>9 DEF ProcessingNext

\* The variables of a pass have their types: what it hashed and what it read are
\* contents the file has had, and the content of a file is one its kind can have.
THEOREM ProcessingTyped == ProcessingSpec => []ProcessingTypeOK
<1>1. ProcessingInit => PassBounds
  BY ProcessingAssumption DEF ProcessingInit, PassBounds, NoPass
<1>2. PassInv /\ PassBounds => ProcessingTypeOK
  BY DEF PassInv, PassType, PassBounds, Pass, ProcessingTypeOK
<1> QED BY <1>1, <1>2, PassInvHolds, PassBoundsStep, PTL DEF ProcessingSpec

-----------------------------------------------------------------------------
(***************************************************************************)
(* Visibility: every write of the owner or the visibility of a document    *)
(* but the restore of a quarantined one covers all its chunks, so they are *)
(* alike, and the readers that ask one chunk, any chunk or every chunk     *)
(* agree; and the row of a run follows its request step by step, so that   *)
(* what it says at the end is what has come of it.                         *)
(***************************************************************************)

\* The chunks a document can have: for some indices, a chunk each.
Tables == UNION {[I -> Chunk] : I \in SUBSET (1 .. MaxChunks)}

\* Every chunk of a document has the owner and the visibility of every other.
Uniform(r) == \A i, k \in DOMAIN r : r[i].owner = r[k].owner /\ r[i].vis = r[k].vis

OwnersIn(r, P) == \A i \in DOMAIN r : r[i].owner \in P \cup {Nobody}

\* The chunks of a document are in order: their owners are users, and but for a
\* restore into it they are all alike.
InOrder(r, P, restored) == r \in Tables /\ OwnersIn(r, P) /\ (restored \/ Uniform(r))

RowsInOrder ==
  /\ merged \subseteq Docs /\ known \subseteq Persons
  /\ rows \in [Docs -> Tables]
  /\ \A d \in Docs : InOrder(rows[d], known, d \in merged)

RunStates == {"none", "running", "success", "failed"}

JobTypes == job \in [Jobs -> IndexJobs \cup {NoJobYet}] /\ run \in [Jobs -> RunStates]

\* What the row of a run says of its request: nothing before the request has begun,
\* that it is running while it is at work, unless the database failed it, and in the
\* end what has come of it.
Agrees(q, s) ==
  /\ q = NoJobYet => s = "none"
  /\ q # NoJobYet =>
       /\ q.step # "done" => s \in {"none", "running"} /\ (s = "none" => q.faulty)
       /\ s = "success" => q.did \in {"indexed", "skipped"}
       /\ /\ q.step = "done" /\ q.did # "crashed" /\ ~q.faulty
          /\ ~(q.kind = "upload" /\ q.did = "refused")
          => s \in {"success", "failed"}

JobsInOrder == JobTypes /\ \A j \in Jobs : Agrees(job[j], run[j])

VisibilityInv == RowsInOrder /\ JobsInOrder

-----------------------------------------------------------------------------
(* The chunks.                                                              *)

\* A table by its chunks.
LEMMA TableBy ==
  ASSUME NEW r, NEW I \in SUBSET (1 .. MaxChunks),
         r = [i \in I |-> r[i]], \A i \in I : r[i] \in Chunk
  PROVE  r \in Tables
<1>1. r \in [I -> Chunk]
  OBVIOUS
<1> QED BY <1>1 DEF Tables

\* The chunks of a document, index by index.
LEMMA TableHas ==
  ASSUME NEW r \in Tables
  PROVE  /\ DOMAIN r \subseteq 1 .. MaxChunks /\ r = [i \in DOMAIN r |-> r[i]]
         /\ \A i \in DOMAIN r : r[i] \in Chunk
BY DEF Tables

\* New chunks, and none, are in order.
LEMMA NewInOrder ==
  ASSUME NEW I \in SUBSET (1 .. MaxChunks), NEW P, NEW m
  PROVE  InOrder(NewChunks(I), P, m) /\ InOrder(NoRows, P, m)
<1>1. /\ DOMAIN NewChunks(I) = I /\ NewChunks(I) = [i \in I |-> NewChunks(I)[i]]
      /\ \A i \in I : NewChunks(I)[i] = [owner |-> Nobody, vis |-> "shared", late |-> FALSE]
  BY DEF NewChunks
<1>2. \A i \in I : NewChunks(I)[i] \in Chunk
  <2> PICK w : w = [owner |-> Nobody, vis |-> "shared", late |-> FALSE]
    OBVIOUS
  <2>1. w \in Chunk
    BY DEF Chunk
  <2> QED BY <1>1, <2>1
<1>3. NewChunks(I) \in Tables
  BY <1>1, <1>2, TableBy
<1>4. DOMAIN NoRows = {} /\ NoRows \in [{} -> Chunk] /\ {} \in SUBSET (1 .. MaxChunks)
  BY DEF NoRows
<1>5. NoRows \in Tables
  BY <1>4 DEF Tables
<1> QED BY <1>1, <1>3, <1>4, <1>5 DEF InOrder, Uniform, OwnersIn

\* The chunks s come of the chunks r, those with the same columns with the same columns.
Repainted(s, r, P) ==
  /\ DOMAIN s = DOMAIN r /\ s = [i \in DOMAIN r |-> s[i]]
  /\ \A i \in DOMAIN r :
       /\ s[i] \in Chunk /\ s[i].owner \in P \cup {Nobody}
       /\ \A k \in DOMAIN r : r[i].owner = r[k].owner /\ r[i].vis = r[k].vis =>
                            s[i].owner = s[k].owner /\ s[i].vis = s[k].vis

\* A document repainted as a whole is in order.
LEMMA PaintedInOrder ==
  ASSUME NEW r, NEW P \in SUBSET Persons, NEW m, InOrder(r, P, m), NEW s,
         Repainted(s, r, P)
  PROVE  InOrder(s, P, m)
<1> USE DEF Repainted
<1>1. DOMAIN r \in SUBSET (1 .. MaxChunks)
  BY TableHas DEF InOrder
<1>2. s \in Tables
  BY <1>1, TableBy
<1>3. OwnersIn(s, P)
  BY Zenon DEF OwnersIn
<1>4. Uniform(r) => Uniform(s)
  <2> SUFFICES ASSUME Uniform(r), NEW i \in DOMAIN s, NEW k \in DOMAIN s
               PROVE  s[i].owner = s[k].owner /\ s[i].vis = s[k].vis
    BY DEF Uniform
  <2>1. i \in DOMAIN r /\ k \in DOMAIN r
    OBVIOUS
  <2>2. r[i].owner = r[k].owner /\ r[i].vis = r[k].vis
    BY <2>1 DEF Uniform
  <2> QED BY <2>1, <2>2
<1> QED BY <1>2, <1>3, <1>4, Zenon DEF InOrder

\* What the updates make of the chunks r.
Updated(s, r, o, v) ==
  /\ DOMAIN s = DOMAIN r /\ s = [i \in DOMAIN r |-> s[i]]
  /\ \/ \A i \in DOMAIN r : s[i] = [r[i] EXCEPT !.vis = v]
     \/ \A i \in DOMAIN r : s[i] = [r[i] EXCEPT !.owner = o]
     \/ \A i \in DOMAIN r : s[i] = [r[i] EXCEPT !.owner = o, !.vis = v]

\* A new visibility for all the chunks leaves them in order, and so do a new owner
\* who is a user and both at once.
LEMMA RepaintedInOrder ==
  ASSUME NEW r, NEW P \in SUBSET Persons, NEW m, InOrder(r, P, m), NEW s,
         NEW v \in {"shared", "private"}, NEW o \in P \cup {Nobody}, Updated(s, r, o, v)
  PROVE  InOrder(s, P, m)
<1>0. DOMAIN s = DOMAIN r /\ s = [i \in DOMAIN r |-> s[i]]
  BY DEF Updated
<1>1. \A i \in DOMAIN r : r[i] \in Chunk
  BY TableHas DEF InOrder
<1>2. \A i \in DOMAIN r : r[i].owner \in P \cup {Nobody} /\ P \subseteq Persons
  BY DEF InOrder, OwnersIn
<1>3. CASE \A i \in DOMAIN r : s[i] = [r[i] EXCEPT !.vis = v]
  <2>1. \A i \in DOMAIN r : s[i] \in Chunk /\ s[i].owner = r[i].owner /\ s[i].vis = v
    BY <1>1, <1>3 DEF Chunk
  <2>2. Repainted(s, r, P)
    BY <1>0, <1>2, <2>1 DEF Repainted
  <2> QED BY <2>2, PaintedInOrder
<1>4. CASE \A i \in DOMAIN r : s[i] = [r[i] EXCEPT !.owner = o]
  <2>1. \A i \in DOMAIN r : s[i] \in Chunk /\ s[i].owner = o /\ s[i].vis = r[i].vis
    BY <1>1, <1>4 DEF Chunk
  <2>2. Repainted(s, r, P)
    BY <1>0, <1>2, <2>1 DEF Repainted
  <2> QED BY <2>2, PaintedInOrder
<1>5. CASE \A i \in DOMAIN r : s[i] = [r[i] EXCEPT !.owner = o, !.vis = v]
  <2>1. \A i \in DOMAIN r : s[i] \in Chunk /\ s[i].owner = o /\ s[i].vis = v
    BY <1>1, <1>5 DEF Chunk
  <2>2. Repainted(s, r, P)
    BY <1>0, <1>2, <2>1 DEF Repainted
  <2> QED BY <2>2, PaintedInOrder
<1> QED BY <1>3, <1>4, <1>5 DEF Updated

\* What the deletion of a user makes of them.
Disowned(s, r, c) ==
  s = [i \in DOMAIN r |-> IF r[i].owner = c THEN [r[i] EXCEPT !.owner = Nobody] ELSE r[i]]

\* So do chunks that lose the owner c, who is no user any more.
LEMMA DisownedInOrder ==
  ASSUME NEW r, NEW P \in SUBSET Persons, NEW m, InOrder(r, P, m), NEW s, NEW c, Disowned(s, r, c)
  PROVE  InOrder(s, P \ {c}, m)
<1>1. /\ \A i \in DOMAIN r : r[i] \in Chunk /\ r[i].owner \in P \cup {Nobody}
      /\ DOMAIN r \in SUBSET (1 .. MaxChunks)
  BY TableHas DEF InOrder, OwnersIn
<1>2. ASSUME NEW i \in DOMAIN r
      PROVE  /\ s[i] \in Chunk /\ s[i].vis = r[i].vis
             /\ s[i].owner = IF r[i].owner = c THEN Nobody ELSE r[i].owner
  <2>0. s[i] = IF r[i].owner = c THEN [r[i] EXCEPT !.owner = Nobody] ELSE r[i]
    BY DEF Disowned
  <2>1. r[i] \in Chunk /\ [r[i] EXCEPT !.owner = Nobody] \in Chunk
    BY <1>1 DEF Chunk
  <2>2. CASE r[i].owner = c
    BY <2>0, <2>1, <2>2 DEF Chunk
  <2>3. CASE r[i].owner # c
    BY <2>0, <2>1, <2>3
  <2> QED BY <2>2, <2>3
<1>0. DOMAIN s = DOMAIN r /\ s = [i \in DOMAIN r |-> s[i]]
  BY DEF Disowned
<1>3. Repainted(s, r, P)
  BY <1>0, <1>1, <1>2 DEF Repainted
<1>4. InOrder(s, P, m)
  BY <1>3, PaintedInOrder
<1>5. OwnersIn(s, P \ {c})
  BY <1>0, <1>1, <1>2 DEF OwnersIn
<1> QED BY <1>4, <1>5, Zenon DEF InOrder

\* One document has other chunks, and is marked as restored into or not.
LEMMA OneDocument ==
  ASSUME RowsInOrder, NEW d \in Docs, NEW r, rows' = [rows EXCEPT ![d] = r], UNCHANGED known,
         merged' \subseteq Docs, \A e \in Docs \ {d} : e \in merged => e \in merged',
         InOrder(r, known, d \in merged')
  PROVE  RowsInOrder'
<1>1. r \in Tables
  BY DEF InOrder
<1>2. rows' \in [Docs -> Tables] /\ \A e \in Docs : rows'[e] = IF e = d THEN r ELSE rows[e]
  BY <1>1 DEF RowsInOrder
<1>3. ASSUME NEW e \in Docs \ {d}  PROVE InOrder(rows'[e], known, e \in merged')
  <2>1. InOrder(rows[e], known, e \in merged) /\ rows'[e] = rows[e]
    BY <1>2 DEF RowsInOrder
  <2>2. e \in merged => e \in merged'
    OBVIOUS
  <2> QED BY <2>1, <2>2 DEF InOrder
<1>4. InOrder(rows'[d], known, d \in merged')
  BY <1>2
<1>5. \A e \in Docs : InOrder(rows'[e], known, e \in merged')
  BY <1>3, <1>4
<1>6. known' \subseteq Persons /\ known' = known
  BY DEF RowsInOrder
<1> QED BY <1>2, <1>5, <1>6 DEF RowsInOrder

\* An update of all the chunks of some documents.
LEMMA Updates ==
  ASSUME RowsInOrder, NEW d, NEW c,
         NEW v \in {"shared", "private"}, NEW ds \in SUBSET Docs,
         \/ SetVisibility(c, d, v) \/ SetBoth(d, c, v) \/ Transfer(d, c)
         \/ BulkSetVisibility(ds, v)
  PROVE  RowsInOrder'
<1>0. /\ UNCHANGED <<merged, known>> /\ known \in SUBSET Persons /\ rows \in [Docs -> Tables]
      /\ \A e \in Docs : InOrder(rows[e], known, e \in merged)
      /\ merged \subseteq Docs
  BY DEF SetVisibility, SetBoth, Transfer, BulkSetVisibility, Keep, RowsInOrder
<1> DEFINE Same(e) == rows'[e] = rows[e]
           Painted(e) == \E o \in known \cup {Nobody} : Updated(rows'[e], rows[e], o, v)
<1>1. DOMAIN rows' = Docs /\ rows' = [e \in Docs |-> rows'[e]]
  BY <1>0 DEF SetVisibility, SetBoth, Transfer, BulkSetVisibility, Reassigned
<1>2. ASSUME NEW e \in Docs  PROVE Same(e) \/ Painted(e)
  <2>1. CASE SetVisibility(c, d, v)
    <3>1. rows' = [rows EXCEPT ![d] = [i \in DOMAIN @ |-> [@[i] EXCEPT !.vis = v]]]
      BY <2>1 DEF SetVisibility
    <3>2. rows'[e] = IF e = d THEN [i \in DOMAIN rows[d] |-> [rows[d][i] EXCEPT !.vis = v]]
                     ELSE rows[e]
      BY <1>0, <3>1
    <3> QED BY <3>2 DEF Updated
  <2>2. CASE Transfer(d, c)
    <3>1. /\ rows' = [rows EXCEPT ![d] = [i \in DOMAIN @ |-> [@[i] EXCEPT !.owner = c]]]
          /\ c \in known
      BY <2>2 DEF Transfer
    <3>2. rows'[e] = IF e = d THEN [i \in DOMAIN rows[d] |-> [rows[d][i] EXCEPT !.owner = c]]
                     ELSE rows[e]
      BY <1>0, <3>1
    <3>3. CASE e = d
      <4>1. /\ rows'[e] = [i \in DOMAIN rows[e] |-> rows'[e][i]]
            /\ \A i \in DOMAIN rows[e] : rows'[e][i] = [rows[e][i] EXCEPT !.owner = c]
        BY <3>2, <3>3
      <4> QED BY <3>1, <4>1 DEF Updated
    <3>4. CASE e # d
      BY <3>2, <3>4
    <3> QED BY <3>3, <3>4
  <2>3. CASE SetBoth(d, c, v)
    <3>1. c \in known /\ rows'[e] = [i \in DOMAIN rows[e] |->
             IF e \in {d} THEN [rows[e][i] EXCEPT !.owner = c, !.vis = v] ELSE rows[e][i]]
      BY <2>3 DEF SetBoth, Reassigned
    <3>2. CASE e = d
      <4>1. /\ rows'[e] = [i \in DOMAIN rows[e] |-> rows'[e][i]]
            /\ \A i \in DOMAIN rows[e] :
                 rows'[e][i] = [rows[e][i] EXCEPT !.owner = c, !.vis = v]
        BY <3>1, <3>2
      <4> QED BY <3>1, <4>1 DEF Updated
    <3>3. CASE e # d
      <4>1. rows[e] = [i \in DOMAIN rows[e] |-> rows[e][i]]
        BY <1>0, TableHas
      <4> QED BY <3>1, <3>3, <4>1
    <3> QED BY <3>2, <3>3
  <2>4. CASE BulkSetVisibility(ds, v)
    <3>1. rows'[e] = [i \in DOMAIN rows[e] |->
             IF e \in ds THEN [rows[e][i] EXCEPT !.vis = v] ELSE rows[e][i]]
      BY <2>4 DEF BulkSetVisibility
    <3>2. CASE e \in ds
      BY <3>1, <3>2 DEF Updated
    <3>3. CASE e \notin ds
      <4>1. rows[e] = [i \in DOMAIN rows[e] |-> rows[e][i]]
        BY <1>0, TableHas
      <4> QED BY <3>1, <3>3, <4>1
    <3> QED BY <3>2, <3>3
  <2> QED BY <2>1, <2>2, <2>3, <2>4
<1>3. ASSUME NEW e \in Docs  PROVE InOrder(rows'[e], known, e \in merged)
  <2>1. InOrder(rows[e], known, e \in merged)
    BY <1>0
  <2>2. CASE Same(e)
    BY <2>1, <2>2
  <2>3. CASE Painted(e)
    <3> PICK s : s = rows'[e]
      OBVIOUS
    <3> PICK r : r = rows[e]
      OBVIOUS
    <3> PICK m : m = (e \in merged)
      OBVIOUS
    <3>1. InOrder(r, known, m)
      BY <2>1
    <3>2. PICK o \in known \cup {Nobody} : Updated(s, r, o, v)
      BY <2>3
    <3> PICK P : P = known
      OBVIOUS
    <3>4. P \in SUBSET Persons /\ o \in P \cup {Nobody} /\ InOrder(r, P, m)
      BY <1>0, <3>1
    <3> HIDE DEF Same, Painted
    <3>5. InOrder(s, P, m)
      BY <3>2, <3>4, RepaintedInOrder
    <3> QED BY <3>5
  <2> QED BY <1>2, <2>2, <2>3
<1>4. \A e \in Docs : rows'[e] \in Tables
  BY <1>3 DEF InOrder
<1> HIDE DEF Same, Painted
<1> QED BY <1>0, <1>1, <1>3, <1>4 DEF RowsInOrder
\* The indices an indexing or a backup comes with.
LEMMA IndicesAre == \A I \in Indices : I \in SUBSET (1 .. MaxChunks) /\ I # {}
BY VisibilityAssumption DEF Indices, VisibilityAssumption

\* A user is deleted; a document is deleted, or restored from a backup.
LEMMA OtherRowSteps ==
  ASSUME RowsInOrder, NEW d, NEW c, NEW I \in Indices,
         DeleteCaller(c) \/ (d \in Docs /\ (DeleteRows(d) \/ Restore(d, I)))
  PROVE  RowsInOrder'
<1>0. /\ known \in SUBSET Persons /\ rows \in [Docs -> Tables] /\ merged \subseteq Docs
      /\ \A e \in Docs : InOrder(rows[e], known, e \in merged)
  BY DEF RowsInOrder
<1>1. CASE DeleteCaller(c)
  <2>1. /\ known' = known \ {c} /\ UNCHANGED merged
        /\ rows' = [e \in Docs |-> [i \in DOMAIN rows[e] |->
             IF rows[e][i].owner = c THEN [rows[e][i] EXCEPT !.owner = Nobody] ELSE rows[e][i]]]
    BY <1>1 DEF DeleteCaller
  <2>2. ASSUME NEW e \in Docs  PROVE InOrder(rows'[e], known \ {c}, e \in merged)
    <3> PICK s : s = rows'[e]
      OBVIOUS
    <3> PICK r : r = rows[e]
      OBVIOUS
    <3> PICK m : m = (e \in merged)
      OBVIOUS
    <3> PICK P : P = known
      OBVIOUS
    <3>1. Disowned(s, r, c)
      BY <2>1 DEF Disowned
    <3>3. InOrder(r, P, m) /\ P \in SUBSET Persons
      BY <1>0
    <3>4. InOrder(s, P \ {c}, m)
      BY <3>1, <3>3, DisownedInOrder
    <3> QED BY <3>4
  <2>3. \A e \in Docs : rows'[e] \in Tables
    BY <2>2 DEF InOrder
  <2>4. rows' \in [Docs -> Tables]
    BY <2>1, <2>3
  <2> QED BY <1>0, <2>1, <2>2, <2>4 DEF RowsInOrder
<1>2. CASE d \in Docs /\ DeleteRows(d)
  <2>1. /\ rows' = [rows EXCEPT ![d] = NoRows] /\ merged' = merged \ {d} /\ known' = known
    BY <1>2 DEF DeleteRows
  <2>2. InOrder(NoRows, known, d \in merged')
    BY NewInOrder
  <2> QED BY <1>0, <1>2, <2>1, <2>2, OneDocument
<1>3. CASE d \in Docs /\ Restore(d, I)
  <2> PICK r : r = rows[d]
    OBVIOUS
  <2> PICK s : s = [i \in DOMAIN r \cup I |->
       IF i \in DOMAIN r THEN r[i] ELSE [owner |-> Nobody, vis |-> "shared", late |-> There(d)]]
    OBVIOUS
  <2>1. /\ rows' = [rows EXCEPT ![d] = s] /\ UNCHANGED known
        /\ merged' = IF There(d) /\ ~(I \subseteq DOMAIN r) THEN merged \cup {d} ELSE merged
    BY <1>3 DEF Restore
  <2>2. /\ DOMAIN r \in SUBSET (1 .. MaxChunks) /\ \A i \in DOMAIN r : r[i] \in Chunk
        /\ I \in SUBSET (1 .. MaxChunks) /\ r = [i \in DOMAIN r |-> r[i]]
        /\ InOrder(r, known, d \in merged)
    BY <1>0, <1>3, TableHas, IndicesAre
  <2> PICK w : w = [owner |-> Nobody, vis |-> "shared", late |-> There(d)]
    OBVIOUS
  <2>3. w \in Chunk /\ w.owner = Nobody
    BY DEF Chunk, There
  <2>4. /\ DOMAIN s = DOMAIN r \cup I /\ s = [i \in DOMAIN r \cup I |-> s[i]]
        /\ \A i \in DOMAIN s : s[i] = IF i \in DOMAIN r THEN r[i] ELSE w
    OBVIOUS
  <2>5. s \in Tables
    BY <2>2, <2>3, <2>4, TableBy
  <2>6. OwnersIn(s, known)
    BY <2>2, <2>3, <2>4 DEF InOrder, OwnersIn
  <2>7. Uniform(s) \/ d \in merged'
    <3>1. CASE There(d) /\ ~(I \subseteq DOMAIN r)
      BY <2>1, <3>1
    <3>2. CASE I \subseteq DOMAIN r
      <4>0. DOMAIN r \cup I = DOMAIN r
        BY <3>2
      <4>2. s = [i \in DOMAIN r |-> s[i]] /\ \A i \in DOMAIN r : s[i] = r[i]
        BY <2>4, <4>0, Zenon
      <4>1. s = r
        BY <2>2, <4>2
      <4> QED BY <2>1, <2>2, <4>1, Zenon DEF InOrder
    <3>3. CASE ~There(d)
      <4>1. DOMAIN r = {}
        BY <3>3 DEF There, NoRows
      <4> QED BY <2>4, <4>1 DEF Uniform
    <3> QED BY <3>1, <3>2, <3>3
  <2>8. InOrder(s, known, d \in merged')
    BY <2>5, <2>6, <2>7, Zenon DEF InOrder
  <2>9. merged' \subseteq Docs /\ \A e \in Docs \ {d} : e \in merged => e \in merged'
    BY <1>0, <1>3, <2>1
  <2> QED BY <1>3, <2>1, <2>8, <2>9, OneDocument
<1> QED BY <1>1, <1>2, <1>3

-----------------------------------------------------------------------------
(* The requests.                                                            *)

\* One request moves, and its run with it.
LEMMA OneRequest ==
  ASSUME JobsInOrder, NEW j \in Jobs, NEW q \in IndexJobs, NEW s \in RunStates,
         job' = [job EXCEPT ![j] = q], run' = [run EXCEPT ![j] = s], Agrees(q, s)
  PROVE  JobsInOrder'
<1>1. JobTypes'
  BY DEF JobsInOrder, JobTypes
<1>2. \A i \in Jobs : /\ job'[i] = (IF i = j THEN q ELSE job[i])
                       /\ run'[i] = (IF i = j THEN s ELSE run[i])
  BY DEF JobsInOrder, JobTypes
<1>3. ASSUME NEW i \in Jobs  PROVE Agrees(job'[i], run'[i])
  <2>1. CASE i = j
    BY <1>2, <2>1
  <2>2. CASE i # j
    BY <1>2, <2>2 DEF JobsInOrder
  <2> QED BY <2>1, <2>2
<1>4. \A i \in Jobs : Agrees(job'[i], run'[i])
  BY <1>3
<1> QED BY <1>1, <1>4 DEF JobsInOrder, Agrees

\* What a request at work is known to be.
LEMMA AtWork ==
  ASSUME JobsInOrder, NEW j \in Jobs, job[j] # NoJobYet
  PROVE  /\ job[j] \in IndexJobs /\ run[j] \in RunStates /\ Agrees(job[j], run[j])
         /\ run = [run EXCEPT ![j] = run[j]] /\ job \in [Jobs -> IndexJobs \cup {NoJobYet}]
         /\ run \in [Jobs -> RunStates]
BY DEF JobsInOrder, JobTypes

\* The record a request leaves when it is over.
LEMMA OverIs ==
  ASSUME JobsInOrder, NEW j \in Jobs, job[j] # NoJobYet,
         NEW how \in {"nothing", "skipped", "refused", "failed", "indexed", "crashed"},
         Over(j, how)
  PROVE  \E q \in IndexJobs :
           /\ job' = [job EXCEPT ![j] = q] /\ q.step = "done" /\ q.did = how
           /\ q.kind = job[j].kind /\ q.faulty = job[j].faulty
<1> PICK p : p = job[j]
  OBVIOUS
<1>1. p \in IndexJobs
  BY AtWork
<1> PICK q : q = [p EXCEPT !.step = "done", !.did = how, !.by = Anyone, !.replace = FALSE]
  OBVIOUS
<1>2. /\ q \in IndexJobs /\ q.step = "done" /\ q.did = how
      /\ q.kind = p.kind /\ q.faulty = p.faulty
  BY <1>1, ZenonT(40) DEF IndexJobs
<1>3. job \in [Jobs -> IndexJobs \cup {NoJobYet}]
  BY DEF JobsInOrder, JobTypes
<1>4. job' = [job EXCEPT ![j] = q]
  BY <1>3 DEF Over
<1> QED BY <1>2, <1>4

\* A request that ends, whether or not the database takes the status of its run.
LEMMA EndsInOrder ==
  ASSUME JobsInOrder, NEW j \in Jobs, job[j] # NoJobYet, job[j].step # "done",
         NEW status, NEW how, Ends(j, status, how),
         \/ status = "success" /\ how \in {"skipped", "indexed"}
         \/ status = "failed" /\ how \in {"refused", "failed"}
  PROVE  JobsInOrder'
<1>1. PICK q \in IndexJobs :
           /\ job' = [job EXCEPT ![j] = q] /\ q.step = "done" /\ q.did = how
           /\ q.kind = job[j].kind /\ q.faulty = job[j].faulty
  BY OverIs DEF Ends
<1>2. /\ run[j] \in {"none", "running"} /\ (run[j] = "none" => q.faulty) /\ run[j] \in RunStates
      /\ run = [run EXCEPT ![j] = run[j]]
  BY <1>1, AtWork DEF Agrees
<1>3. q # NoJobYet
  BY VisibilityAssumption DEF VisibilityAssumption
<1>4. CASE Complete(j, status)
  <2> PICK s : s = IF run[j] = "running" THEN status ELSE run[j]
    OBVIOUS
  <2>1. run' = [run EXCEPT ![j] = s] /\ s \in RunStates
    BY <1>2, <1>4 DEF Complete, RunStates
  <2>2. Agrees(q, s)
    BY <1>1, <1>2, <1>3 DEF Agrees
  <2> QED BY <1>1, <2>1, <2>2, OneRequest
<1>5. CASE job[j].faulty /\ run' = run
  <2>1. q.faulty /\ Agrees(q, run[j])
    BY <1>1, <1>2, <1>3, <1>5 DEF Agrees
  <2>2. run' = [run EXCEPT ![j] = run[j]]
    BY <1>2, <1>5
  <2> QED BY <1>1, <1>2, <2>1, <2>2, OneRequest
<1> QED BY <1>4, <1>5 DEF Ends
\* A request that ends with its run left as it is: it crashed, or its upload was refused.
LEMMA LeavesItsRun ==
  ASSUME JobsInOrder, NEW j \in Jobs, job[j] # NoJobYet, job[j].step # "done",
         NEW how \in {"crashed", "refused"}, Over(j, how), run' = run,
         how = "refused" => job[j].kind = "upload"
  PROVE  JobsInOrder'
<1>1. PICK q \in IndexJobs :
           /\ job' = [job EXCEPT ![j] = q] /\ q.step = "done" /\ q.did = how
           /\ q.kind = job[j].kind /\ q.faulty = job[j].faulty
  BY OverIs
<1>2. /\ run[j] \in {"none", "running"} /\ run[j] \in RunStates
      /\ run' = [run EXCEPT ![j] = run[j]]
  BY AtWork DEF Agrees
<1>3. Agrees(q, run[j])
  BY <1>1, <1>2, VisibilityAssumption DEF VisibilityAssumption, Agrees
<1> QED BY <1>1, <1>2, <1>3, OneRequest

\* A request that goes on to its next step.
LEMMA RequestGoesOn ==
  ASSUME JobsInOrder, NEW j \in Jobs, job[j] # NoJobYet, job[j].step # "done", run' = run,
         NEW step \in {"look", "write", "own"}, NEW replace \in BOOLEAN,
         \/ job' = [job EXCEPT ![j].step = step]
         \/ job' = [job EXCEPT ![j].step = step, ![j].replace = replace]
  PROVE  JobsInOrder'
<1> PICK p : p = job[j]
  OBVIOUS
<1>1. /\ p \in IndexJobs /\ Agrees(p, run[j]) /\ run[j] \in RunStates
      /\ run' = [run EXCEPT ![j] = run[j]] /\ job \in [Jobs -> IndexJobs \cup {NoJobYet}]
  BY AtWork
<1>2. PICK q : /\ q = [p EXCEPT !.step = step] \/ q = [p EXCEPT !.step = step, !.replace = replace]
               /\ job' = [job EXCEPT ![j] = q]
  BY <1>1
<1>3. /\ q \in IndexJobs /\ q.step = step /\ q.did = p.did /\ q.faulty = p.faulty
      /\ q.kind = p.kind
  BY <1>1, <1>2 DEF IndexJobs
<1>4. Agrees(q, run[j])
  BY <1>1, <1>3, VisibilityAssumption DEF VisibilityAssumption, Agrees
<1> QED BY <1>1, <1>2, <1>3, <1>4, OneRequest

\* A request begins, its run recorded or not.
LEMMA BeginsInOrder ==
  ASSUME JobsInOrder, NEW j \in Jobs, NEW c \in Persons \cup {Anyone}, NEW d \in Docs,
         NEW kind \in {"index", "upload"}, Begin(j, kind, c, d)
  PROVE  JobsInOrder'
<1>1. PICK faulty \in BOOLEAN, recorded \in BOOLEAN :
        /\ recorded \/ faulty
        /\ run' = [run EXCEPT ![j] = IF recorded THEN "running" ELSE "none"]
        /\ job' = [job EXCEPT ![j] = [step |-> "look", kind |-> kind, by |-> c, doc |-> d,
                                      replace |-> FALSE, did |-> "nothing", faulty |-> faulty]]
  BY DEF Begin
<1> PICK q : q = [step |-> "look", kind |-> kind, by |-> c, doc |-> d,
                  replace |-> FALSE, did |-> "nothing", faulty |-> faulty]
  OBVIOUS
<1>2. q \in IndexJobs /\ q.step = "look" /\ q.did = "nothing" /\ q.faulty = faulty
  BY DEF IndexJobs
<1>3. PICK s \in RunStates : /\ s \in {"running", "none"} /\ (s = "none" => q.faulty)
                             /\ run' = [run EXCEPT ![j] = s]
  <2>1. CASE recorded = TRUE
    BY <1>1, <2>1 DEF RunStates
  <2>2. CASE recorded = FALSE
    BY <1>1, <1>2, <2>2 DEF RunStates
  <2> QED BY <2>1, <2>2
<1>4. Agrees(q, s)
  BY <1>2, <1>3, VisibilityAssumption DEF VisibilityAssumption, Agrees
<1> QED BY <1>1, <1>2, <1>3, <1>4, OneRequest

\* The request writes, and the chunks are in order after it.
LEMMA WritesInOrder ==
  ASSUME RowsInOrder, JobsInOrder, NEW j \in Jobs, job[j] # NoJobYet, NEW I \in Indices,
         Write(j, I) \/ WriteFails(j) \/ AssignOwner(j)
  PROVE  RowsInOrder'
<1> PICK d : d = job[j].doc
  OBVIOUS
<1>0. /\ job[j] \in IndexJobs /\ d \in Docs /\ UNCHANGED known
      /\ rows \in [Docs -> Tables] /\ merged \subseteq Docs /\ known \subseteq Persons
      /\ \A e \in Docs : InOrder(rows[e], known, e \in merged)
  BY AtWork DEF IndexJobs, RowsInOrder, Write, WriteFails, AssignOwner
<1>1. CASE Write(j, I)
  <2>1. rows' = [rows EXCEPT ![d] = NewChunks(I)] /\ merged' = merged \ {d}
    BY <1>1 DEF Write
  <2>2. InOrder(NewChunks(I), known, d \in merged')
    BY IndicesAre, NewInOrder
  <2> QED BY <1>0, <2>1, <2>2, OneDocument
<1>2. CASE WriteFails(j)
  <2>1. /\ merged' = merged \ {d}
        /\ \/ rows' = [rows EXCEPT ![d] = NewChunks(DOMAIN rows[d])]
           \/ rows' = [rows EXCEPT ![d] = NoRows]
    BY <1>2 DEF WriteFails
  <2>2. DOMAIN rows[d] \in SUBSET (1 .. MaxChunks)
    BY <1>0, TableHas
  <2>3. /\ InOrder(NewChunks(DOMAIN rows[d]), known, d \in merged')
        /\ InOrder(NoRows, known, d \in merged')
    BY <2>2, NewInOrder
  <2> QED BY <1>0, <2>1, <2>3, OneDocument
<1>3. CASE AssignOwner(j)
  <2>1. UNCHANGED merged
    BY <1>3 DEF AssignOwner
  <2>2. CASE rows' = rows
    BY <1>0, <2>1, <2>2 DEF RowsInOrder
  <2>3. CASE rows' # rows
    <3> PICK o : o = job[j].by
      OBVIOUS
    <3> PICK r : r = rows[d]
      OBVIOUS
    <3> PICK m : m = (d \in merged)
      OBVIOUS
    <3> PICK P : P = known
      OBVIOUS
    <3> PICK s : s = [i \in DOMAIN r |-> [r[i] EXCEPT !.owner = o]]
      OBVIOUS
    <3>1. o \in known /\ rows' = [rows EXCEPT ![d] = s]
      BY <1>3, <2>3, <1>0 DEF AssignOwner
    <3>2. /\ InOrder(r, P, m) /\ P \in SUBSET Persons /\ o \in P \cup {Nobody}
          /\ Updated(s, r, o, "shared") /\ "shared" \in {"shared", "private"}
      BY <1>0, <3>1 DEF Updated
    <3>3. InOrder(s, P, m)
      BY <3>2, RepaintedInOrder
    <3>4. InOrder(s, known, d \in merged')
      BY <2>1, <3>3
    <3> QED BY <1>0, <2>1, <3>1, <3>4, OneDocument
  <2> QED BY <2>2, <2>3
<1> QED BY <1>1, <1>2, <1>3

\* Every step of a request keeps the requests in order.
LEMMA RequestSteps ==
  ASSUME JobsInOrder, NEW j \in Jobs, job[j] # NoJobYet, NEW I \in Indices,
         \/ RefuseForm(j) \/ SkipSame(j) \/ Look(j) \/ RefuseReplace(j) \/ ProcessFails(j)
         \/ Write(j, I) \/ WriteFails(j) \/ AssignOwner(j) \/ JobCrashes(j)
  PROVE  JobsInOrder'
<1>1. job[j].step # "done"
  BY DEF RefuseForm, SkipSame, Look, RefuseReplace, ProcessFails, Write, WriteFails, AssignOwner,
         JobCrashes
<1>2. CASE RefuseForm(j)
  BY <1>1, <1>2, LeavesItsRun DEF RefuseForm
<1>3. CASE JobCrashes(j)
  BY <1>1, <1>3, LeavesItsRun DEF JobCrashes
<1>4. CASE SkipSame(j)
  BY <1>1, <1>4, EndsInOrder DEF SkipSame
<1>5. CASE AssignOwner(j)
  BY <1>1, <1>5, EndsInOrder DEF AssignOwner
<1>6. CASE WriteFails(j)
  BY <1>1, <1>6, EndsInOrder DEF WriteFails
<1>7. CASE ProcessFails(j)
  BY <1>1, <1>7, EndsInOrder DEF ProcessFails
<1>8. CASE RefuseReplace(j)
  <2>1. CASE job[j].kind = "index"
    BY <1>1, <1>8, <2>1, EndsInOrder DEF RefuseReplace
  <2>2. CASE job[j].kind # "index"
    <3>1. job[j].kind = "upload"
      BY <2>2, AtWork DEF IndexJobs
    <3> QED BY <1>1, <1>8, <2>2, <3>1, LeavesItsRun DEF RefuseReplace
  <2> QED BY <2>1, <2>2
<1>9. CASE Look(j)
  <2>1. There(job[j].doc) \in BOOLEAN
    BY DEF There
  <2>2. run' = run /\ job' = [job EXCEPT ![j].step = "write", ![j].replace = There(job[j].doc)]
    BY <1>9 DEF Look
  <2> QED BY <1>1, <2>1, <2>2, RequestGoesOn
<1>10. CASE Write(j, I)
  <2>1. run' = run /\ job' = [job EXCEPT ![j].step = "own"]
    BY <1>10 DEF Write, Step, Recorded
  <2> QED BY <1>1, <2>1, RequestGoesOn
<1> QED BY <1>2, <1>3, <1>4, <1>5, <1>6, <1>7, <1>8, <1>9, <1>10
\* A document that is there has a chunk.
LEMMA ThereHasChunks ==
  ASSUME RowsInOrder, NEW d \in Docs, There(d)
  PROVE  \E i \in DOMAIN rows[d] : TRUE
<1>1. rows[d] = [i \in DOMAIN rows[d] |-> rows[d][i]]
  BY TableHas DEF RowsInOrder
<1> QED BY <1>1 DEF There, NoRows

\* What the invariant says of the readers.
LEMMA OrderedReadersAgree == RowsInOrder => ReadersAgree
<1> SUFFICES ASSUME RowsInOrder, NEW c \in Persons \cup {Anyone}
             PROVE  /\ SearchShows(c) \ merged \subseteq ListShows(c)
                    /\ (ListShows(c) \ merged) \cap HiddenIds(c) = {}
  BY DEF ReadersAgree
<1>0. \A d \in Docs : \A i \in DOMAIN rows[d] : rows[d][i].vis \in {"shared", "private"}
  BY TableHas DEF RowsInOrder, Chunk
<1>1. ASSUME NEW d \in SearchShows(c)  PROVE d \in ListShows(c)
  <2>1. d \in Docs /\ There(d) /\ d \notin HiddenIds(c)
    BY DEF SearchShows
  <2> PICK i \in DOMAIN rows[d] : TRUE
    BY <2>1, ThereHasChunks
  <2>2. Clause(c, rows[d][i])
    <3>1. CASE c \in Chiefs
      BY <3>1 DEF Clause
    <3>2. CASE c \notin Chiefs
      <4>1. rows[d][i].vis # "private" \/ rows[d][i].owner = Nobody \/ rows[d][i].owner = c
        BY <2>1, <3>2 DEF HiddenIds
      <4>2. rows[d][i].owner = Nobody \/ rows[d][i].owner \in Persons
        BY <2>1 DEF RowsInOrder, InOrder, OwnersIn
      <4> QED BY <1>0, <2>1, <4>1, <4>2, VisibilityAssumption DEF Clause, VisibilityAssumption
    <3> QED BY <3>1, <3>2
  <2> QED BY <2>1, <2>2 DEF ListShows
<1>2. ASSUME NEW d \in ListShows(c), d \in HiddenIds(c), d \notin merged  PROVE FALSE
  <2>1. d \in Docs /\ c \notin Chiefs
    BY <1>2 DEF ListShows, HiddenIds
  <2> PICK i \in DOMAIN rows[d] : Clause(c, rows[d][i])
    BY DEF ListShows
  <2> PICK k \in DOMAIN rows[d] : /\ rows[d][k].vis = "private" /\ rows[d][k].owner # Nobody
                                  /\ rows[d][k].owner # c
    BY <1>2, <2>1 DEF HiddenIds
  <2>2. Uniform(rows[d])
    BY <1>2, <2>1 DEF RowsInOrder, InOrder
  <2>3. rows[d][i].owner = rows[d][k].owner /\ rows[d][i].vis = rows[d][k].vis
    BY <2>2 DEF Uniform
  <2> QED BY <2>1, <2>3 DEF Clause
<1> QED BY <1>1, <1>2

\* The invariant of documents and requests.
LEMMA VisibilityInvHolds == VisibilitySpec => []VisibilityInv
<1>1. VisibilityInit => VisibilityInv
  <2> SUFFICES ASSUME VisibilityInit  PROVE VisibilityInv
    OBVIOUS
  <2>1. /\ rows = [d \in Docs |-> NoRows] /\ merged = {} /\ known = Persons
        /\ job = [j \in Jobs |-> NoJobYet] /\ run = [j \in Jobs |-> "none"]
    BY DEF VisibilityInit
  <2>2. InOrder(NoRows, known, FALSE) /\ NoRows \in Tables
    BY NewInOrder DEF InOrder
  <2>3. RowsInOrder
    BY <2>1, <2>2 DEF RowsInOrder, InOrder
  <2>4. JobsInOrder
    BY <2>1 DEF JobsInOrder, JobTypes, RunStates, Agrees
  <2> QED BY <2>3, <2>4 DEF VisibilityInv
<1>2. VisibilityInv /\ [VisibilityNext]_visibilityVars => VisibilityInv'
  <2> SUFFICES ASSUME RowsInOrder, JobsInOrder, [VisibilityNext]_visibilityVars
               PROVE  RowsInOrder' /\ JobsInOrder'
    BY DEF VisibilityInv
  <2>0. /\ UNCHANGED <<job, run>> => JobsInOrder'
        /\ UNCHANGED <<rows, merged, known>> => RowsInOrder'
    BY DEF JobsInOrder, JobTypes, Agrees, RowsInOrder
  <2> PICK any \in Indices : TRUE
    <3>1. 1 .. 1 \in Indices
      BY VisibilityAssumption DEF VisibilityAssumption, Indices
    <3> QED BY <3>1
  <2>1. ASSUME NEW d, NEW c, NEW v \in {"shared", "private"}, NEW ds \in SUBSET Docs,
               \/ SetVisibility(c, d, v) \/ SetBoth(d, c, v) \/ Transfer(d, c)
               \/ BulkSetVisibility(ds, v)
        PROVE  RowsInOrder' /\ JobsInOrder'
    <3>1. RowsInOrder'
      BY <2>1, Updates
    <3>2. UNCHANGED <<job, run>>
      BY <2>1 DEF SetVisibility, SetBoth, Transfer, BulkSetVisibility, Keep
    <3> QED BY <2>0, <3>1, <3>2
  <2>2. ASSUME NEW d, NEW c, NEW J \in Indices,
               DeleteCaller(c) \/ (d \in Docs /\ (DeleteRows(d) \/ Restore(d, J)))
        PROVE  RowsInOrder' /\ JobsInOrder'
    <3>1. RowsInOrder'
      BY <2>2, OtherRowSteps
    <3>2. UNCHANGED <<job, run>>
      BY <2>2 DEF DeleteCaller, DeleteRows, Restore
    <3> QED BY <2>0, <3>1, <3>2
  <2>3. ASSUME NEW s, GrantSpace(s) \/ RevokeSpace(s)
        PROVE  RowsInOrder' /\ JobsInOrder'
    BY <2>0, <2>3 DEF GrantSpace, RevokeSpace
  <2>4. CASE \E j \in Jobs : Index(j)
    <3> PICK j \in Jobs : Index(j)
      BY <2>4
    <3>1. CASE \E c \in Persons \cup {Anyone}, d \in Docs, kind \in {"index", "upload"} :
                 Begin(j, kind, c, d)
      <4>1. PICK c \in Persons \cup {Anyone}, d \in Docs, kind \in {"index", "upload"} :
                  Begin(j, kind, c, d)
        BY <3>1
      <4>2. JobsInOrder'
        BY <4>1, BeginsInOrder
      <4>3. UNCHANGED <<rows, merged, known>>
        BY <4>1 DEF Begin
      <4> QED BY <2>0, <4>2, <4>3
    <3>2. CASE /\ job[j] # NoJobYet
               /\ \/ RefuseForm(j) \/ SkipSame(j) \/ Look(j) \/ RefuseReplace(j)
                  \/ ProcessFails(j) \/ JobCrashes(j)
      <4>1. UNCHANGED <<rows, merged, known>>
        BY <3>2 DEF RefuseForm, SkipSame, Look, RefuseReplace, ProcessFails, JobCrashes
      <4> QED BY <2>0, <3>2, <4>1, RequestSteps
    <3>3. CASE /\ job[j] # NoJobYet
               /\ (\E I \in Indices : Write(j, I)) \/ WriteFails(j) \/ AssignOwner(j)
      <4> PICK J \in Indices : Write(j, J) \/ WriteFails(j) \/ AssignOwner(j)
        BY <3>3
      <4> QED BY <3>3, RequestSteps, WritesInOrder
    <3> QED BY <3>1, <3>2, <3>3 DEF Index
  <2>5. CASE UNCHANGED visibilityVars
    BY <2>0, <2>5 DEF visibilityVars
  <2>6. CASE \E d \in Docs, v \in {"shared", "private"} :
               \E c \in Persons : SetVisibility(c, d, v) \/ SetBoth(d, c, v) \/ Transfer(d, c)
    BY <2>1, <2>6
  <2>7. CASE \E ds \in SUBSET Docs, v \in {"shared", "private"} : BulkSetVisibility(ds, v)
    BY <2>1, <2>7
  <2>8. CASE \/ \E c \in Persons : DeleteCaller(c)
             \/ \E d \in Docs : DeleteRows(d) \/ \E J \in Indices : Restore(d, J)
    BY <2>2, <2>8
  <2>9. CASE \E s \in {SpaceOf[d] : d \in Docs} \cup {"*"} : GrantSpace(s) \/ RevokeSpace(s)
    BY <2>3, <2>9
  <2> QED BY <2>4, <2>5, <2>6, <2>7, <2>8, <2>9 DEF VisibilityNext
<1> QED BY <1>1, <1>2, PTL DEF VisibilitySpec

\* For any users, documents and requests: every chunk is of a user that exists or of
\* nobody, and every run has one of the states the database allows (deleting a user
\* leaves its chunks to nobody).
THEOREM VisibilityTyped == VisibilitySpec => []VisibilityTypeOK
<1>1. VisibilityInv => VisibilityTypeOK
  <2> SUFFICES ASSUME VisibilityInv  PROVE VisibilityTypeOK
    OBVIOUS
  <2>1. ASSUME NEW d \in Docs
        PROVE  /\ DOMAIN rows[d] \subseteq 1 .. MaxChunks
               /\ \A i \in DOMAIN rows[d] : /\ rows[d][i] \in Chunk
                                           /\ rows[d][i].owner \in known \cup {Nobody}
    BY TableHas DEF VisibilityInv, RowsInOrder, InOrder, OwnersIn
  <2>2. ASSUME NEW j \in Jobs
        PROVE  run[j] \in RunStates /\ job[j] \in IndexJobs \cup {NoJobYet}
    BY DEF VisibilityInv, JobsInOrder, JobTypes
  <2> QED BY <2>1, <2>2 DEF VisibilityTypeOK, VisibilityInv, RowsInOrder, RunStates
<1> QED BY <1>1, VisibilityInvHolds, PTL

\* The listing and the search show a caller the same documents, after any sequence of
\* uploads, restores, changes of owner and visibility and deletions of users
\* (document_visibility.py and the filters of the repository).
THEOREM ReadersAgreeHolds == VisibilitySpec => []ReadersAgree
<1>1. VisibilityInv => ReadersAgree
  BY OrderedReadersAgree DEF VisibilityInv
<1> QED BY <1>1, VisibilityInvHolds, PTL

\* A run says success only of a request that indexed its document or had nothing to do,
\* and a request that came to its end has a finished run (start_run, complete_run in the
\* two indexing endpoints).
THEOREM RunsTellTheTruthHolds == VisibilitySpec => []RunsTellTheTruth
<1>1. VisibilityInv => RunsTellTheTruth
  BY DEF VisibilityInv, JobsInOrder, Agrees, RunsTellTheTruth
<1> QED BY <1>1, VisibilityInvHolds, PTL

=============================================================================
