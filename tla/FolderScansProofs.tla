-------------------------- MODULE FolderScansProofs --------------------------
(***************************************************************************)
(* Proofs about FolderScans, for any number of watched roots, files and    *)
(* callers: a path has one server root and one root for each executor; the *)
(* count of running scans is exact; and a scan that nothing disturbed has  *)
(* left the index as the disk is, beside other such scans.                 *)
(***************************************************************************)
EXTENDS FolderScans, FiniteSetTheorems, TLAPS

(***************************************************************************)
(* The roots.                                                              *)
(***************************************************************************)

Owned(scope, executor) == scope = "client" <=> executor # NoExecutor

FolderTypes ==
  /\ root \in [Roots -> Row \cup {NoRoot}]
  /\ adding \in [Callers -> Addition \cup {NotAdding}]

\* Rows and additions in hand have an executor exactly if they are a client's.
FolderInv ==
  /\ FolderTypes /\ RootsUnique
  /\ \A c \in Callers : adding[c] # NotAdding => Owned(adding[c].scope, adding[c].executor)

\* A row whose owner stays what it was, or that is gone, is in nobody's way.
LEMMA KeptOwner ==
  ASSUME FolderInv, root' \in [Roots -> Row \cup {NoRoot}],
         adding' \in [Callers -> Addition \cup {NotAdding}],
         \A r \in Roots : root'[r] # NoRoot =>
           /\ r \in Rows
           /\ root'[r].scope = root[r].scope /\ root'[r].executor = root[r].executor,
         \A c \in Callers : adding'[c] \in {adding[c], NotAdding}
                            \/ Owned(adding'[c].scope, adding'[c].executor)
  PROVE  FolderInv'
<1>1. RootsUnique'
  BY DEF FolderInv, RootsUnique, Rows
<1>2. \A c \in Callers : adding'[c] # NotAdding => Owned(adding'[c].scope, adding'[c].executor)
  BY DEF FolderInv
<1> QED BY <1>1, <1>2 DEF FolderInv, FolderTypes, Owned

\* So is one row that keeps its owner, or goes.
LEMMA KeptRow ==
  ASSUME FolderInv, NEW r \in Rows, NEW row \in Row \cup {NoRoot},
         root' = [root EXCEPT ![r] = row],
         row # NoRoot => row.scope = root[r].scope /\ row.executor = root[r].executor,
         adding' \in [Callers -> Addition \cup {NotAdding}],
         \A c \in Callers : adding'[c] \in {adding[c], NotAdding}
  PROVE  FolderInv'
<1>1. r \in Roots
  BY DEF Rows
<1>2. root' \in [Roots -> Row \cup {NoRoot}]
  BY <1>1 DEF FolderInv, FolderTypes
<1>3. \A q \in Roots : root'[q] = IF q = r THEN row ELSE root[q]
  BY <1>1 DEF FolderInv, FolderTypes
<1>4. \A q \in Roots : root'[q] # NoRoot =>
        q \in Rows /\ root'[q].scope = root[q].scope /\ root'[q].executor = root[q].executor
  BY <1>3 DEF Rows
<1> QED BY <1>2, <1>4, KeptOwner

\* A row that gets an owner the unique indexes accept is the only one of its kind.
LEMMA NewOwner ==
  ASSUME FolderInv, NEW r \in Roots, NEW row \in Row, root' = [root EXCEPT ![r] = row],
         NEW self, self = r \/ self \notin Rows,
         Accepted(row.scope, row.executor, self), Owned(row.scope, row.executor),
         adding' \in [Callers -> Addition \cup {NotAdding}],
         \A c \in Callers : adding'[c] \in {adding[c], NotAdding}
  PROVE  FolderInv'
<1>1. root' \in [Roots -> Row \cup {NoRoot}]
  BY DEF FolderInv, FolderTypes
<1>2. \A q \in Roots \ {r} : root'[q] = root[q] /\ (root'[q] # NoRoot <=> q \in Rows)
  BY DEF FolderInv, FolderTypes, Rows
<1>3. root'[r] = row
  BY DEF FolderInv, FolderTypes
<1>4. \A q \in Rows \ {r} : q # self =>
        ~(root[q].scope = row.scope /\ (row.scope = "client" => root[q].executor = row.executor))
  BY DEF Accepted, Conflicting
<1>5. RootsUnique'
  BY <1>2, <1>3, <1>4 DEF FolderInv, RootsUnique, Rows, Owned
<1> QED BY <1>1, <1>5 DEF FolderInv, FolderTypes, Owned
\* Each change of the rows, of any kind.
LEMMA FolderEditStep ==
  ASSUME FolderInv, FolderEdit
  PROVE  FolderInv'
<1>1. CASE \E c \in Callers, scope \in {"client", "server"},
              e \in Executors \cup {NoExecutor} : AddCheck(c, scope, e)
  <2>1. PICK c \in Callers, scope \in {"client", "server"},
             e \in Executors \cup {NoExecutor} : AddCheck(c, scope, e)
    BY <1>1
  <2>2. PICK x \in Roots \cup {NoRoot} :
          adding' = [adding EXCEPT ![c] = [scope |-> scope, executor |-> e, existing |-> x]]
    BY <2>1 DEF AddCheck, Conflicting, Rows
  <2>3. root' = root /\ Owned(scope, e)
    BY <2>1 DEF AddCheck, Owned
  <2>4. adding' \in [Callers -> Addition \cup {NotAdding}]
    BY <2>2 DEF FolderInv, FolderTypes, Addition
  <2>5. \A d \in Callers : adding'[d] = adding[d] \/ Owned(adding'[d].scope, adding'[d].executor)
    BY <2>2, <2>3 DEF FolderInv, FolderTypes
  <2> QED BY <2>3, <2>4, <2>5, KeptOwner DEF FolderInv, FolderTypes, Rows
<1>2. CASE \E c \in Callers : AddUpdate(c)
  <2>1. PICK c \in Callers : AddUpdate(c)
    BY <1>2
  <2>2. adding' \in [Callers -> Addition \cup {NotAdding}]
        /\ \A d \in Callers : adding'[d] \in {adding[d], NotAdding}
    BY <2>1 DEF AddUpdate, FolderInv, FolderTypes
  <2>3. CASE root' = root
    BY <2>2, <2>3, KeptOwner DEF FolderInv, FolderTypes, Rows
  <2>4. CASE \E r \in Rows : root' = [root EXCEPT ![r].enabled = TRUE, ![r].paused = FALSE]
    <3>1. PICK r \in Rows : root' = [root EXCEPT ![r].enabled = TRUE, ![r].paused = FALSE]
      BY <2>4
    <3> DEFINE row == [root[r] EXCEPT !.enabled = TRUE, !.paused = FALSE]
    <3>2. r \in Roots /\ root[r] \in Row
      BY DEF FolderInv, FolderTypes, Rows
    <3>3. row \in Row /\ row.scope = root[r].scope /\ row.executor = root[r].executor
      BY <3>2 DEF Row
    <3>4. root' = [root EXCEPT ![r] = row]
      BY <3>1, <3>2 DEF FolderInv, FolderTypes
    <3> HIDE DEF row
    <3> QED BY <2>2, <3>3, <3>4, KeptRow
  <2> QED BY <2>1, <2>3, <2>4 DEF AddUpdate
<1>3. CASE \E c \in Callers : AddInsert(c)
  <2>1. PICK c \in Callers : AddInsert(c)
    BY <1>3
  <2> DEFINE a == adding[c]
  <2>2. a \in Addition /\ Owned(a.scope, a.executor)
    BY <2>1 DEF AddInsert, FolderInv, FolderTypes
  <2>3. adding' \in [Callers -> Addition \cup {NotAdding}]
        /\ \A d \in Callers : adding'[d] \in {adding[d], NotAdding}
    BY <2>1 DEF AddInsert, FolderInv, FolderTypes
  <2>4. CASE root' = root
    BY <2>3, <2>4, KeptOwner DEF FolderInv, FolderTypes, Rows
  <2>5. CASE /\ Accepted(a.scope, a.executor, NoRoot)
             /\ \E r \in Roots \ Rows : root' = [root EXCEPT ![r] = Fresh(a.scope, a.executor)]
    <3>1. PICK r \in Roots \ Rows : root' = [root EXCEPT ![r] = Fresh(a.scope, a.executor)]
      BY <2>5
    <3> DEFINE row == Fresh(a.scope, a.executor)
    <3>2. row \in Row /\ row.scope = a.scope /\ row.executor = a.executor
      BY <2>2, FolderAssumption DEF Fresh, Row, Addition
    <3>3. NoRoot \notin Rows
      BY FolderAssumption DEF Rows
    <3> HIDE DEF row
    <3> QED BY <2>2, <2>3, <2>5, <3>1, <3>2, <3>3, NewOwner DEF row
  <2> QED BY <2>1, <2>4, <2>5 DEF AddInsert
<1>4. CASE \E r \in Roots : RemoveFolder(r) \/ UpdateFolder(r) \/ PauseRoot(r) \/ ResumeRoot(r)
  <2>1. PICK r \in Rows : \/ root' = [root EXCEPT ![r] = NoRoot]
                          \/ root' = [root EXCEPT ![r].enabled = ~@]
                          \/ root' = [root EXCEPT ![r].paused = TRUE]
                          \/ root' = [root EXCEPT ![r].paused = FALSE, ![r].failures = 0]
    BY <1>4 DEF RemoveFolder, UpdateFolder, PauseRoot, ResumeRoot
  <2>2. adding' = adding
    BY <1>4 DEF RemoveFolder, UpdateFolder, PauseRoot, ResumeRoot
  <2>3. r \in Roots /\ root[r] \in Row
    BY DEF FolderInv, FolderTypes, Rows
  <2>4. ASSUME NEW row, root' = [root EXCEPT ![r] = row], row \in Row \cup {NoRoot},
               row # NoRoot => row.scope = root[r].scope /\ row.executor = root[r].executor
        PROVE  FolderInv'
    BY <2>2, <2>4, KeptRow DEF FolderInv, FolderTypes
  <2>5. CASE root' = [root EXCEPT ![r] = NoRoot]
    BY <2>4, <2>5
  <2>6. CASE root' = [root EXCEPT ![r].enabled = ~@]
    <3> DEFINE row == [root[r] EXCEPT !.enabled = ~@]
    <3>1. row \in Row /\ row.scope = root[r].scope /\ row.executor = root[r].executor
      BY <2>3 DEF Row
    <3>2. root' = [root EXCEPT ![r] = row]
      BY <2>3, <2>6 DEF FolderInv, FolderTypes
    <3> HIDE DEF row
    <3> QED BY <2>4, <3>1, <3>2
  <2>7. CASE root' = [root EXCEPT ![r].paused = TRUE]
    <3> DEFINE row == [root[r] EXCEPT !.paused = TRUE]
    <3>1. row \in Row /\ row.scope = root[r].scope /\ row.executor = root[r].executor
      BY <2>3 DEF Row
    <3>2. root' = [root EXCEPT ![r] = row]
      BY <2>3, <2>7 DEF FolderInv, FolderTypes
    <3> HIDE DEF row
    <3> QED BY <2>4, <3>1, <3>2
  <2>8. CASE root' = [root EXCEPT ![r].paused = FALSE, ![r].failures = 0]
    <3> DEFINE row == [root[r] EXCEPT !.paused = FALSE, !.failures = 0]
    <3>1. row \in Row /\ row.scope = root[r].scope /\ row.executor = root[r].executor
      <4>1. 0 \in 0..MaxStreak
        BY FolderAssumption
      <4> QED BY <2>3, <4>1, Zenon DEF Row
    <3>2. root' = [root EXCEPT ![r] = row]
      BY <2>3, <2>8 DEF FolderInv, FolderTypes
    <3> HIDE DEF row
    <3> QED BY <2>4, <3>1, <3>2
  <2> QED BY <2>1, <2>5, <2>6, <2>7, <2>8
<1>5. CASE \E r \in Roots, scope \in {"client", "server"},
              e \in Executors \cup {NoExecutor} : TransitionScope(r, scope, e)
  <2>1. PICK r \in Roots, scope \in {"client", "server"},
             e \in Executors \cup {NoExecutor} : TransitionScope(r, scope, e)
    BY <1>5
  <2>2. adding' = adding /\ r \in Rows /\ Owned(scope, e) /\ root[r] \in Row
    BY <2>1 DEF TransitionScope, Owned, FolderInv, FolderTypes, Rows
  <2>3. CASE root' = root
    BY <2>2, <2>3, KeptOwner DEF FolderInv, FolderTypes, Rows
  <2>4. CASE /\ Accepted(scope, e, r)
             /\ root' = [root EXCEPT ![r].scope = scope, ![r].executor = e]
    <3> DEFINE row == [root[r] EXCEPT !.scope = scope, !.executor = e]
    <3>1. row \in Row /\ row.scope = scope /\ row.executor = e
      BY <2>2 DEF Row
    <3>2. root' = [root EXCEPT ![r] = row]
      BY <2>2, <2>4 DEF FolderInv, FolderTypes
    <3> HIDE DEF row
    <3> QED BY <2>2, <2>4, <3>1, <3>2, NewOwner DEF FolderInv, FolderTypes
  <2> QED BY <2>1, <2>3, <2>4 DEF TransitionScope
<1> QED BY <1>1, <1>2, <1>3, <1>4, <1>5 DEF FolderEdit

\* What the scheduler writes to a row leaves its owner alone.
LEMMA ScansKeepOwners ==
  ASSUME FolderInv, adding' = adding,
         \/ root' = root \/ root' = Aged
         \/ \E r, ok : root' \in {Watermarked(r, ok), Scanned(r)}
  PROVE  FolderInv'
<1>1. CASE root' = root
  BY <1>1, KeptOwner DEF FolderInv, FolderTypes, Rows
<1>2. CASE root' = Aged
  <2> DEFINE row(r) == [root[r] EXCEPT !.errorAge = Older(@, Backoff),
                                       !.scanAge = Older(@, Interval)]
  <2>1. \A r \in Rows : r \in Roots /\ root[r] \in Row
    BY DEF FolderInv, FolderTypes, Rows
  <2>2. \A n \in 0..Backoff : Older(n, Backoff) \in 0..Backoff
    BY FolderAssumption DEF Older
  <2>3. \A n \in 0..Interval : Older(n, Interval) \in 0..Interval
    BY FolderAssumption DEF Older
  <2>4. \A r \in Rows : row(r) \in Row /\ row(r).scope = root[r].scope
                                     /\ row(r).executor = root[r].executor
    BY <2>1, <2>2, <2>3 DEF Row
  <2>5. root' = [r \in Roots |-> IF r \notin Rows THEN NoRoot ELSE row(r)]
    BY <1>2 DEF Aged
  <2> HIDE DEF row
  <2> QED BY <2>4, <2>5, KeptOwner DEF FolderInv, FolderTypes
<1>3. ASSUME NEW r \in Rows, NEW row \in Row, root' = [root EXCEPT ![r] = row],
             row.scope = root[r].scope, row.executor = root[r].executor
      PROVE  FolderInv'
  BY <1>3, KeptRow DEF FolderInv, FolderTypes
<1>4. ASSUME NEW r \in Rows, NEW ok, root' = Watermarked(r, ok)
      PROVE  FolderInv'
  <2> DEFINE row == IF ok THEN [root[r] EXCEPT !.failures = 0]
                    ELSE [root[r] EXCEPT !.failures = IF @ < MaxStreak THEN @ + 1 ELSE @,
                                         !.errorAge = 0]
  <2>1. r \in Roots /\ root[r] \in Row
    BY DEF FolderInv, FolderTypes, Rows
  <2>2. row \in Row /\ row.scope = root[r].scope /\ row.executor = root[r].executor
    <3>1. CASE ok
      <4>1. row = [root[r] EXCEPT !.failures = 0] /\ 0 \in 0..MaxStreak
        BY <3>1, FolderAssumption
      <4> HIDE DEF row
      <4> QED BY <2>1, <4>1 DEF Row
    <3>2. CASE ~ok
      <4> DEFINE n == IF root[r].failures < MaxStreak THEN root[r].failures + 1
                      ELSE root[r].failures
      <4>1. n \in 0..MaxStreak
        BY <2>1, FolderAssumption DEF Row
      <4>2. row = [root[r] EXCEPT !.failures = n, !.errorAge = 0]
        BY <2>1, <3>2 DEF Row
      <4>3. 0 \in 0..Backoff
        BY FolderAssumption
      <4> HIDE DEF n, row
      <4> QED BY <2>1, <4>1, <4>2, <4>3, Zenon DEF Row
    <3> QED BY <3>1, <3>2
  <2>3. root' = [root EXCEPT ![r] = row]
    BY <1>4, <2>1 DEF Watermarked, FolderInv, FolderTypes
  <2> HIDE DEF row
  <2> QED BY <1>3, <2>2, <2>3
<1>5. ASSUME NEW r \in Rows, root' = Scanned(r)
      PROVE  FolderInv'
  <2> DEFINE row == [root[r] EXCEPT !.scanAge = 0]
  <2>1. r \in Roots /\ root[r] \in Row
    BY DEF FolderInv, FolderTypes, Rows
  <2>2. row \in Row /\ row.scope = root[r].scope /\ row.executor = root[r].executor
    BY <2>1, FolderAssumption DEF Row
  <2>3. root' = [root EXCEPT ![r] = row]
    BY <1>5, <2>1 DEF Scanned, FolderInv, FolderTypes
  <2> HIDE DEF row
  <2> QED BY <1>3, <2>2, <2>3
<1>6. ASSUME NEW r, r \notin Rows, NEW ok, root' \in {Watermarked(r, ok), Scanned(r)}
      PROVE  FolderInv'
  BY <1>1, <1>6 DEF Watermarked, Scanned
<1> QED BY <1>1, <1>2, <1>4, <1>5, <1>6

\* Every step keeps what FolderInv says: edits of folders by their lemma, scans write no owner.
LEMMA FolderInvStep ==
  ASSUME FolderInv, [ScanNext]_allVars
  PROVE  FolderInv'
<1>1. CASE FolderEdit
  BY <1>1, FolderEditStep
<1>2. CASE adding' = adding /\ root' = root
  BY <1>2, ScansKeepOwners
<1>3. CASE UNCHANGED allVars
  BY <1>2, <1>3 DEF allVars, folderVars
<1>4. CASE Loop \/ Stop \/ Start \/ Crash \/ Mount \/ PurgeExpired
  BY <1>2, <1>4 DEF Loop, Poll, LaunchDue, PassOver, Launch, Stop, Start, Crash, Mount,
     PurgeExpired, folderVars
<1>5. CASE Tick
  BY <1>5, ScansKeepOwners DEF Tick
<1>6. CASE \E k \in Slots : ThreadStep(k)
  BY <1>2, <1>6 DEF ThreadStep, Walk, IndexRead, IndexWrite, IndexFails, Report, ListIndexed,
     CheckSource, MarkSource, EndScan, folderVars
<1>7. CASE \/ \E r \in Roots : ScanRootNow(r) \/ ScanWatchedFolder(r)
           \/ \E f \in Files : ChangeFile(f) \/ RestoreQuarantined(f)
  BY <1>2, <1>7 DEF ScanRootNow, Launch, ScanWatchedFolder, ChangeFile, RestoreQuarantined,
     folderVars
<1>8. CASE EndApiScan
  BY <1>8, ScansKeepOwners DEF EndApiScan
<1>9. CASE EndOrphan
  BY <1>2, <1>9 DEF EndOrphan, folderVars
<1>10. CASE \E k \in Coroutines : TakeResult(k) \/ EndCoroutine(k)
  <2>1. adding' = adding
    BY <1>10 DEF TakeResult, EndCoroutine
  <2>2. \/ root' = root
        \/ \E k \in Coroutines : root' = Watermarked(co[k].id, scan[k].ok)
        \/ \E k \in Coroutines : root' = Scanned(co[k].id)
    BY <1>10 DEF TakeResult, EndCoroutine
  <2> QED BY <2>1, <2>2, ScansKeepOwners
<1> QED
  BY <1>1, <1>3, <1>4, <1>5, <1>6, <1>7, <1>8, <1>9, <1>10 DEF ScanNext, Ended

\* One server root to begin with.
LEMMA FolderInvInit == ScanInit => FolderInv
<1> SUFFICES ASSUME ScanInit PROVE FolderInv
  OBVIOUS
<1>1. Fresh("server", NoExecutor) \in Row
  BY FolderAssumption DEF Fresh, Row
<1>2. FolderTypes
  BY <1>1 DEF ScanInit, FolderTypes
<1>3. \A q, r \in Rows : q = r
  BY DEF ScanInit, Rows
<1>4. \A r \in Rows : root[r].scope = "server" /\ root[r].executor = NoExecutor
  BY DEF ScanInit, Rows, Fresh
<1> QED BY <1>2, <1>3, <1>4 DEF ScanInit, FolderInv, RootsUnique

\* However additions, transitions, removals and scans interleave, a path has one
\* server root at most and one root for each executor at most: add_folder's check
\* before its insert may be stale, and the partial unique indexes make up for it.
THEOREM RootsUniqueHolds == ScanSpec => []RootsUnique
<1>1. FolderInv => RootsUnique
  BY DEF FolderInv
<1> QED BY <1>1, FolderInvInit, FolderInvStep, PTL DEF ScanSpec

(***************************************************************************)
(* The count of running scans.                                             *)
(***************************************************************************)

Running(k) == IF co[k].step = "off" THEN 0 ELSE 1

\* The count, as a sum over the two coroutines.
CountInv ==
  /\ co \in [Coroutines -> [step : {"off", "thread", "mark"}, id : Roots \cup {NoRoot}]]
  /\ poll \in [id : Roots \cup {NoRoot}, scanAge : 0..Interval]
  /\ active = Running("sched") + Running("now")

\* There are two coroutines, so that a set of them is counted one by one.
LEMMA CountOfTwo ==
  ASSUME NEW S \in SUBSET Coroutines
  PROVE  Cardinality(S) = (IF "sched" \in S THEN 1 ELSE 0) + (IF "now" \in S THEN 1 ELSE 0)
<1>1. Cardinality({}) = 0 /\ \A x : Cardinality({x}) = 1
  BY FS_EmptySet, FS_Singleton
<1>2. Cardinality({"sched", "now"}) = 2
  <2>1. IsFiniteSet({"sched"}) /\ "now" \notin {"sched"}
    BY FS_Singleton
  <2>2. Cardinality({"sched"} \cup {"now"}) = Cardinality({"sched"}) + 1
    BY <2>1, FS_AddElement
  <2>3. {"sched"} \cup {"now"} = {"sched", "now"}
    OBVIOUS
  <2>4. Cardinality({"sched"}) = 1
    BY <1>1, Zenon
  <2>5. Cardinality({"sched", "now"}) = Cardinality({"sched"}) + 1
    BY <2>2, <2>3, Zenon
  <2> QED BY <2>4, <2>5
<1>3. CASE "sched" \in S /\ "now" \in S
  <2>1. S = {"sched", "now"}
    BY <1>3 DEF Coroutines
  <2> QED BY <1>2, <1>3, <2>1
<1>4. CASE "sched" \in S /\ "now" \notin S
  <2>1. S = {"sched"}
    BY <1>4 DEF Coroutines
  <2> QED BY <1>1, <1>4, <2>1
<1>5. CASE "sched" \notin S /\ "now" \in S
  <2>1. S = {"now"}
    BY <1>5 DEF Coroutines
  <2> QED BY <1>1, <1>5, <2>1
<1>6. CASE "sched" \notin S /\ "now" \notin S
  <2>1. S = {}
    BY <1>6 DEF Coroutines
  <2> QED BY <1>1, <1>6, <2>1
<1> QED BY <1>3, <1>4, <1>5, <1>6

\* The two halves of the count are the count.
LEMMA CountIsExact == CountInv => ActiveScansExact
<1> SUFFICES ASSUME CountInv PROVE ActiveScansExact
  OBVIOUS
<1> DEFINE S == {k \in Coroutines : co[k].step # "off"}
<1>1. S \in SUBSET Coroutines
  OBVIOUS
<1>2. Running("sched") = (IF "sched" \in S THEN 1 ELSE 0)
      /\ Running("now") = (IF "now" \in S THEN 1 ELSE 0)
  BY DEF Running, Coroutines
<1> HIDE DEF S
<1>3. Cardinality(S) = active
  BY <1>1, <1>2, CountOfTwo DEF CountInv
<1> QED BY <1>3 DEF ActiveScansExact, S

\* Every step changes a half of the count by what its coroutine does.
LEMMA CountInvStep ==
  ASSUME FolderInv, CountInv, [ScanNext]_allVars
  PROVE  CountInv'
<1>0. NoPoll \in [id : Roots \cup {NoRoot}, scanAge : 0..Interval]
  BY FolderAssumption DEF NoPoll
<1>1. CASE UNCHANGED <<co, active, poll>>
  BY <1>1 DEF CountInv, Running
<1>2. CASE Poll
  <2>1. PICK r \in Rows : UNCHANGED <<co, active>>
                           /\ poll' = [id |-> r, scanAge |-> root[r].scanAge]
    BY <1>2 DEF Poll, ServerRoots
  <2>2. r \in Roots /\ root[r].scanAge \in 0..Interval
    BY DEF FolderInv, FolderTypes, Rows, Row
  <2> QED BY <2>1, <2>2 DEF CountInv, Running
<1>3. ASSUME NEW k \in Coroutines, NEW r \in Roots \cup {NoRoot}, Launch(k, r),
             poll' \in {poll, NoPoll}
      PROVE  CountInv'
  <2>1. co' = [co EXCEPT ![k] = [step |-> "thread", id |-> r]] /\ active' = active + 1
        /\ co[k].step = "off"
    BY <1>3 DEF Launch
  <2>2. Running(k) = 0 /\ Running(k)' = 1 /\ \A j \in Coroutines \ {k} : Running(j)' = Running(j)
    BY <2>1 DEF CountInv, Running
  <2>3. active' = Running("sched")' + Running("now")'
    BY <2>1, <2>2 DEF CountInv, Coroutines, Running
  <2> QED BY <1>0, <1>3, <2>1, <2>3 DEF CountInv
<1>4. CASE LaunchDue
  BY <1>3, <1>4 DEF LaunchDue, Coroutines, CountInv
<1>5. CASE \E r \in Roots : ScanRootNow(r)
  BY <1>3, <1>5 DEF ScanRootNow, Coroutines
<1>6. CASE PassOver \/ Tick
  <2>1. UNCHANGED <<co, active>>
    BY <1>6 DEF PassOver, Tick
  <2>2. \A n \in 0..Interval : Older(n, Interval) \in 0..Interval
    BY FolderAssumption DEF Older
  <2>3. \/ poll' \in {poll, NoPoll}
        \/ poll' = [poll EXCEPT !.scanAge = Older(@, Interval)]
    BY <1>6 DEF PassOver, Tick
  <2>4. 0 \in 0..Interval
    BY FolderAssumption
  <2>5. poll' \in [id : Roots \cup {NoRoot}, scanAge : 0..Interval]
    BY <2>2, <2>3, <2>4 DEF CountInv, NoPoll
  <2> QED BY <2>1, <2>5 DEF CountInv, Running
<1>7. CASE \E k \in Coroutines : TakeResult(k)
  <2>1. PICK k \in Coroutines : TakeResult(k)
    BY <1>7
  <2>2. co' = [co EXCEPT ![k].step = "mark"] /\ co[k].step = "thread" /\ active' = active
        /\ poll' = poll
    BY <2>1 DEF TakeResult
  <2>3. \A j \in Coroutines : Running(j)' = Running(j)
    BY <2>2 DEF CountInv, Running
  <2> QED BY <2>2, <2>3 DEF CountInv, Coroutines
<1>8. CASE \E k \in Coroutines : EndCoroutine(k)
  <2>1. PICK k \in Coroutines : EndCoroutine(k)
    BY <1>8
  <2>2. /\ co' = [co EXCEPT ![k] = [step |-> "off", id |-> NoRoot]]
        /\ co[k].step = "mark" /\ active' = active - 1 /\ poll' = poll
    BY <2>1 DEF EndCoroutine
  <2>3. Running(k) = 1 /\ Running(k)' = 0 /\ \A j \in Coroutines \ {k} : Running(j)' = Running(j)
    BY <2>2 DEF CountInv, Running
  <2>4. active' = Running("sched")' + Running("now")'
    BY <2>2, <2>3 DEF CountInv, Coroutines, Running
  <2> QED BY <2>2, <2>4 DEF CountInv
<1>9. CASE Stop
  <2>1. /\ co' = [co EXCEPT !["sched"] = [step |-> "off", id |-> NoRoot]]
        /\ active' = CountedOff /\ poll' = NoPoll
    BY <1>9 DEF Stop
  <2>2. Running("sched")' = 0 /\ Running("now")' = Running("now")
    BY <2>1 DEF CountInv, Running, Coroutines
  <2>3. active' = active - Running("sched")
    BY <2>1 DEF CountInv, CountedOff, Running
  <2>4. active' = Running("sched")' + Running("now")'
    BY <2>2, <2>3 DEF CountInv, Running
  <2> QED BY <1>0, <2>1, <2>4 DEF CountInv, Coroutines
<1>10. CASE Crash
  <2>1. /\ co' = [k \in Coroutines |-> [step |-> "off", id |-> NoRoot]]
        /\ active' = 0 /\ poll' = NoPoll
    BY <1>10 DEF Crash
  <2> QED BY <1>0, <2>1 DEF CountInv, Running, Coroutines
<1>11. CASE \E k \in Slots : ThreadStep(k)
  BY <1>1, <1>11 DEF ThreadStep, Walk, IndexRead, IndexWrite, IndexFails, Report, ListIndexed,
     CheckSource, MarkSource, EndScan
<1>12. CASE \/ Start \/ Mount \/ PurgeExpired \/ EndApiScan \/ EndOrphan
            \/ \E r \in Roots : ScanWatchedFolder(r)
            \/ \E f \in Files : ChangeFile(f) \/ RestoreQuarantined(f)
            \/ UNCHANGED scanVars \/ UNCHANGED allVars
  BY <1>1, <1>12 DEF Start, Mount, PurgeExpired, EndApiScan, EndOrphan, ScanWatchedFolder,
     ChangeFile, RestoreQuarantined, scanVars, allVars
<1> QED
  BY <1>2, <1>4, <1>5, <1>6, <1>7, <1>8, <1>9, <1>10, <1>11, <1>12 DEF ScanNext, Loop, Ended

\* The count the admin endpoint reads is exact through every cancellation, crash
\* and failure, however the scans of the loop and of scan-now overlap.
THEOREM ActiveScansExactHolds == ScanSpec => []ActiveScansExact
<1>1. ScanInit => CountInv
  BY FolderAssumption DEF ScanInit, ScanVarsInit, CountInv, Running, Coroutines, NoPoll
<1> QED
  BY <1>1, FolderInvInit, FolderInvStep, CountInvStep, CountIsExact, PTL DEF ScanSpec

(***************************************************************************)
(* Scans that nothing disturbed.                                           *)
(***************************************************************************)

ScanSteps == {"off", "start", "walk", "index", "list", "check", "mark", "done"}
Versions == Files \X (0..MaxVer)
Findings == Files \X BOOLEAN

ScanRow == [pc : ScanSteps, todo : SUBSET Findings, held : {<<>>} \cup Versions \cup Findings,
            ok : BOOLEAN, quiet : BOOLEAN]

ScanTypes ==
  /\ disk \in [Files -> 0..MaxVer] /\ doc \in [Files -> Document]
  /\ scan \in [Slots -> ScanRow]
  /\ \A k \in Slots : /\ At(k, "index") => scan[k].held \in Versions
                      /\ At(k, "mark") => scan[k].held \in Findings

\* The document has the content of its file, and is marked as it should be.
Current(f) == Readable(f) => doc[f].ver = disk[f]
RightMark(f) == doc[f].ver # 0 => (doc[f].mark = NotMarked <=> OnDisk(f))

\* Each file that k is done with is right; the others it still has to do, with
\* what it knows of them true.
Undisturbed(k) ==
  /\ scan[k].pc \in {"walk", "index"} =>
       \A f \in Files : \/ Current(f) \/ <<f, FALSE>> \in scan[k].todo
                        \/ At(k, "index") /\ scan[k].held[1] = f
  /\ At(k, "index") =>
       Readable(scan[k].held[1]) /\ scan[k].held[2] = disk[scan[k].held[1]]
  /\ scan[k].pc \in {"list", "check", "mark", "done"} => \A f \in Files : Current(f)
  /\ scan[k].pc \in {"check", "mark"} =>
       \A f \in Files : \/ RightMark(f) \/ <<f, doc[f].mark # NotMarked>> \in scan[k].todo
                        \/ At(k, "mark") /\ scan[k].held[1] = f
  /\ At(k, "mark") => (scan[k].held[2] <=> OnDisk(scan[k].held[1]))
  /\ At(k, "done") => \A f \in Files : RightMark(f)

QuietInv == ScanTypes /\ \A k \in Slots : scan[k].quiet => Undisturbed(k)

\* What a step may do to a document without disturbing a scan: nothing that
\* counts, or make it right.
FileKept(f) ==
  \/ doc'[f].ver = doc[f].ver /\ (doc'[f].mark = NotMarked <=> doc[f].mark = NotMarked)
  \/ RightMark(f)' /\ (Readable(f) /\ doc[f].ver = disk[f] => doc'[f].ver = disk[f])

\* A scan that stays undisturbed, in its slot or in another, while every document is kept.
LEMMA KeptScan ==
  ASSUME NEW i \in Slots, NEW j \in Slots, ScanTypes, Undisturbed(i), scan'[j] = scan[i],
         UNCHANGED <<dir, disk>>, \A f \in Files : FileKept(f)
  PROVE  Undisturbed(j)'
<1>1. \A f \in Files : /\ OnDisk(f)' <=> OnDisk(f)
                       /\ Readable(f)' <=> Readable(f)
  BY DEF OnDisk, Readable
<1>2. \A f \in Files : Current(f) => Current(f)'
  BY <1>1 DEF Current, FileKept
<1>3. \A f \in Files : RightMark(f) => RightMark(f)'
  BY <1>1 DEF RightMark, FileKept
<1>4. \A f \in Files : \/ RightMark(f)'
                       \/ (doc'[f].mark # NotMarked) = (doc[f].mark # NotMarked)
  BY DEF FileKept
<1>5. At(j, "index")' = At(i, "index") /\ At(j, "mark")' = At(i, "mark")
      /\ At(j, "done")' = At(i, "done")
  BY DEF At
<1>6. scan[i].held[1] \in Files \/ ~(At(i, "index") \/ At(i, "mark"))
  BY DEF ScanTypes, Versions, Findings
<1>7. scan[i].pc \in {"walk", "index"} =>
       \A f \in Files : \/ Current(f)' \/ <<f, FALSE>> \in scan[i].todo
                        \/ At(i, "index") /\ scan[i].held[1] = f
  BY <1>2 DEF Undisturbed
<1>8. scan[i].pc \in {"check", "mark"} =>
       \A f \in Files : \/ RightMark(f)' \/ <<f, doc'[f].mark # NotMarked>> \in scan[i].todo
                        \/ At(i, "mark") /\ scan[i].held[1] = f
  BY <1>3, <1>4 DEF Undisturbed
<1>9. scan[i].pc \in {"list", "check", "mark", "done"} => \A f \in Files : Current(f)'
  BY <1>2 DEF Undisturbed
<1>10. At(i, "done") => \A f \in Files : RightMark(f)'
  BY <1>3 DEF Undisturbed
<1>11. /\ At(j, "index")' =>
            Readable(scan[j].held[1])' /\ (scan[j].held[2] = disk[scan[j].held[1]])'
       /\ At(j, "mark")' => (scan[j].held[2] <=> OnDisk(scan[j].held[1]))'
  BY <1>5 DEF Undisturbed, Readable, OnDisk
<1>12. scan'[j].pc = scan[i].pc /\ scan'[j].todo = scan[i].todo /\ scan'[j].held = scan[i].held
  OBVIOUS
<1>13. /\ scan'[j].pc \in {"walk", "index"} =>
            \A f \in Files : \/ Current(f)' \/ <<f, FALSE>> \in scan'[j].todo
                             \/ At(j, "index")' /\ scan'[j].held[1] = f
       /\ scan'[j].pc \in {"check", "mark"} =>
            \A f \in Files : \/ RightMark(f)' \/ <<f, doc'[f].mark # NotMarked>> \in scan'[j].todo
                             \/ At(j, "mark")' /\ scan'[j].held[1] = f
  BY <1>5, <1>7, <1>8, <1>12
<1>14. /\ scan'[j].pc \in {"list", "check", "mark", "done"} => \A f \in Files : Current(f)'
       /\ At(j, "done")' => \A f \in Files : RightMark(f)'
  BY <1>5, <1>9, <1>10, <1>12
<1> QED
  BY <1>11, <1>13, <1>14 DEF Undisturbed

\* A step of k after which k is as it should be, and that disturbs the others only
\* by saying so.
LEMMA OthersUndisturbed ==
  ASSUME QuietInv, NEW k \in Slots, ScanTypes', UNCHANGED <<dir, disk>>,
         \A j \in Slots \ {k} : scan'[j] = scan[j] \/ ~scan'[j].quiet,
         \/ \A f \in Files : FileKept(f)
         \/ \A j \in Slots : ~scan'[j].quiet,
         scan'[k].quiet => Undisturbed(k)'
  PROVE  QuietInv'
<1>1. ASSUME NEW j \in Slots \ {k}, scan'[j].quiet
      PROVE  Undisturbed(j)'
  BY <1>1, KeptScan DEF QuietInv
<1> QED BY <1>1 DEF QuietInv

\* A step of one scan leaves the scans of their types.
LEMMA RowTypes ==
  ASSUME ScanTypes, NEW k \in Slots, NEW row \in ScanRow,
         row.pc = "index" => row.held \in Versions,
         row.pc = "mark" => row.held \in Findings,
         disk' \in [Files -> 0..MaxVer], doc' \in [Files -> Document],
         \/ scan' = [scan EXCEPT ![k] = row]
         \/ scan' = Unquiet([scan EXCEPT ![k] = row])
  PROVE  ScanTypes'
<1> DEFINE s == [scan EXCEPT ![k] = row]
<1>1. s \in [Slots -> ScanRow]
  BY DEF ScanTypes
<1>2. \A j \in Slots : /\ s[j].pc = "index" => s[j].held \in Versions
                       /\ s[j].pc = "mark" => s[j].held \in Findings
  BY DEF ScanTypes, At
<1> HIDE DEF s
<1>3. CASE scan' = s
  BY <1>1, <1>2, <1>3 DEF ScanTypes, At
<1>4. CASE scan' = Unquiet(s)
  <2>1. \A j \in Slots : scan'[j] = [s[j] EXCEPT !.quiet = FALSE]
    BY <1>4 DEF Unquiet
  <2>2. \A j \in Slots : /\ scan'[j] \in ScanRow
                         /\ scan'[j].pc = s[j].pc /\ scan'[j].held = s[j].held
    <3>1. \A r \in ScanRow : /\ [r EXCEPT !.quiet = FALSE] \in ScanRow
                             /\ [r EXCEPT !.quiet = FALSE].pc = r.pc
                             /\ [r EXCEPT !.quiet = FALSE].held = r.held
      BY Zenon DEF ScanRow
    <3> QED BY <1>1, <2>1, <3>1, ZenonT(40)
  <2>3. scan' \in [Slots -> ScanRow]
    BY <1>4, <2>2 DEF Unquiet
  <2> QED BY <1>2, <2>2, <2>3 DEF ScanTypes, At
<1> QED BY <1>3, <1>4 DEF s

\* A step that makes k's row what it is said to be.
LEMMA RowStep ==
  ASSUME QuietInv, NEW k \in Slots, NEW row \in ScanRow,
         row.pc = "index" => row.held \in Versions,
         row.pc = "mark" => row.held \in Findings,
         UNCHANGED <<dir, disk>>, doc' \in [Files -> Document],
         \/ /\ scan' = [scan EXCEPT ![k] = row] /\ \A f \in Files : FileKept(f)
            /\ row.quiet => Undisturbed(k)'
         \/ scan' = Unquiet([scan EXCEPT ![k] = row])
  PROVE  QuietInv'
<1>1. ScanTypes'
  BY RowTypes DEF QuietInv, ScanTypes
<1>2. scan \in [Slots -> ScanRow]
  BY DEF QuietInv, ScanTypes
<1>3. CASE /\ scan' = [scan EXCEPT ![k] = row] /\ \A f \in Files : FileKept(f)
           /\ row.quiet => Undisturbed(k)'
  BY <1>1, <1>2, <1>3, OthersUndisturbed
<1>4. CASE scan' = Unquiet([scan EXCEPT ![k] = row])
  <2>1. \A j \in Slots : ~scan'[j].quiet
    <3> DEFINE s == [scan EXCEPT ![k] = row]
    <3>1. s \in [Slots -> ScanRow]
      BY <1>2
    <3> HIDE DEF s
    <3>2. \A j \in Slots : scan'[j] = [s[j] EXCEPT !.quiet = FALSE]
      BY <1>4 DEF Unquiet, s
    <3> QED BY <3>1, <3>2 DEF ScanRow
  <2> QED BY <1>1, <2>1 DEF QuietInv
<1> QED BY <1>3, <1>4

\* Documents that stay are kept.
LEMMA SameDocs ==
  ASSUME doc' = doc
  PROVE  \A f \in Files : FileKept(f)
BY DEF FileKept

\* os.walk: a scan that starts has every file on the disk to do.
LEMMA WalkQuiet ==
  ASSUME QuietInv, NEW k \in Slots, Walk(k)
  PROVE  QuietInv'
<1> DEFINE todo == {<<f, FALSE>> : f \in {g \in Files : OnDisk(g)}}
           row == IF dir THEN [scan[k] EXCEPT !.pc = "walk", !.todo = todo]
                  ELSE [scan[k] EXCEPT !.pc = "done", !.quiet = FALSE]
<1>1. scan[k] \in ScanRow /\ scan \in [Slots -> ScanRow] /\ doc' \in [Files -> Document]
  BY DEF QuietInv, ScanTypes, Walk
<1>2. todo \in SUBSET Findings
  <2>1. \A f \in Files : <<f, FALSE>> \in Findings
    BY DEF Findings
  <2> QED BY <2>1
<1>3. scan' = [scan EXCEPT ![k] = row] /\ UNCHANGED <<dir, disk, doc>>
  BY <1>1 DEF Walk, folderVars
<1>4. CASE dir
  <2>1. row = [scan[k] EXCEPT !.pc = "walk", !.todo = todo]
    BY <1>4
  <2>2. row \in ScanRow /\ row.pc = "walk" /\ row.todo = todo
    <3> HIDE DEF todo, row
    <3> QED BY <1>1, <1>2, <2>1 DEF ScanRow, ScanSteps
  <2>3. \A f \in Files : Current(f)' \/ <<f, FALSE>> \in todo
    BY <1>3 DEF Current, Readable, OnDisk
  <2>4. scan'[k] = row
    BY <1>1, <1>3
  <2> HIDE DEF todo, row
  <2>5. Undisturbed(k)'
    BY <2>2, <2>3, <2>4 DEF Undisturbed, At
  <2> QED BY <1>1, <1>3, <2>2, <2>5, RowStep, SameDocs
<1>5. CASE ~dir
  <2>1. row = [scan[k] EXCEPT !.pc = "done", !.quiet = FALSE]
    BY <1>5
  <2> HIDE DEF row
  <2>2. row \in ScanRow /\ row.pc = "done" /\ ~row.quiet
    BY <1>1, <2>1 DEF ScanRow, ScanSteps
  <2> QED BY <1>1, <1>3, <2>2, RowStep, SameDocs
<1> QED BY <1>4, <1>5

\* A file is read: an undisturbed scan holds the content on the disk.
LEMMA IndexReadQuiet ==
  ASSUME QuietInv, NEW k \in Slots, IndexRead(k)
  PROVE  QuietInv'
<1>1. scan[k] \in ScanRow /\ scan \in [Slots -> ScanRow] /\ doc' \in [Files -> Document]
      /\ disk \in [Files -> 0..MaxVer]
  BY DEF QuietInv, ScanTypes, IndexRead
<1>2. PICK x \in scan[k].todo :
        scan' = [scan EXCEPT ![k].todo = @ \ {x},
                   ![k].pc = IF Readable(x[1]) THEN "index" ELSE @,
                   ![k].held = IF Readable(x[1]) THEN <<x[1], disk[x[1]]>> ELSE @]
  BY DEF IndexRead
<1>3. x \in Findings /\ x[1] \in Files /\ UNCHANGED <<dir, disk, doc>> /\ At(k, "walk")
  BY <1>1 DEF ScanRow, Findings, IndexRead, folderVars
<1> DEFINE row == IF Readable(x[1])
                  THEN [scan[k] EXCEPT !.todo = @ \ {x}, !.pc = "index",
                                       !.held = <<x[1], disk[x[1]]>>]
                  ELSE [scan[k] EXCEPT !.todo = @ \ {x}]
<1>4. scan' = [scan EXCEPT ![k] = row]
  BY <1>1, <1>2 DEF ScanRow
<1>5. /\ row \in ScanRow /\ row.todo = scan[k].todo \ {x} /\ row.quiet = scan[k].quiet
      /\ Readable(x[1]) => row.pc = "index" /\ row.held = <<x[1], disk[x[1]]>>
      /\ ~Readable(x[1]) => row.pc = "walk"
  <2>1. <<x[1], disk[x[1]]>> \in Versions
    BY <1>1, <1>3 DEF Versions
  <2>2. scan[k].pc = "walk"
    BY <1>3 DEF At
  <2>3. CASE Readable(x[1])
    <3>1. row = [scan[k] EXCEPT !.todo = scan[k].todo \ {x}, !.pc = "index",
                                !.held = <<x[1], disk[x[1]]>>]
      BY <2>3
    <3> HIDE DEF row
    <3> QED BY <1>1, <2>1, <2>3, <3>1 DEF ScanRow, ScanSteps
  <2>4. CASE ~Readable(x[1])
    <3>1. row = [scan[k] EXCEPT !.todo = scan[k].todo \ {x}]
      BY <2>4
    <3> HIDE DEF row
    <3> QED BY <1>1, <2>2, <2>4, <3>1 DEF ScanRow
  <2> QED BY <2>3, <2>4
<1>6. row.pc = "index" => row.held \in Versions
  BY <1>1, <1>3, <1>5 DEF Versions
<1>7. \A f \in Files : <<f, FALSE>> \in scan[k].todo => <<f, FALSE>> \in row.todo \/ x[1] = f
  <2>1. \A f \in Files : <<f, FALSE>> = x => x[1] = f
    OBVIOUS
  <2>2. row.todo = scan[k].todo \ {x}
    BY <1>5
  <2> HIDE DEF row
  <2> QED BY <2>1, <2>2
<1>8. row.quiet => Undisturbed(k)'
  <2> SUFFICES ASSUME row.quiet PROVE Undisturbed(k)'
    OBVIOUS
  <2>1. Undisturbed(k) /\ scan[k].pc = "walk"
    BY <1>3, <1>5 DEF QuietInv, At
  <2>2. scan'[k] = row
    BY <1>1, <1>4
  <2> HIDE DEF row
  <2>3. \A f \in Files : (Current(f)' <=> Current(f)) /\ (Readable(f)' <=> Readable(f))
    BY <1>3 DEF Current, Readable, OnDisk
  <2>4. \A f \in Files : Current(f) \/ <<f, FALSE>> \in scan[k].todo
    BY <2>1 DEF Undisturbed, At
  <2>5. CASE Readable(x[1])
    <3>1. row.pc = "index" /\ row.held[1] = x[1] /\ row.held[2] = disk[x[1]]
      BY <1>5, <2>5
    <3>2. \A f \in Files : Current(f)' \/ <<f, FALSE>> \in row.todo \/ row.held[1] = f
      BY <1>7, <2>3, <2>4, <3>1
    <3>3. Readable(x[1])' /\ disk'[x[1]] = disk[x[1]]
      BY <1>3, <2>3, <2>5
    <3>4. scan'[k].held[1] = x[1] /\ scan'[k].held[2] = disk[x[1]] /\ scan'[k].pc = "index"
      BY <2>2, <3>1
    <3>5. Readable(scan[k].held[1])' /\ (scan[k].held[2] = disk[scan[k].held[1]])'
      BY <3>3, <3>4 DEF Readable, OnDisk
    <3> QED BY <2>2, <3>1, <3>2, <3>4, <3>5 DEF Undisturbed, At
  <2>6. CASE ~Readable(x[1])
    <3>1. row.pc = "walk"
      BY <1>5, <2>6
    <3>2. \A f \in Files : Current(f)' \/ <<f, FALSE>> \in row.todo
      BY <1>7, <2>3, <2>4, <2>6 DEF Current
    <3> QED BY <2>2, <3>1, <3>2 DEF Undisturbed, At
  <2> QED BY <2>5, <2>6
<1>9. row.pc # "mark"
  BY <1>5
<1> HIDE DEF row
<1> QED BY <1>1, <1>3, <1>4, <1>5, <1>6, <1>8, <1>9, RowStep, SameDocs

\* The file is indexed: in what it held, which is what the disk has if undisturbed.
LEMMA IndexWriteQuiet ==
  ASSUME QuietInv, NEW k \in Slots, IndexWrite(k)
  PROVE  QuietInv'
<1>0. PICK f : f = scan[k].held[1]
  OBVIOUS
<1> DEFINE row == [scan[k] EXCEPT !.pc = "walk", !.held = <<>>]
<1>1. /\ scan[k] \in ScanRow /\ scan \in [Slots -> ScanRow] /\ doc \in [Files -> Document]
      /\ disk \in [Files -> 0..MaxVer]
  BY DEF QuietInv, ScanTypes
<1>2. /\ scan[k].pc = "index" /\ scan[k].held \in Versions /\ UNCHANGED <<dir, disk>>
      /\ f \in Files /\ scan[k].held[2] \in 0..MaxVer
  BY <1>0 DEF QuietInv, ScanTypes, IndexWrite, At, folderVars, Versions
<1>3. /\ row \in ScanRow /\ row.pc = "walk" /\ row.todo = scan[k].todo
      /\ row.quiet = scan[k].quiet
  BY <1>1 DEF ScanRow, ScanSteps
<1>4. [scan EXCEPT ![k].pc = "walk", ![k].held = <<>>] = [scan EXCEPT ![k] = row]
  BY <1>1
<1>5. \A g \in Files : (Readable(g)' <=> Readable(g)) /\ (OnDisk(g)' <=> OnDisk(g))
  BY <1>2 DEF Readable, OnDisk
<1>6. scan[k].quiet => /\ Readable(f) /\ scan[k].held[2] = disk[f]
                       /\ \A g \in Files : Current(g) \/ <<g, FALSE>> \in scan[k].todo \/ f = g
  BY <1>0, <1>2 DEF QuietInv, Undisturbed, At
<1>7. ASSUME scan' = [scan EXCEPT ![k] = row], row.quiet, doc'[f].ver = scan[k].held[2],
             \A g \in Files \ {f} : doc'[g] = doc[g]
      PROVE  Undisturbed(k)'
  <2>1. scan'[k] = row
    BY <1>1, <1>7
  <2>2. Current(f)'
    BY <1>2, <1>3, <1>6, <1>7 DEF Current
  <2>3. \A g \in Files \ {f} : Current(g)' <=> Current(g)
    BY <1>2, <1>5, <1>7 DEF Current
  <2>4. \A g \in Files : Current(g)' \/ <<g, FALSE>> \in row.todo
    BY <1>3, <1>6, <1>7, <2>2, <2>3
  <2> QED BY <1>3, <2>1, <2>4 DEF Undisturbed, At
<1>8. CASE doc[f].ver = scan[k].held[2]
  <2>1. doc' = doc /\ scan' = [scan EXCEPT ![k] = row]
    BY <1>0, <1>4, <1>8 DEF IndexWrite
  <2>2. row.quiet => Undisturbed(k)'
    BY <1>7, <1>8, <2>1
  <2> HIDE DEF row
  <2> QED BY <1>1, <1>2, <1>3, <2>1, <2>2, RowStep, SameDocs
<1>9. CASE doc[f].ver # scan[k].held[2]
  <2>1. /\ doc' = [doc EXCEPT ![f] = [ver |-> scan[k].held[2], mark |-> NotMarked]]
        /\ scan' = Wrote([scan EXCEPT ![k] = row], k)
    BY <1>0, <1>4, <1>9 DEF IndexWrite
  <2>2. doc' \in [Files -> Document]
    BY <1>1, <1>2, <2>1 DEF Document
  <2>3. doc'[f] = [ver |-> scan[k].held[2], mark |-> NotMarked]
        /\ \A g \in Files \ {f} : doc'[g] = doc[g]
    BY <1>1, <1>2, <2>1
  <2>4. CASE ~scan[k].quiet
    <3>1. scan' = Unquiet([scan EXCEPT ![k] = row])
      BY <2>1, <2>4 DEF Wrote
    <3> HIDE DEF row
    <3> QED BY <1>2, <1>3, <2>2, <3>1, RowStep
  <2>5. CASE scan[k].quiet
    <3>1. scan' = [scan EXCEPT ![k] = row]
      BY <2>1, <2>5 DEF Wrote
    <3>2. Undisturbed(k)'
      BY <1>3, <1>7, <2>3, <2>5, <3>1
    <3>3. RightMark(f)' /\ doc'[f].ver = disk[f]
      BY <1>2, <1>5, <1>6, <2>3, <2>5 DEF RightMark, Readable
    <3>4. \A g \in Files : FileKept(g)
      BY <2>3, <3>3 DEF FileKept
    <3> HIDE DEF row
    <3> QED BY <1>2, <1>3, <2>2, <3>1, <3>2, <3>4, RowStep
  <2> QED BY <2>4, <2>5
<1> QED BY <1>8, <1>9

\* A file cannot be indexed: the scan is not undisturbed any more.
LEMMA IndexFailsQuiet ==
  ASSUME QuietInv, NEW k \in Slots, IndexFails(k)
  PROVE  QuietInv'
<1> DEFINE row == [scan[k] EXCEPT !.pc = "walk", !.held = <<>>]
<1>1. scan[k] \in ScanRow /\ scan \in [Slots -> ScanRow] /\ doc \in [Files -> Document]
  BY DEF QuietInv, ScanTypes
<1>2. row \in ScanRow /\ row.pc = "walk"
  BY <1>1 DEF ScanRow, ScanSteps
<1>3. scan' = Unquiet([scan EXCEPT ![k] = row]) /\ UNCHANGED <<dir, disk>>
  <2>1. [scan EXCEPT ![k].pc = "walk", ![k].held = <<>>] = [scan EXCEPT ![k] = row]
    BY <1>1
  <2> QED BY <2>1 DEF IndexFails, folderVars
<1>4. doc' \in [Files -> Document]
  <2>1. doc' = doc \/ doc' = [doc EXCEPT ![scan[k].held[1]].mark = NotMarked]
    BY DEF IndexFails
  <2>2. \A f \in Files : [doc[f] EXCEPT !.mark = NotMarked] \in Document
    BY <1>1 DEF Document
  <2> QED BY <1>1, <2>1, <2>2
<1> HIDE DEF row
<1> QED BY <1>2, <1>3, <1>4, RowStep

\* The walk ends with nothing left to do.
LEMMA ReportQuiet ==
  ASSUME QuietInv, NEW k \in Slots, Report(k)
  PROVE  QuietInv'
<1> DEFINE row == [scan[k] EXCEPT !.pc = "list", !.ok = TRUE]
<1>1. scan[k] \in ScanRow /\ scan \in [Slots -> ScanRow] /\ doc' \in [Files -> Document]
  BY DEF QuietInv, ScanTypes, Report
<1>2. row \in ScanRow /\ row.pc = "list" /\ row.quiet = scan[k].quiet
  BY <1>1 DEF ScanRow, ScanSteps
<1>3. scan' = [scan EXCEPT ![k] = row] /\ UNCHANGED <<dir, disk, doc>>
  BY <1>1 DEF Report, folderVars
<1>4. scan[k].quiet => \A f \in Files : Current(f)
  BY DEF QuietInv, Undisturbed, Report, At
<1>5. scan[k].quiet => \A f \in Files : Current(f)'
  BY <1>3, <1>4 DEF Current, Readable, OnDisk
<1>6. row.quiet => Undisturbed(k)'
  BY <1>1, <1>2, <1>3, <1>5 DEF Undisturbed, At
<1> HIDE DEF row
<1> QED BY <1>1, <1>2, <1>3, <1>6, RowStep, SameDocs

\* The documents and their marks are listed: all that are indexed are to be checked.
LEMMA ListIndexedQuiet ==
  ASSUME QuietInv, NEW k \in Slots, ListIndexed(k)
  PROVE  QuietInv'
<1> DEFINE todo == {<<f, doc[f].mark # NotMarked>> : f \in {g \in Files : doc[g].ver # 0}}
           row == [scan[k] EXCEPT !.pc = "check", !.todo = todo]
           bad == [scan[k] EXCEPT !.pc = "done", !.quiet = FALSE]
<1>1. /\ scan[k] \in ScanRow /\ scan \in [Slots -> ScanRow] /\ doc' \in [Files -> Document]
      /\ scan[k].pc = "list" /\ UNCHANGED <<dir, disk, doc>>
  BY DEF QuietInv, ScanTypes, ListIndexed, folderVars, At
<1>2. \A f \in Files : <<f, doc[f].mark # NotMarked>> \in Findings
  BY DEF Findings
<1>3. todo \in SUBSET Findings
  BY <1>2
<1>4. CASE scan' = [scan EXCEPT ![k] = row]
  <2>1. row \in ScanRow /\ row.pc = "check" /\ row.quiet = scan[k].quiet /\ row.todo = todo
    <3> HIDE DEF todo
    <3> QED BY <1>1, <1>3 DEF ScanRow, ScanSteps
  <2>2. \A f \in Files : (Current(f)' <=> Current(f)) /\ (RightMark(f)' <=> RightMark(f))
    BY <1>1 DEF Current, Readable, OnDisk, RightMark
  <2>3. scan[k].quiet => \A f \in Files : Current(f)'
    BY <1>1, <2>2 DEF QuietInv, Undisturbed
  <2>4. \A f \in Files : RightMark(f) \/ <<f, doc[f].mark # NotMarked>> \in todo
    BY DEF RightMark
  <2>5. scan'[k] = row
    BY <1>1, <1>4
  <2>6. \A f \in Files : RightMark(f)' \/ <<f, doc'[f].mark # NotMarked>> \in row.todo
    BY <1>1, <2>1, <2>2, <2>4
  <2> HIDE DEF todo, row
  <2>7. row.quiet => Undisturbed(k)'
    BY <2>1, <2>3, <2>5, <2>6 DEF Undisturbed, At
  <2> QED BY <1>1, <1>4, <2>1, <2>7, RowStep, SameDocs
<1>5. CASE scan' = [scan EXCEPT ![k] = bad]
  <2>1. bad \in ScanRow /\ bad.pc = "done" /\ ~bad.quiet
    BY <1>1 DEF ScanRow, ScanSteps
  <2> HIDE DEF bad
  <2> QED BY <1>1, <1>5, <2>1, RowStep, SameDocs
<1>6. \/ scan' = [scan EXCEPT ![k] = row]
      \/ scan' = [[scan EXCEPT ![k].pc = "done"] EXCEPT ![k].quiet = FALSE]
  BY <1>1 DEF ListIndexed, Faulted
<1>7. [[scan EXCEPT ![k].pc = "done"] EXCEPT ![k].quiet = FALSE] = [scan EXCEPT ![k] = bad]
  BY <1>1
<1> QED BY <1>4, <1>5, <1>6, <1>7

\* A source is looked for on the disk.
LEMMA CheckSourceQuiet ==
  ASSUME QuietInv, NEW k \in Slots, CheckSource(k)
  PROVE  QuietInv'
<1>1. /\ scan[k] \in ScanRow /\ scan \in [Slots -> ScanRow] /\ doc' \in [Files -> Document]
      /\ scan[k].pc = "check" /\ UNCHANGED <<dir, disk, doc>>
  BY DEF QuietInv, ScanTypes, CheckSource, folderVars, At
<1>2. PICK x \in scan[k].todo :
        scan' = [scan EXCEPT ![k].todo = @ \ {x},
                   ![k].pc = IF ToMark(x[1], x[2]) THEN "mark" ELSE @,
                   ![k].held = IF ToMark(x[1], x[2]) THEN x ELSE @]
  BY DEF CheckSource
<1>3. x \in Findings /\ x[1] \in Files /\ x[2] \in BOOLEAN /\ x = <<x[1], x[2]>>
  BY <1>1 DEF ScanRow, Findings
<1> DEFINE row == IF ToMark(x[1], x[2])
                  THEN [scan[k] EXCEPT !.todo = scan[k].todo \ {x}, !.pc = "mark", !.held = x]
                  ELSE [scan[k] EXCEPT !.todo = scan[k].todo \ {x}]
<1>4. scan' = [scan EXCEPT ![k] = row] /\ scan'[k] = row
  BY <1>1, <1>2 DEF ScanRow
<1>5. /\ row \in ScanRow /\ row.todo = scan[k].todo \ {x} /\ row.quiet = scan[k].quiet
      /\ ToMark(x[1], x[2]) => row.pc = "mark" /\ row.held = x
      /\ ~ToMark(x[1], x[2]) => row.pc = "check"
  <2>1. CASE ToMark(x[1], x[2])
    <3>1. row = [scan[k] EXCEPT !.todo = scan[k].todo \ {x}, !.pc = "mark", !.held = x]
      BY <2>1
    <3> HIDE DEF row
    <3> QED BY <1>1, <1>3, <2>1, <3>1 DEF ScanRow, ScanSteps
  <2>2. CASE ~ToMark(x[1], x[2])
    <3>1. row = [scan[k] EXCEPT !.todo = scan[k].todo \ {x}]
      BY <2>2
    <3> HIDE DEF row
    <3> QED BY <1>1, <2>2, <3>1 DEF ScanRow
  <2> QED BY <2>1, <2>2
<1> HIDE DEF row
<1>6. \A f \in Files : /\ Current(f)' <=> Current(f)
                       /\ RightMark(f)' <=> RightMark(f)
                       /\ OnDisk(f)' <=> OnDisk(f)
  BY <1>1 DEF Current, Readable, OnDisk, RightMark
<1>7. row.quiet => Undisturbed(k)'
  <2> SUFFICES ASSUME row.quiet PROVE Undisturbed(k)'
    OBVIOUS
  <2>1. Undisturbed(k)
    BY <1>5 DEF QuietInv
  <2>2. \A f \in Files : Current(f)'
    BY <1>1, <1>6, <2>1 DEF Undisturbed
  <2>3. \A f \in Files : RightMark(f) \/ <<f, doc[f].mark # NotMarked>> \in scan[k].todo
    BY <1>1, <2>1 DEF Undisturbed, At
  <2>4. \A f \in Files : \/ RightMark(f) \/ <<f, doc[f].mark # NotMarked>> \in row.todo
                         \/ x[1] = f /\ x[2] = (doc[f].mark # NotMarked)
    <3>1. \A f \in Files : <<f, doc[f].mark # NotMarked>> = x
            => x[1] = f /\ x[2] = (doc[f].mark # NotMarked)
      OBVIOUS
    <3> QED BY <1>5, <2>3, <3>1
  <2>5. CASE ToMark(x[1], x[2])
    <3>1. \A f \in Files : \/ RightMark(f)' \/ <<f, doc'[f].mark # NotMarked>> \in row.todo
                           \/ x[1] = f
      BY <1>1, <1>6, <2>4
    <3>2. x[2] <=> OnDisk(x[1])
      BY <1>3, <2>5 DEF ToMark
    <3>3. scan'[k].held[1] = x[1] /\ scan'[k].held[2] = x[2] /\ scan'[k].pc = "mark"
      BY <1>4, <1>5, <2>5
    <3>4. (scan[k].held[2] <=> OnDisk(scan[k].held[1]))'
      BY <1>1, <3>2, <3>3 DEF OnDisk
    <3> QED BY <1>4, <2>2, <3>1, <3>3, <3>4 DEF Undisturbed, At
  <2>6. CASE ~ToMark(x[1], x[2])
    <3>1. x[2] = (doc[x[1]].mark # NotMarked) => RightMark(x[1])
      <4>1. x[2] <=> ~OnDisk(x[1])
        BY <1>3, <2>6 DEF ToMark, OnDisk
      <4> QED BY <4>1 DEF RightMark
    <3>2. \A f \in Files : RightMark(f)' \/ <<f, doc'[f].mark # NotMarked>> \in row.todo
      BY <1>1, <1>6, <2>4, <3>1
    <3> QED BY <1>4, <1>5, <2>2, <2>6, <3>2 DEF Undisturbed, At
  <2> QED BY <2>5, <2>6
<1>8. /\ row.pc = "index" => row.held \in Versions
      /\ row.pc = "mark" => row.held \in Findings
  BY <1>3, <1>5
<1> QED BY <1>1, <1>4, <1>5, <1>7, <1>8, RowStep, SameDocs

\* A mark is written from the list read before: it fits the disk if undisturbed.
LEMMA MarkSourceQuiet ==
  ASSUME QuietInv, NEW k \in Slots, MarkSource(k)
  PROVE  QuietInv'
<1>0. PICK f : f = scan[k].held[1]
  OBVIOUS
<1> DEFINE row == [scan[k] EXCEPT !.pc = "check", !.held = <<>>]
           bad == [scan[k] EXCEPT !.pc = "check", !.held = <<>>, !.quiet = FALSE]
<1>1. /\ scan[k] \in ScanRow /\ scan \in [Slots -> ScanRow] /\ doc \in [Files -> Document]
      /\ scan[k].pc = "mark" /\ f \in Files /\ UNCHANGED <<dir, disk>>
  BY <1>0 DEF QuietInv, ScanTypes, MarkSource, folderVars, At, Findings
<1>2. /\ row \in ScanRow /\ row.pc = "check" /\ row.quiet = scan[k].quiet
      /\ row.todo = scan[k].todo
  BY <1>1 DEF ScanRow, ScanSteps
<1>3. bad \in ScanRow /\ bad.pc = "check" /\ ~bad.quiet
  BY <1>1 DEF ScanRow, ScanSteps
<1> DEFINE s == [scan EXCEPT ![k].pc = "check", ![k].held = <<>>]
<1>4. s = [scan EXCEPT ![k] = row] /\ Faulted(s, k) = [scan EXCEPT ![k] = bad]
  BY <1>1 DEF Faulted
<1>5. \/ /\ doc' = IF scan[k].held[2] THEN Restored(f) ELSE Marked(f)
         /\ scan' = Wrote(s, k)
      \/ doc' = doc /\ scan' = Faulted(s, k)
  BY <1>0 DEF MarkSource
<1> HIDE DEF s
<1>6. CASE doc' = doc /\ scan' = Faulted(s, k)
  <2> HIDE DEF bad
  <2> QED BY <1>1, <1>3, <1>4, <1>6, RowStep, SameDocs
<1>7. CASE /\ doc' = IF scan[k].held[2] THEN Restored(f) ELSE Marked(f)
           /\ scan' = Wrote(s, k)
  <2>1. doc' \in [Files -> Document] /\ \A g \in Files \ {f} : doc'[g] = doc[g]
    <3>1. \A d \in Document : /\ [d EXCEPT !.mark = NotMarked] \in Document
                              /\ [d EXCEPT !.mark = 0] \in Document
      BY ScanAssumption DEF Document
    <3> QED BY <1>1, <1>7, <3>1 DEF Restored, Marked
  <2>2. CASE ~scan[k].quiet
    <3>1. scan' = Unquiet([scan EXCEPT ![k] = row])
      BY <1>4, <1>7, <2>2 DEF Wrote
    <3> HIDE DEF row
    <3> QED BY <1>1, <1>2, <2>1, <3>1, RowStep
  <2>3. CASE scan[k].quiet
    <3>1. scan' = [scan EXCEPT ![k] = row] /\ scan'[k] = row
      BY <1>1, <1>4, <1>7, <2>3 DEF Wrote
    <3>2. Undisturbed(k) /\ (scan[k].held[2] <=> OnDisk(f))
      BY <1>0, <1>1, <2>3 DEF QuietInv, Undisturbed, At
    <3>3. doc'[f].ver = doc[f].ver
      BY <1>1, <1>7 DEF Restored, Marked, Document
    <3>4. RightMark(f)'
      <4>1. OnDisk(f)' <=> OnDisk(f)
        BY <1>1 DEF OnDisk
      <4>2. CASE OnDisk(f)
        <5>1. doc' = [doc EXCEPT ![f].mark = NotMarked]
          BY <1>7, <3>2, <4>2 DEF Restored
        <5> QED BY <1>1, <4>1, <4>2, <5>1 DEF RightMark, Document
      <4>3. CASE ~OnDisk(f)
        <5>1. doc' = Marked(f)
          BY <1>7, <3>2, <4>3
        <5>2. 0 # NotMarked
          BY ScanAssumption
        <5> QED BY <1>1, <4>1, <4>3, <5>1, <5>2 DEF RightMark, Marked, Document
      <4> QED BY <4>2, <4>3
    <3>5. \A g \in Files : FileKept(g)
      BY <2>1, <3>3, <3>4 DEF FileKept
    <3>6. \A g \in Files : Current(g)'
      <4>1. \A g \in Files : Current(g)
        BY <1>1, <3>2 DEF Undisturbed
      <4>2. \A g \in Files : doc'[g].ver = doc[g].ver
        BY <2>1, <3>3
      <4> QED BY <1>1, <4>1, <4>2 DEF Current, Readable, OnDisk
    <3>7. \A g \in Files : RightMark(g)' \/ <<g, doc'[g].mark # NotMarked>> \in scan[k].todo
      <4>1. \A g \in Files : \/ RightMark(g) \/ <<g, doc[g].mark # NotMarked>> \in scan[k].todo
                             \/ f = g
        BY <1>0, <1>1, <3>2 DEF Undisturbed
      <4>2. \A g \in Files \ {f} : RightMark(g)' <=> RightMark(g)
        BY <1>1, <2>1 DEF RightMark, OnDisk
      <4>3. ASSUME NEW g \in Files \ {f}
            PROVE  RightMark(g)' \/ <<g, doc'[g].mark # NotMarked>> \in scan[k].todo
        BY <2>1, <4>1, <4>2
      <4> QED BY <3>4, <4>3
    <3>8. Undisturbed(k)'
      <4>1. scan'[k].pc = "check" /\ scan'[k].todo = scan[k].todo
        BY <1>2, <3>1
      <4> QED BY <3>6, <3>7, <4>1 DEF Undisturbed, At
    <3> HIDE DEF row
    <3> QED BY <1>1, <1>2, <2>1, <3>1, <3>5, <3>8, RowStep
  <2> QED BY <2>2, <2>3
<1> QED BY <1>5, <1>6, <1>7

\* A scan ends: nothing is left to do, so that the index is as the disk is.
LEMMA EndScanQuiet ==
  ASSUME QuietInv, NEW k \in Slots, EndScan(k)
  PROVE  QuietInv'
<1> DEFINE row == [scan[k] EXCEPT !.pc = "done"]
<1>1. /\ scan[k] \in ScanRow /\ scan \in [Slots -> ScanRow] /\ doc' \in [Files -> Document]
      /\ scan[k].pc = "check" /\ scan[k].todo = {} /\ UNCHANGED <<dir, disk, doc>>
  BY DEF QuietInv, ScanTypes, EndScan, folderVars, At
<1>2. row \in ScanRow /\ row.pc = "done" /\ row.quiet = scan[k].quiet
  BY <1>1 DEF ScanRow, ScanSteps
<1>3. scan' = [scan EXCEPT ![k] = row] /\ scan'[k] = row
  BY <1>1 DEF EndScan
<1>4. scan[k].quiet => \A f \in Files : Current(f) /\ RightMark(f)
  BY <1>1 DEF QuietInv, Undisturbed, At
<1>5. scan[k].quiet => \A f \in Files : Current(f)' /\ RightMark(f)'
  BY <1>1, <1>4 DEF Current, Readable, OnDisk, RightMark
<1> HIDE DEF row
<1>6. row.quiet => Undisturbed(k)'
  BY <1>2, <1>3, <1>5 DEF Undisturbed, At
<1> QED BY <1>1, <1>2, <1>3, <1>6, RowStep, SameDocs

\* A scan that begins, or none, is undisturbed.
LEMMA FreshRows ==
  /\ Idle \in ScanRow /\ Idle.pc = "off" /\ ~Idle.quiet
  /\ Began \in ScanRow /\ Began.pc = "start"
BY DEF Idle, Began, ScanRow, ScanSteps

\* A step that begins or ends k.
LEMMA FreshStep ==
  ASSUME QuietInv, NEW k \in Slots, NEW row \in {Idle, Began},
         scan' = [scan EXCEPT ![k] = row], UNCHANGED <<dir, disk, doc>>
  PROVE  QuietInv'
<1>1. doc' \in [Files -> Document] /\ scan \in [Slots -> ScanRow]
  BY DEF QuietInv, ScanTypes
<1>2. row \in ScanRow /\ row.pc \in {"off", "start"}
  BY FreshRows
<1>3. Undisturbed(k)'
  <2>1. scan'[k] = row
    BY <1>1
  <2> QED BY <1>2, <2>1 DEF Undisturbed, At
<1> QED BY <1>1, <1>2, <1>3, RowStep, SameDocs

\* A step that leaves the scans and what they rely on.
LEMMA KeptStep ==
  ASSUME QuietInv, scan' = scan, UNCHANGED <<dir, disk>>, doc' \in [Files -> Document],
         \A f \in Files : FileKept(f)
  PROVE  QuietInv'
<1>1. ScanTypes'
  BY DEF QuietInv, ScanTypes, At
<1> QED BY <1>1, KeptScan DEF QuietInv

\* A step that says it may disturb them all.
LEMMA UnquietStep ==
  ASSUME QuietInv, scan' = Unquiet(scan), disk' \in [Files -> 0..MaxVer],
         doc' \in [Files -> Document]
  PROVE  QuietInv'
<1>1. PICK k \in Slots : TRUE
  BY DEF Slots
<1>2. /\ scan[k] \in ScanRow /\ scan \in [Slots -> ScanRow]
      /\ scan[k].pc = "index" => scan[k].held \in Versions
      /\ scan[k].pc = "mark" => scan[k].held \in Findings
      /\ scan = [scan EXCEPT ![k] = scan[k]]
  BY DEF QuietInv, ScanTypes, At
<1>3. ScanTypes'
  BY <1>2, RowTypes DEF QuietInv
<1>4. \A j \in Slots : scan'[j] = [scan[j] EXCEPT !.quiet = FALSE]
  BY DEF Unquiet
<1>5. \A j \in Slots : ~scan'[j].quiet
  BY <1>2, <1>4, ZenonT(40) DEF ScanRow
<1> QED BY <1>3, <1>5 DEF QuietInv

\* stop(): the thread of the cancelled coroutine goes on as an orphan, as undisturbed as before.
LEMMA StopQuiet ==
  ASSUME QuietInv, Stop
  PROVE  QuietInv'
<1>1. /\ scan \in [Slots -> ScanRow] /\ {"sched", "orphan"} \subseteq Slots
      /\ scan' = [scan EXCEPT !["sched"] = Idle, !["orphan"] = scan["sched"]]
      /\ UNCHANGED <<dir, disk, doc>>
  BY DEF QuietInv, ScanTypes, Stop, folderVars, Slots
<1>2. /\ scan'["sched"] = Idle /\ scan'["orphan"] = scan["sched"]
      /\ \A j \in Slots \ {"sched", "orphan"} : scan'[j] = scan[j]
  BY <1>1
<1>3. ScanTypes'
  <2>1. scan' \in [Slots -> ScanRow]
    BY <1>1, FreshRows
  <2>2. \A j \in Slots : /\ scan'[j].pc = "index" => scan'[j].held \in Versions
                         /\ scan'[j].pc = "mark" => scan'[j].held \in Findings
    BY <1>1, <1>2, FreshRows DEF QuietInv, ScanTypes, At
  <2> QED BY <1>1, <2>1, <2>2 DEF QuietInv, ScanTypes, At
<1>4. \A f \in Files : FileKept(f)
  BY <1>1, SameDocs
<1>5. ASSUME NEW j \in Slots, scan'[j].quiet
      PROVE  Undisturbed(j)'
  <2>1. CASE j = "sched"
    BY <1>2, <1>5, <2>1, FreshRows
  <2>2. CASE j = "orphan"
    BY <1>1, <1>2, <1>4, <1>5, <2>2, KeptScan DEF QuietInv
  <2>3. CASE j \notin {"sched", "orphan"}
    BY <1>1, <1>2, <1>4, <1>5, <2>3, KeptScan DEF QuietInv
  <2> QED BY <2>1, <2>2, <2>3
<1> QED BY <1>3, <1>5 DEF QuietInv

\* A crash leaves no scan.
LEMMA CrashQuiet ==
  ASSUME QuietInv, Crash
  PROVE  QuietInv'
<1>1. /\ scan' = [k \in Slots |-> Idle] /\ UNCHANGED <<dir, disk>>
      /\ \A k \in Slots : scan'[k] = Idle
  BY DEF Crash, folderVars
<1>2. doc' \in [Files -> Document]
  <2>1. NoDocument \in Document
    BY ScanAssumption DEF NoDocument, Document
  <2> QED BY <2>1 DEF Crash, QuietInv, ScanTypes
<1>3. ScanTypes'
  BY <1>1, <1>2, FreshRows DEF QuietInv, ScanTypes, At
<1> QED BY <1>1, <1>3, FreshRows DEF QuietInv

\* Time passes: marks grow older, and stay marks.
LEMMA TickQuiet ==
  ASSUME QuietInv, Tick
  PROVE  QuietInv'
<1>1. /\ doc \in [Files -> Document] /\ scan' = scan /\ UNCHANGED <<dir, disk>>
      /\ doc' = [f \in Files |-> IF doc[f].mark = NotMarked THEN doc[f]
                                 ELSE [doc[f] EXCEPT !.mark = Older(@, Retention)]]
  BY DEF QuietInv, ScanTypes, Tick
<1>2. \A n \in 0..Retention : Older(n, Retention) \in 0..Retention
                              /\ Older(n, Retention) # NotMarked
  BY ScanAssumption DEF Older
<1>3. ASSUME NEW f \in Files
      PROVE  doc'[f] \in Document /\ FileKept(f)
  <2>1. CASE doc[f].mark = NotMarked
    BY <1>1, <2>1 DEF FileKept
  <2>2. CASE doc[f].mark # NotMarked
    <3>1. doc[f].mark \in 0..Retention
      BY <1>1, <2>2 DEF Document
    <3>2. doc'[f] = [doc[f] EXCEPT !.mark = Older(doc[f].mark, Retention)]
      BY <1>1, <2>2
    <3>3. doc'[f] \in Document /\ doc'[f].ver = doc[f].ver /\ doc'[f].mark # NotMarked
      BY <1>1, <1>2, <3>1, <3>2 DEF Document
    <3> QED BY <2>2, <3>3 DEF FileKept
  <2> QED BY <2>1, <2>2
<1>4. doc' \in [Files -> Document]
  BY <1>1, <1>3
<1> QED BY <1>1, <1>3, <1>4, KeptStep

\* The retention purges documents of missing files, or else it disturbs every scan.
LEMMA PurgeQuiet ==
  ASSUME QuietInv, PurgeExpired
  PROVE  QuietInv'
<1>1. /\ doc \in [Files -> Document] /\ UNCHANGED <<dir, disk>>
      /\ doc' = [f \in Files |-> IF f \in Expired THEN NoDocument ELSE doc[f]]
  BY DEF QuietInv, ScanTypes, PurgeExpired, folderVars
<1>2. doc' \in [Files -> Document]
  <2>1. NoDocument \in Document
    BY ScanAssumption DEF NoDocument, Document
  <2> QED BY <1>1, <2>1
<1>3. CASE \E f \in Expired : OnDisk(f)
  BY <1>1, <1>2, <1>3, UnquietStep DEF PurgeExpired, QuietInv, ScanTypes
<1>4. CASE \A f \in Expired : ~OnDisk(f)
  <2>1. ASSUME NEW f \in Files
        PROVE  FileKept(f)
    <3>1. CASE f \in Expired
      <4>1. doc'[f] = NoDocument /\ ~Readable(f)
        BY <1>1, <1>4, <3>1 DEF Readable
      <4> QED BY <4>1 DEF FileKept, RightMark, NoDocument
    <3>2. CASE f \notin Expired
      BY <1>1, <3>2 DEF FileKept
    <3> QED BY <3>1, <3>2
  <2>2. scan' = scan
    BY <1>4 DEF PurgeExpired
  <2> QED BY <1>1, <1>2, <2>1, <2>2, KeptStep
<1> QED BY <1>3, <1>4

\* What happens to the disk or by hand disturbs every scan.
LEMMA WorldQuiet ==
  ASSUME QuietInv,
         Mount \/ \E f \in Files : ChangeFile(f) \/ RestoreQuarantined(f)
  PROVE  QuietInv'
<1>1. doc \in [Files -> Document] /\ disk \in [Files -> 0..MaxVer]
  BY DEF QuietInv, ScanTypes
<1>2. scan' = Unquiet(scan)
  BY DEF Mount, ChangeFile, RestoreQuarantined
<1>3. disk' \in [Files -> 0..MaxVer]
  BY <1>1 DEF Mount, ChangeFile, RestoreQuarantined
<1>4. doc' \in [Files -> Document]
  <2>1. \A f \in Files : [doc[f] EXCEPT !.mark = NotMarked] \in Document
    BY <1>1 DEF Document
  <2> QED BY <1>1, <2>1 DEF Mount, ChangeFile, RestoreQuarantined, Restored
<1> QED BY <1>2, <1>3, <1>4, UnquietStep

\* Every step keeps what QuietInv says.
LEMMA QuietInvStep ==
  ASSUME QuietInv, [ScanNext]_allVars
  PROVE  QuietInv'
<1>1. CASE UNCHANGED <<dir, disk, doc, scan>>
  BY <1>1, KeptStep, SameDocs DEF QuietInv, ScanTypes
<1>2. ASSUME NEW k \in Slots, ThreadStep(k)
      PROVE  QuietInv'
  BY <1>2, WalkQuiet, IndexReadQuiet, IndexWriteQuiet, IndexFailsQuiet, ReportQuiet,
     ListIndexedQuiet, CheckSourceQuiet, MarkSourceQuiet, EndScanQuiet DEF ThreadStep
<1>3. CASE \/ Poll \/ PassOver \/ Start \/ UNCHANGED allVars
           \/ \E k \in Coroutines : EndCoroutine(k)
  BY <1>1, <1>3 DEF Poll, PassOver, Start, EndCoroutine, allVars, scanVars, folderVars
<1>4. CASE FolderEdit /\ UNCHANGED scanVars
  <2>1. dir' = dir
    BY <1>4 DEF FolderEdit, AddCheck, AddUpdate, AddInsert, RemoveFolder, UpdateFolder,
       PauseRoot, ResumeRoot, TransitionScope
  <2> QED BY <1>1, <1>4, <2>1 DEF scanVars
<1>5. ASSUME NEW k \in Coroutines, NEW r, Launch(k, r)
      PROVE  QuietInv'
  BY <1>5, FreshStep DEF Launch, folderVars, Coroutines, Slots
<1>6. CASE \E r \in Roots : ScanRootNow(r)
  BY <1>5, <1>6 DEF ScanRootNow, Coroutines
<1>7. CASE LaunchDue
  BY <1>5, <1>7 DEF LaunchDue, Coroutines
<1>8. CASE \E r \in Roots : ScanWatchedFolder(r)
  BY <1>8, FreshStep DEF ScanWatchedFolder, folderVars, Slots
<1>9. CASE EndApiScan \/ EndOrphan \/ \E k \in Coroutines : TakeResult(k)
  BY <1>9, FreshStep DEF EndApiScan, EndOrphan, TakeResult, folderVars, Slots, Coroutines
<1> QED
  BY <1>2, <1>3, <1>4, <1>6, <1>7, <1>8, <1>9, StopQuiet, CrashQuiet, TickQuiet, PurgeQuiet,
     WorldQuiet DEF ScanNext, Loop, Ended

\* The invariant says it of the scans that are done.
LEMMA QuietIsExact == QuietInv => QuietScanMatchesDisk
<1> SUFFICES ASSUME QuietInv, NEW k \in Slots, At(k, "done"), scan[k].quiet,
                    NEW f \in Files
             PROVE  InStep(f)
  BY DEF QuietScanMatchesDisk
<1>1. Current(f) /\ RightMark(f) /\ doc[f] \in Document /\ disk[f] \in 0..MaxVer
  BY DEF QuietInv, ScanTypes, Undisturbed, At
<1>2. CASE Readable(f)
  <2>1. doc[f].ver = disk[f] /\ disk[f] # 0 /\ doc[f].mark = NotMarked
    BY <1>1, <1>2 DEF Current, RightMark, Readable, OnDisk
  <2>2. doc[f] = [ver |-> disk[f], mark |-> NotMarked]
    BY <1>1, <2>1 DEF Document
  <2> QED BY <1>2, <2>2 DEF InStep
<1>3. CASE ~Readable(f)
  BY <1>1, <1>3 DEF InStep, RightMark
<1> QED BY <1>2, <1>3

\* A scan that nothing disturbed leaves the index as the disk is, whatever other
\* scans of the same files do beside it, and whatever the retention purges of what
\* is missing: overlapping scans, which the scheduler does not prevent, do no harm.
THEOREM QuietScanMatchesDiskHolds == ScanSpec => []QuietScanMatchesDisk
<1>1. ScanInit => QuietInv
  <2> SUFFICES ASSUME ScanInit PROVE QuietInv
    OBVIOUS
  <2>1. NoDocument \in Document /\ 1 \in 0..MaxVer
    BY ScanAssumption DEF NoDocument, Document
  <2>2. ScanTypes
    BY <2>1, FreshRows DEF ScanInit, ScanVarsInit, ScanTypes, At
  <2>3. \A k \in Slots : ~scan[k].quiet
    BY FreshRows DEF ScanInit, ScanVarsInit
  <2> QED BY <2>2, <2>3 DEF QuietInv
<1> QED BY <1>1, QuietIsExact, QuietInvStep, PTL DEF ScanSpec

(***************************************************************************)
(* Types.                                                                  *)
(***************************************************************************)

\* A slot with no scan is as if it never had one, and a coroutine that waits for
\* its thread has one.
SlotsKept ==
  /\ \A k \in Slots : At(k, "off") => scan[k] = Idle
  /\ \A k \in Coroutines : co[k].step = "thread" => ~At(k, "off")

CountersTyped ==
  /\ dir \in BOOLEAN /\ edits \in Nat /\ looping \in BOOLEAN /\ events \in 0..MaxEvents
  /\ poll.id \in Roots \/ poll = NoPoll

ScanInv == FolderInv /\ CountInv /\ QuietInv /\ SlotsKept /\ CountersTyped

\* A step after which every slot is what it was but for its claim to be undisturbed,
\* or has a scan, or has none and nobody waits for it.
LEMMA KeptSlots ==
  ASSUME SlotsKept, ScanTypes, ScanTypes',
         \A k \in Slots : \/ scan'[k] \in {scan[k], [scan[k] EXCEPT !.quiet = FALSE]}
                          \/ ~At(k, "off")' \/ scan'[k] = Idle,
         \A k \in Coroutines : co'[k].step = "thread" =>
            \/ ~At(k, "off")'
            \/ /\ co[k].step = "thread"
               /\ scan'[k] \in {scan[k], [scan[k] EXCEPT !.quiet = FALSE]}
  PROVE  SlotsKept'
<1>1. \A k \in Slots : /\ scan[k] \in ScanRow
                       /\ [scan[k] EXCEPT !.quiet = FALSE].pc = scan[k].pc
                       /\ scan[k] = Idle => [scan[k] EXCEPT !.quiet = FALSE] = Idle
  <2>1. \A row \in ScanRow : [row EXCEPT !.quiet = FALSE].pc = row.pc
    BY DEF ScanRow
  <2>2. [Idle EXCEPT !.quiet = FALSE] = Idle
    <3>1. \A row \in ScanRow : ~row.quiet => [row EXCEPT !.quiet = FALSE] = row
      BY DEF ScanRow
    <3> QED BY <3>1, FreshRows
  <2>3. \A k \in Slots : scan[k] \in ScanRow
    BY DEF ScanTypes
  <2> QED BY <2>1, <2>2, <2>3
<1>2. ASSUME NEW k \in Slots, At(k, "off")'
      PROVE  scan'[k] = Idle
  BY <1>1, <1>2 DEF SlotsKept, At
<1>3. ASSUME NEW k \in Coroutines, co'[k].step = "thread"
      PROVE  ~At(k, "off")'
  <2>1. k \in Slots
    BY DEF Slots, Coroutines
  <2>2. CASE scan'[k] \in {scan[k], [scan[k] EXCEPT !.quiet = FALSE]} /\ co[k].step = "thread"
    BY <1>1, <2>1, <2>2 DEF SlotsKept, At
  <2> QED BY <1>3, <2>2
<1> QED BY <1>2, <1>3 DEF SlotsKept

\* Rows that lose their claim to be undisturbed are otherwise what they were.
LEMMA UnquietRows ==
  ASSUME NEW s \in [Slots -> ScanRow], NEW k \in Slots
  PROVE  /\ \A j \in Slots : /\ Unquiet(s)[j] = [s[j] EXCEPT !.quiet = FALSE]
                             /\ Unquiet(s)[j].pc = s[j].pc
         /\ Faulted(s, k)[k].pc = s[k].pc
         /\ \A j \in Slots \ {k} : Faulted(s, k)[j] = s[j]
<1>1. \A row \in ScanRow : [row EXCEPT !.quiet = FALSE].pc = row.pc
  BY DEF ScanRow
<1> QED BY <1>1 DEF Unquiet, Faulted

\* A thread that runs goes on, to its end.
LEMMA ThreadsRunOn ==
  ASSUME ScanInv, QuietInv', NEW k \in Slots, ThreadStep(k)
  PROVE  SlotsKept'
<1>1. scan \in [Slots -> ScanRow] /\ scan' \in [Slots -> ScanRow]
  BY DEF ScanInv, QuietInv, ScanTypes
<1>2. ASSUME ~At(k, "off")',
             \A j \in Slots \ {k} : scan'[j] \in {scan[j], [scan[j] EXCEPT !.quiet = FALSE]}
      PROVE  SlotsKept'
  <2>1. co' = co
    BY DEF ThreadStep, Walk, IndexRead, IndexWrite, IndexFails, Report, ListIndexed,
       CheckSource, MarkSource, EndScan
  <2>2. Coroutines \subseteq Slots
    BY DEF Coroutines, Slots
  <2> QED BY <1>2, <2>1, <2>2, KeptSlots DEF ScanInv, QuietInv
<1>3. CASE Walk(k)
  <2>1. ~At(k, "off")'
    BY <1>1, <1>3, ZenonT(40) DEF Walk, At, ScanRow
  <2>2. \A j \in Slots \ {k} : scan'[j] \in {scan[j], [scan[j] EXCEPT !.quiet = FALSE]}
    BY <1>1, <1>3 DEF Walk
  <2> QED BY <1>2, <2>1, <2>2
<1>4. CASE IndexRead(k)
  <2>1. ~At(k, "off")'
    BY <1>1, <1>4 DEF IndexRead, At, ScanRow
  <2>2. \A j \in Slots \ {k} : scan'[j] \in {scan[j], [scan[j] EXCEPT !.quiet = FALSE]}
    BY <1>1, <1>4 DEF IndexRead
  <2> QED BY <1>2, <2>1, <2>2
<1>5. CASE IndexWrite(k)
  <2>1. ~At(k, "off")'
    <3> DEFINE row == [scan[k] EXCEPT !.pc = "walk", !.held = <<>>]
    <3>1. scan'[k] \in {row, [row EXCEPT !.quiet = FALSE]}
      BY <1>1, <1>5 DEF IndexWrite, Wrote, Unquiet
    <3>2. row.pc = "walk" /\ [row EXCEPT !.quiet = FALSE].pc = "walk"
      BY <1>1 DEF ScanRow
    <3> QED BY <3>1, <3>2 DEF At
  <2>2. \A j \in Slots \ {k} : scan'[j] \in {scan[j], [scan[j] EXCEPT !.quiet = FALSE]}
    BY <1>1, <1>5 DEF IndexWrite, Wrote, Unquiet
  <2> QED BY <1>2, <2>1, <2>2
<1>6. CASE IndexFails(k)
  <2>1. ~At(k, "off")'
    <3>1. scan'[k] = [[scan[k] EXCEPT !.pc = "walk", !.held = <<>>] EXCEPT !.quiet = FALSE]
      BY <1>1, <1>6 DEF IndexFails, Unquiet
    <3> QED BY <1>1, <3>1 DEF At, ScanRow
  <2>2. \A j \in Slots \ {k} : scan'[j] \in {scan[j], [scan[j] EXCEPT !.quiet = FALSE]}
    BY <1>1, <1>6 DEF IndexFails, Unquiet
  <2> QED BY <1>2, <2>1, <2>2
<1>7. CASE Report(k)
  <2>1. ~At(k, "off")'
    BY <1>1, <1>7 DEF Report, At, ScanRow
  <2>2. \A j \in Slots \ {k} : scan'[j] \in {scan[j], [scan[j] EXCEPT !.quiet = FALSE]}
    BY <1>1, <1>7 DEF Report
  <2> QED BY <1>2, <2>1, <2>2
<1>8. CASE ListIndexed(k)
  <2>1. ~At(k, "off")'
    BY <1>1, <1>8 DEF ListIndexed, At, ScanRow, Faulted
  <2>2. \A j \in Slots \ {k} : scan'[j] \in {scan[j], [scan[j] EXCEPT !.quiet = FALSE]}
    BY <1>1, <1>8 DEF ListIndexed, Faulted
  <2> QED BY <1>2, <2>1, <2>2
<1>9. CASE CheckSource(k)
  <2>1. ~At(k, "off")'
    BY <1>1, <1>9 DEF CheckSource, At, ScanRow
  <2>2. \A j \in Slots \ {k} : scan'[j] \in {scan[j], [scan[j] EXCEPT !.quiet = FALSE]}
    BY <1>1, <1>9 DEF CheckSource
  <2> QED BY <1>2, <2>1, <2>2
<1>10. CASE MarkSource(k)
  <2>1. ~At(k, "off")'
    <3> DEFINE row == [scan[k] EXCEPT !.pc = "check", !.held = <<>>]
    <3>1. scan'[k] \in {row, [row EXCEPT !.quiet = FALSE]}
      BY <1>1, <1>10 DEF MarkSource, Faulted, Wrote, Unquiet
    <3>2. row.pc = "check" /\ [row EXCEPT !.quiet = FALSE].pc = "check"
      BY <1>1 DEF ScanRow
    <3> QED BY <3>1, <3>2 DEF At
  <2>2. \A j \in Slots \ {k} : scan'[j] \in {scan[j], [scan[j] EXCEPT !.quiet = FALSE]}
    BY <1>1, <1>10 DEF MarkSource, Faulted, Wrote, Unquiet
  <2> QED BY <1>2, <2>1, <2>2
<1>11. CASE EndScan(k)
  <2>1. ~At(k, "off")'
    BY <1>1, <1>11 DEF EndScan, At, ScanRow
  <2>2. \A j \in Slots \ {k} : scan'[j] \in {scan[j], [scan[j] EXCEPT !.quiet = FALSE]}
    BY <1>1, <1>11 DEF EndScan
  <2> QED BY <1>2, <2>1, <2>2
<1> QED BY <1>3, <1>4, <1>5, <1>6, <1>7, <1>8, <1>9, <1>10, <1>11 DEF ThreadStep

\* Every step keeps the slots.
LEMMA SlotsStep ==
  ASSUME ScanInv, QuietInv', CountInv', [ScanNext]_allVars
  PROVE  SlotsKept'
<1>1. /\ scan \in [Slots -> ScanRow] /\ Coroutines \subseteq Slots
      /\ co \in [Coroutines -> [step : {"off", "thread", "mark"}, id : Roots \cup {NoRoot}]]
  BY DEF ScanInv, QuietInv, ScanTypes, CountInv, Coroutines, Slots
<1>2. CASE scan' \in {scan, Unquiet(scan)} /\ co' = co
  <2>1. \A k \in Slots : scan'[k] \in {scan[k], [scan[k] EXCEPT !.quiet = FALSE]}
    BY <1>2 DEF Unquiet
  <2> QED BY <1>1, <1>2, <2>1, KeptSlots DEF ScanInv, QuietInv
<1>3. ASSUME NEW k \in Slots, scan' = [scan EXCEPT ![k] = Began],
             \A j \in Coroutines \ {k} : co'[j] = co[j]
      PROVE  SlotsKept'
  <2>1. ~At(k, "off")' /\ \A j \in Slots \ {k} : scan'[j] = scan[j]
    BY <1>1, <1>3, FreshRows DEF At
  <2> QED BY <1>1, <1>3, <2>1, KeptSlots DEF ScanInv, QuietInv
<1>4. ASSUME NEW k \in Slots, scan' = [scan EXCEPT ![k] = Idle],
             \A j \in Coroutines : IF j = k THEN co'[j].step # "thread" ELSE co'[j] = co[j]
      PROVE  SlotsKept'
  <2>1. scan'[k] = Idle /\ \A j \in Slots \ {k} : scan'[j] = scan[j]
    BY <1>1, <1>4
  <2> QED BY <1>1, <1>4, <2>1, KeptSlots DEF ScanInv, QuietInv
<1>5. CASE \E k \in Slots : ThreadStep(k)
  BY <1>5, ThreadsRunOn
<1>6. CASE LaunchDue \/ \E r \in Roots : ScanRootNow(r)
  <2>1. PICK k \in Coroutines, r \in Roots \cup {NoRoot} : Launch(k, r)
    BY <1>6 DEF LaunchDue, ScanRootNow, Coroutines, ScanInv, CountInv
  <2> QED BY <1>1, <1>3, <2>1 DEF Launch
<1>7. CASE \E r \in Roots : ScanWatchedFolder(r)
  BY <1>1, <1>3, <1>7 DEF ScanWatchedFolder, Slots
<1>8. CASE \E k \in Coroutines : TakeResult(k)
  <2>1. PICK k \in Coroutines : TakeResult(k)
    BY <1>8
  <2>2. k \in Slots /\ scan' = [scan EXCEPT ![k] = Idle] /\ co' = [co EXCEPT ![k].step = "mark"]
    BY <1>1, <2>1 DEF TakeResult
  <2>3. co'[k].step = "mark" /\ \A j \in Coroutines \ {k} : co'[j] = co[j]
    BY <1>1, <2>2
  <2> QED BY <1>4, <2>2, <2>3
<1>9. CASE EndApiScan \/ EndOrphan
  BY <1>1, <1>4, <1>9 DEF EndApiScan, EndOrphan, Slots, Coroutines
<1>10. CASE Stop
  <2>1. /\ scan' = [scan EXCEPT !["sched"] = Idle, !["orphan"] = scan["sched"]]
        /\ co' = [co EXCEPT !["sched"] = [step |-> "off", id |-> NoRoot]]
    BY <1>10 DEF Stop
  <2>2. \A k \in Slots : \/ scan'[k] \in {Idle, scan[k]}
                         \/ k = "orphan" /\ scan'[k] = scan["sched"]
    BY <1>1, <2>1
  <2>3. \A k \in Coroutines : co'[k].step = "thread" => k = "now" /\ co'[k] = co[k]
                                                        /\ scan'[k] = scan[k]
    BY <1>1, <2>1 DEF Coroutines
  <2> QED BY <1>1, <2>2, <2>3 DEF ScanInv, SlotsKept, At, Slots, Coroutines
<1>11. CASE Crash
  BY <1>11, FreshRows DEF Crash, SlotsKept, Coroutines, Slots
<1>12. CASE \E k \in Coroutines : EndCoroutine(k)
  BY <1>1, <1>12, KeptSlots DEF EndCoroutine, ScanInv, QuietInv
<1>13. CASE \/ Poll \/ PassOver \/ Start \/ Mount \/ Tick \/ UNCHANGED scanVars
            \/ \E f \in Files : ChangeFile(f) \/ RestoreQuarantined(f)
            \/ UNCHANGED allVars
  BY <1>2, <1>13 DEF Poll, PassOver, Start, Mount, Tick, ChangeFile, RestoreQuarantined,
     scanVars, allVars
<1>14. CASE PurgeExpired
  BY <1>2, <1>14 DEF PurgeExpired
<1> QED
  BY <1>5, <1>6, <1>7, <1>8, <1>9, <1>10, <1>11, <1>12, <1>13, <1>14
  DEF ScanNext, Loop, Ended

\* Every step keeps the counters of their types.
LEMMA CountersStep ==
  ASSUME ScanInv, CountInv', [ScanNext]_allVars
  PROVE  CountersTyped'
<1>1. CASE FolderEdit /\ UNCHANGED scanVars
  <2>1. dir' = dir /\ edits' \in {edits, edits + 1}
    BY <1>1 DEF FolderEdit, AddCheck, AddUpdate, AddInsert, RemoveFolder, UpdateFolder,
       PauseRoot, ResumeRoot, TransitionScope, Edit
  <2> QED BY <1>1, <2>1 DEF ScanInv, CountersTyped, scanVars
<1>2. ASSUME dir' \in BOOLEAN, edits' = edits, looping' \in BOOLEAN,
             events' = events \/ Event, poll' \in {poll, NoPoll} \/ poll'.id \in Roots
      PROVE  CountersTyped'
  BY <1>2, ScanAssumption DEF ScanInv, CountersTyped, Event
<1>3. CASE Poll
  BY <1>2, <1>3 DEF Poll, ServerRoots, Rows, folderVars, ScanInv, CountersTyped
<1>4. CASE LaunchDue \/ PassOver \/ Ended
  BY <1>2, <1>4 DEF LaunchDue, PassOver, Ended, EndApiScan, EndOrphan, TakeResult,
     EndCoroutine, Launch, folderVars, ScanInv, CountersTyped
<1>5. CASE Stop \/ Start \/ Crash \/ Mount \/ PurgeExpired
  BY <1>2, <1>5 DEF Stop, Start, Crash, Mount, PurgeExpired, folderVars, ScanInv, CountersTyped
<1>6. CASE Tick
  <2>1. poll'.id = poll.id \/ poll' = poll
    BY <1>6 DEF Tick, ScanInv, CountInv
  <2> QED BY <1>2, <1>6, <2>1 DEF Tick, ScanInv, CountersTyped
<1>7. CASE \E k \in Slots : ThreadStep(k)
  BY <1>2, <1>7 DEF ThreadStep, Walk, IndexRead, IndexWrite, IndexFails, Report, ListIndexed,
     CheckSource, MarkSource, EndScan, folderVars, ScanInv, CountersTyped
<1>8. CASE \/ \E r \in Roots : ScanRootNow(r) \/ ScanWatchedFolder(r)
           \/ \E f \in Files : ChangeFile(f) \/ RestoreQuarantined(f)
  BY <1>2, <1>8 DEF ScanRootNow, Launch, ScanWatchedFolder, ChangeFile, RestoreQuarantined,
     folderVars, ScanInv, CountersTyped
<1>9. CASE UNCHANGED allVars
  BY <1>2, <1>9 DEF allVars, folderVars, scanVars, ScanInv, CountersTyped
<1> QED BY <1>1, <1>3, <1>4, <1>5, <1>6, <1>7, <1>8, <1>9 DEF ScanNext, Loop

\* A path that is watched, or is not yet, with no scan.
LEMMA ScanInvInit == ScanInit \/ (FolderInit /\ ScanVarsInit(0)) => ScanInv
<1> SUFFICES ASSUME NEW v \in {0, 1}, ScanVarsInit(v),
                    ScanInit \/ FolderInit
             PROVE  ScanInv
  BY DEF ScanInit
<1>1. FolderInv
  BY FolderInvInit DEF FolderInit, FolderInv, FolderTypes, RootsUnique, Rows
<1>2. CountInv
  BY FolderAssumption DEF ScanVarsInit, CountInv, Running, Coroutines, NoPoll
<1>3. QuietInv
  <2>1. NoDocument \in Document /\ v \in 0..MaxVer
    BY ScanAssumption DEF NoDocument, Document
  <2>2. ScanTypes
    BY <2>1, FreshRows DEF ScanVarsInit, ScanTypes, At
  <2>3. \A k \in Slots : ~scan[k].quiet
    BY FreshRows DEF ScanVarsInit
  <2> QED BY <2>2, <2>3 DEF QuietInv
<1>4. SlotsKept
  BY DEF ScanVarsInit, SlotsKept, Coroutines, Slots
<1>5. CountersTyped
  <2>1. 0 \in 0..MaxEvents
    BY ScanAssumption
  <2>2. dir = TRUE /\ edits = 0
    BY DEF ScanInit, FolderInit
  <2>3. looping = TRUE /\ events = 0 /\ poll = NoPoll
    BY DEF ScanVarsInit
  <2> QED BY <2>1, <2>2, <2>3 DEF CountersTyped
<1> QED BY <1>1, <1>2, <1>3, <1>4, <1>5 DEF ScanInv

\* Every step keeps all of it.
LEMMA ScanInvStep ==
  ASSUME ScanInv, [ScanNext]_allVars
  PROVE  ScanInv'
<1>1. FolderInv' /\ CountInv' /\ QuietInv'
  BY FolderInvStep, CountInvStep, QuietInvStep DEF ScanInv
<1> QED BY <1>1, SlotsStep, CountersStep DEF ScanInv

\* What follows for the types.
LEMMA ScanInvTypes == ScanInv => FolderTypeOK /\ ScanTypeOK
<1> SUFFICES ASSUME ScanInv PROVE FolderTypeOK /\ ScanTypeOK
  OBVIOUS
<1>1. FolderTypeOK
  BY DEF ScanInv, FolderInv, FolderTypes, CountersTyped, FolderTypeOK
<1>2. active \in 0..2
  BY DEF ScanInv, CountInv, Running
<1>3. \A k \in Slots : scan[k].todo \subseteq Files \X BOOLEAN
  BY DEF ScanInv, QuietInv, ScanTypes, ScanRow, Findings
<1> QED
  BY <1>1, <1>2, <1>3 DEF ScanInv, QuietInv, ScanTypes, SlotsKept, CountersTyped, ScanTypeOK

\* The variables of the watched folders and of their scans have their types: a
\* slot without a scan holds nothing over, and a coroutine that waits for a
\* thread has one, through stop(), crashes and the overlap of scans.
THEOREM ScanTyped == ScanSpec => [](FolderTypeOK /\ ScanTypeOK)
<1> QED BY ScanInvInit, ScanInvStep, ScanInvTypes, PTL DEF ScanSpec
=============================================================================
