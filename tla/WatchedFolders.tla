--------------------------- MODULE WatchedFolders ---------------------------
(***************************************************************************)
(* watched_folders.py and its endpoints: the rows of watched_folders, here *)
(* those of one normalised path, since rows of different paths never meet. *)
(* A row belongs to the server or to one executor.  Adding a row checks    *)
(* for an existing one and then writes; the handlers of two replicas may   *)
(* do so at the same time, and the partial unique indexes are what is left *)
(* to decide.  Times are ages that stop counting at the limit that matters.*)
(***************************************************************************)
EXTENDS Integers, FiniteSets

CONSTANTS Roots,        \* row ids (id and root_id)
          Executors,    \* clients that watch folders
          NoExecutor,   \* NULL
          NoRoot,       \* no row
          Callers,      \* replicas whose handlers add rows
          MaxStreak,    \* MAX_FAILURE_STREAK
          Interval,     \* cron interval, in ticks
          Backoff,      \* FAILURE_BACKOFF_SECONDS, in ticks
          MaxEdits      \* bound: changes to the rows

ASSUME FolderAssumption ==
  /\ MaxStreak \in Nat \ {0} /\ Interval \in Nat \ {0} /\ Backoff \in Nat \ {0}
  /\ NoExecutor \notin Executors /\ NoRoot \notin Roots

VARIABLES root,         \* watched_folders, by id
          adding,       \* what each caller's add_folder is about to write
          dir,          \* the directory exists (isdir)
          edits         \* changes to the rows so far

folderVars == <<root, adding, dir, edits>>

Row == [scope : {"client", "server"}, executor : Executors \cup {NoExecutor},
        enabled : BOOLEAN, paused : BOOLEAN, failures : 0..MaxStreak,
        errorAge : 0..Backoff, scanAge : 0..Interval]
NotAdding == [scope |-> "none"]
Addition == [scope : {"client", "server"}, executor : Executors \cup {NoExecutor},
             existing : Roots \cup {NoRoot}]

Rows == {r \in Roots : root[r] # NoRoot}

\* A row as it is inserted: never scanned, so due, and never failed.
Fresh(scope, executor) ==
  [scope |-> scope, executor |-> executor, enabled |-> TRUE, paused |-> FALSE,
   failures |-> 0, errorAge |-> Backoff, scanAge |-> Interval]

FolderInit ==
  /\ root = [r \in Roots |-> NoRoot]
  /\ adding = [c \in Callers |-> NotAdding]
  /\ dir = TRUE
  /\ edits = 0

-----------------------------------------------------------------------------
\* The conflict queries: a row of this scope, and of this executor if the scope
\* is the client's.
Conflicting(scope, executor) ==
  {r \in Rows : /\ root[r].scope = scope
                /\ scope = "client" => root[r].executor = executor}

\* A slip: the table without its partial unique indexes.
MutAccepted(scope, executor, self) == TRUE

\* What the unique indexes let a row be changed to, or inserted as.
Accepted(scope, executor, self) == Conflicting(scope, executor) \ {self} = {}

Edit == edits < MaxEdits /\ edits' = edits + 1

\* add_folder up to its conflict query; a server root must be a directory.
AddCheck(c, scope, executor) ==
  /\ adding[c] = NotAdding
  /\ scope = "client" <=> executor # NoExecutor
  /\ scope = "server" => dir
  /\ Edit
  /\ \E e \in IF Conflicting(scope, executor) = {} THEN {NoRoot}
              ELSE Conflicting(scope, executor) :
       adding' = [adding EXCEPT ![c] =
         [scope |-> scope, executor |-> executor, existing |-> e]]
  /\ UNCHANGED <<root, dir>>

\* The row that was found is updated, wherever it belongs by now; it may be gone.
AddUpdate(c) ==
  LET e == adding[c].existing IN
  /\ adding[c] # NotAdding /\ e # NoRoot
  /\ root' = IF e \in Rows
             THEN [root EXCEPT ![e].enabled = TRUE, ![e].paused = FALSE]
             ELSE root
  /\ adding' = [adding EXCEPT ![c] = NotAdding]
  /\ UNCHANGED <<dir, edits>>

\* None was found: insert, which the unique index may refuse.
AddInsert(c) ==
  LET a == adding[c] IN
  /\ a # NotAdding /\ a.existing = NoRoot
  /\ IF Accepted(a.scope, a.executor, NoRoot)
     THEN \E r \in Roots \ Rows : root' = [root EXCEPT ![r] = Fresh(a.scope, a.executor)]
     ELSE root' = root
  /\ adding' = [adding EXCEPT ![c] = NotAdding]
  /\ UNCHANGED <<dir, edits>>

RemoveFolder(r) ==
  /\ r \in Rows /\ Edit
  /\ root' = [root EXCEPT ![r] = NoRoot]
  /\ UNCHANGED <<adding, dir>>

\* update_folder with another value of enabled.
UpdateFolder(r) ==
  /\ r \in Rows /\ Edit
  /\ root' = [root EXCEPT ![r].enabled = ~@]
  /\ UNCHANGED <<adding, dir>>

PauseRoot(r) ==
  /\ r \in Rows /\ Edit
  /\ root' = [root EXCEPT ![r].paused = TRUE]
  /\ UNCHANGED <<adding, dir>>

\* resume_root also ends the failure streak.
ResumeRoot(r) ==
  /\ r \in Rows /\ Edit
  /\ root' = [root EXCEPT ![r].paused = FALSE, ![r].failures = 0]
  /\ UNCHANGED <<adding, dir>>

\* transition_scope: one transaction that holds the row.
TransitionScope(r, scope, executor) ==
  /\ r \in Rows /\ root[r].scope # scope
  /\ scope = "client" <=> executor # NoExecutor
  /\ scope = "server" => dir
  /\ Edit
  /\ root' = IF Accepted(scope, executor, r)
             THEN [root EXCEPT ![r].scope = scope, ![r].executor = executor]
             ELSE root
  /\ UNCHANGED <<adding, dir>>

FolderEdit ==
  \/ \E c \in Callers, scope \in {"client", "server"},
        e \in Executors \cup {NoExecutor} : AddCheck(c, scope, e)
  \/ \E c \in Callers : AddUpdate(c) \/ AddInsert(c)
  \/ \E r \in Roots : \/ RemoveFolder(r) \/ UpdateFolder(r)
                      \/ PauseRoot(r) \/ ResumeRoot(r)
  \/ \E r \in Roots, scope \in {"client", "server"},
        e \in Executors \cup {NoExecutor} : TransitionScope(r, scope, e)

-----------------------------------------------------------------------------
\* What the scheduler asks of a row and writes to it.

\* list_folders(enabled_only, "server").
ServerRoots == {r \in Rows : root[r].scope = "server" /\ root[r].enabled}

InBackoff(row) == row.failures >= MaxStreak /\ row.errorAge < Backoff
Due(row) == row.scanAge >= Interval

\* update_scan_watermarks(completed, success or error) on a row that may be gone.
Watermarked(r, ok) ==
  IF r \notin Rows THEN root
  ELSE IF ok THEN [root EXCEPT ![r].failures = 0]
  ELSE [root EXCEPT ![r].failures = IF @ < MaxStreak THEN @ + 1 ELSE @,
                    ![r].errorAge = 0]

\* mark_scanned.
Scanned(r) == IF r \in Rows THEN [root EXCEPT ![r].scanAge = 0] ELSE root

\* A tick on the clocks of every row.
Older(n, limit) == IF n < limit THEN n + 1 ELSE n
Aged == [r \in Roots |->
          IF r \notin Rows THEN NoRoot
          ELSE [root[r] EXCEPT !.errorAge = Older(@, Backoff),
                               !.scanAge = Older(@, Interval)]]

-----------------------------------------------------------------------------
\* A path has at most one server root, and at most one root for each executor,
\* however additions and transitions interleave: a second one would be scanned
\* beside the first.  A root has an executor exactly if it is a client's.
RootsUnique ==
  /\ \A q, r \in Rows :
       root[q].scope = root[r].scope /\ root[q].executor = root[r].executor => q = r
  /\ \A r \in Rows : root[r].scope = "client" <=> root[r].executor # NoExecutor

\* The variables have their types.
FolderTypeOK ==
  /\ root \in [Roots -> Row \cup {NoRoot}]
  /\ adding \in [Callers -> Addition \cup {NotAdding}]
  /\ dir \in BOOLEAN /\ edits \in Nat

=============================================================================
