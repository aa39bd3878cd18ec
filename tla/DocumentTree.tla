---------------------------- MODULE DocumentTree ----------------------------
(***************************************************************************)
(* The tree of the Documents tab (documents_tab.py,                        *)
(* document_tree_model.py) and the comparison of the two stores it polls   *)
(* while the vector store is behind, with the Search tab's results beside  *)
(* it (search_tab.py).  Every question is asked on a thread of its own     *)
(* (workers.py); the UI thread handles the answer after whatever the user  *)
(* has done in the meantime.                                               *)
(***************************************************************************)
EXTENDS Integers, FiniteSets

CONSTANTS Viewers,        \* the identities the client may be signed in as
          MaxGrumbles,    \* bound: failed requests and changes of the server's stores
          MaxAsked,       \* bound: requests in flight when the user makes another
          Blank           \* a request without answer, a view without rows

ASSUME DocumentTreeAssumption == MaxGrumbles \in Nat /\ MaxAsked \in Nat \ {0}

VARIABLES viewer,    \* the identity whose key the API client sends
          stores,    \* how the vector store compares: "behind", "equal", "ahead", "none"
          tree,      \* the root level: its source, what the combo box says, its
             \* flags, whose rows it shows
          stats,     \* the polling timer; whether the last answer knew a vector store
          found,     \* whose search results are shown, whether a search runs
          tab,       \* list or tree in front, and whether the tab is shown at all
          calls,     \* requests and answers in flight
          grumbles

treeVars == <<viewer, stores, tree, stats, found, tab, calls, grumbles>>

Sources == {"lancedb", "postgres"}

TreeInit ==
  /\ viewer \in Viewers /\ stores \in {"behind", "equal", "none"}
  /\ tree = [source |-> "postgres", combo |-> "lancedb", fetched |-> FALSE, fetching |-> FALSE,
             shown |-> Blank]
  /\ stats = [timer |-> FALSE, available |-> TRUE]
  /\ found = [busy |-> FALSE, who |-> Blank]
  /\ tab = [mode |-> "tree", shown |-> TRUE]
  /\ calls = {} /\ grumbles = 0

Grumble == grumbles < MaxGrumbles /\ grumbles' = grumbles + 1
Content == UNCHANGED grumbles

-----------------------------------------------------------------------------
\* The workers answer with the key the client holds at that moment.

TreeCall(kind) == [kind |-> kind, answer |-> Blank]
Replies(kind) == {c \in calls : c.kind = kind /\ c.answer # Blank}
Calls == {"tree", "stats", "search"}

TreeAnswer(kind) == IF kind = "stats" THEN [ok |-> TRUE, ldb |-> stores]
                                  ELSE [ok |-> TRUE, who |-> viewer]
ServeCall(kind) ==
  /\ TreeCall(kind) \in calls
  /\ \E a \in {TreeAnswer(kind), [ok |-> FALSE]} :
       /\ IF a.ok THEN Content ELSE Grumble
       /\ calls' = (calls \ {TreeCall(kind)}) \cup {[TreeCall(kind) EXCEPT !.answer = a]}
  /\ UNCHANGED <<viewer, stores, tree, stats, found, tab>>

-----------------------------------------------------------------------------
\* The tree.

\* DocumentTreeModel.refresh: what is in flight stays in flight.
ResetRoot(t) == [t EXCEPT !.fetched = FALSE, !.fetching = TRUE, !.shown = Blank]
StatsAsked(cs) == cs \cup {TreeCall("stats")}
RefreshTree == tree' = ResetRoot(tree) /\ calls' = StatsAsked(calls \cup {TreeCall("tree")})

\* _on_worker_finished, _on_children_loaded: a failed level counts as fetched.
ChildrenLoaded ==
  /\ \E c \in Replies("tree") :
       /\ tree' = [tree EXCEPT !.fetching = FALSE, !.fetched = TRUE,
                               !.shown = IF c.answer.ok THEN c.answer.who ELSE @]
       /\ calls' = calls \ {c}
  /\ UNCHANGED <<viewer, stores, stats, found, tab, grumbles>>

\* set_source reloads only when the source is another.  Moving the combo box is a
\* choice of its source and asks for another comparison; before its first move it
\* names the vector store over a tree of PostgreSQL.
SetSource(t, source, cs) ==
  IF t.source = source THEN tree' = t /\ calls' = cs
  ELSE /\ tree' = [ResetRoot(t) EXCEPT !.source = source]
       /\ calls' = cs \cup {TreeCall("tree")}
Choose(source, cs) ==
  SetSource([tree EXCEPT !.combo = source], source,
            IF tree.combo = source THEN cs ELSE StatsAsked(cs))

InFront == tab.shown /\ Cardinality(calls) < MaxAsked

DbSourceChanged ==
  /\ InFront /\ tab.mode = "tree" /\ stats.available
  /\ \E s \in Sources \ {tree.combo} : Choose(s, calls)
  /\ UNCHANGED <<viewer, stores, stats, found, tab, grumbles>>

-----------------------------------------------------------------------------
\* The comparison.

\* Mutant: a comparison in step leaves the timer running.
MutTimerAfter(ldb) == IF ldb = "behind" THEN tab.mode = "tree" ELSE stats.timer

\* The timer is started while the vector store is behind and the tree is in
\* front; any other comparison stops it, a failed one leaves it alone.
TimerAfter(ldb) == IF ldb = "behind" THEN stats.timer \/ tab.mode = "tree" ELSE FALSE

\* _on_tree_stats_loaded; moving the combo box to another source is a choice of
\* that source, and asks for another comparison.
TreeStatsLoaded ==
  /\ \E c \in Replies("stats") :
     LET a == c.answer  rest == calls \ {c} IN
     IF ~a.ok THEN calls' = rest /\ UNCHANGED <<tree, stats>>
     ELSE /\ IF a.ldb = "none" THEN Choose("postgres", rest)
             ELSE IF ~stats.available THEN Choose("lancedb", rest)
             ELSE UNCHANGED tree /\ calls' = rest
          /\ stats' = [available |-> a.ldb # "none", timer |-> TimerAfter(a.ldb)]
  /\ UNCHANGED <<viewer, stores, found, tab, grumbles>>

\* Every four seconds, whether or not the last answer has come.
PollStats ==
  /\ stats.timer /\ calls' = StatsAsked(calls)
  /\ UNCHANGED <<viewer, stores, tree, stats, found, tab, grumbles>>

-----------------------------------------------------------------------------
\* The user.

\* fetchMore, when the view first draws the root.
FetchRoot ==
  /\ InFront /\ tab.mode = "tree" /\ ~tree.fetched /\ ~tree.fetching
  /\ tree' = ResetRoot(tree) /\ calls' = calls \cup {TreeCall("tree")}
  /\ UNCHANGED <<viewer, stores, stats, found, tab, grumbles>>

\* _refresh_current_view; the list has a module of its own.
RefreshView ==
  IF tab.mode = "tree" THEN RefreshTree ELSE UNCHANGED <<tree, calls>>

PressTreeRefresh ==
  /\ InFront /\ RefreshView
  /\ UNCHANGED <<viewer, stores, stats, found, tab, grumbles>>

SetViewMode ==
  /\ InFront
  /\ \/ /\ tab.mode = "tree" /\ tab' = [tab EXCEPT !.mode = "list"]
        /\ stats' = [stats EXCEPT !.timer = FALSE] /\ UNCHANGED <<tree, calls>>
     \/ /\ tab.mode = "list" /\ tab' = [tab EXCEPT !.mode = "tree"]
        /\ IF tree.fetched \/ tree.fetching THEN UNCHANGED tree /\ calls' = StatsAsked(calls)
           ELSE RefreshTree
        /\ UNCHANGED stats
  /\ UNCHANGED <<viewer, stores, found, grumbles>>

\* hideEvent.
HideOrShow ==
  /\ tab' = [tab EXCEPT !.shown = ~@]
  /\ stats' = [stats EXCEPT !.timer = @ /\ ~tab.shown]
  /\ UNCHANGED <<viewer, stores, tree, found, calls, grumbles>>

\* perform_search and search_finished, in another tab.
PerformSearch ==
  /\ ~tab.shown /\ ~found.busy /\ Cardinality(calls) < MaxAsked
  /\ found' = [found EXCEPT !.busy = TRUE]
  /\ calls' = calls \cup {TreeCall("search")}
  /\ UNCHANGED <<viewer, stores, tree, stats, tab, grumbles>>

SearchFinished ==
  /\ \E c \in Replies("search") :
       /\ found' = [busy |-> FALSE, who |-> IF c.answer.ok THEN c.answer.who ELSE found.who]
       /\ calls' = calls \ {c}
  /\ UNCHANGED <<viewer, stores, tree, stats, tab, grumbles>>

\* _on_backend_settings_changed: on_account_changed, then clear_results.
ViewerChanged ==
  /\ \E a \in Viewers \ {viewer} : viewer' = a
  /\ Cardinality(calls) < MaxAsked /\ RefreshView
  /\ found' = [found EXCEPT !.who = Blank]
  /\ UNCHANGED <<stores, stats, tab, grumbles>>

StoresChange ==
  /\ Grumble /\ \E s \in {"behind", "equal", "ahead", "none"} \ {stores} : stores' = s
  /\ UNCHANGED <<viewer, tree, stats, found, tab, calls>>

TreeNext ==
  \/ (\E kind \in Calls : ServeCall(kind))
  \/ ChildrenLoaded \/ TreeStatsLoaded \/ PollStats \/ DbSourceChanged
  \/ FetchRoot \/ PressTreeRefresh \/ SetViewMode \/ HideOrShow
  \/ PerformSearch \/ SearchFinished \/ ViewerChanged \/ StoresChange

TreeSpec == TreeInit /\ [][TreeNext]_treeVars

\* The worker answers, the event loop handles the answer, the timer fires.
TreeFairness ==
  WF_treeVars(ServeCall("stats")) /\ WF_treeVars(TreeStatsLoaded) /\ WF_treeVars(PollStats)

-----------------------------------------------------------------------------
\* The variables have their types.
TreeTypeOK ==
  /\ viewer \in Viewers /\ tree.source \in Sources
  /\ {tree.shown, found.who} \subseteq Viewers \cup {Blank}
  /\ tree.fetching => \E c \in calls : c.kind = "tree"
  /\ found.busy = (\E c \in calls : c.kind = "search")
  /\ grumbles \in 0 .. MaxGrumbles

\* Once the vector store has caught up for good the comparison is no longer
\* polled, whatever the order of the answers, the failed ones and the changes of
\* view in between (_on_tree_stats_loaded, hideEvent).
PollingEnds == <>[](stores = "equal") => <>[]~stats.timer
=============================================================================
