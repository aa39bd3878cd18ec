---------------------------- MODULE DocumentList ----------------------------
(***************************************************************************)
(* The paged list of the Documents tab (documents_tab.py).  It asks for a  *)
(* page on a thread of its own and one at a time (workers.py); the user    *)
(* may turn pages, sort, delete and sign in as somebody else while the     *)
(* answer is on its way, and a page may be gone when the answer comes.     *)
(***************************************************************************)
EXTENDS Integers, FiniteSets

CONSTANTS Readers,        \* the identities the client may be signed in as
          MaxDocs,        \* bound: documents in the library
          MaxTroubles,    \* bound: failed and refused requests, changes by other clients
          NoRows          \* a request without answer, a list without rows

ASSUME DocumentListAssumption == MaxDocs \in Nat \ {0} /\ MaxTroubles \in Nat

VARIABLES reader,    \* the identity whose key the API client sends
          library,   \* the number of documents; whether the server counts them
                     \* (an old one lets the client estimate)
          listing,   \* the list: what is shown and what has been asked for
          jobs,      \* requests and answers in flight
          troubles

listVars == <<reader, library, listing, jobs, troubles>>

Sizes == {1, 2}

ListInit ==
  /\ reader \in Readers
  /\ \E e \in BOOLEAN : library = [total |-> MaxDocs, estimates |-> e]
  /\ listing = [offset |-> 0, size |-> 1, pending |-> 0, loading |-> FALSE, total |-> 0,
                count |-> 0, rows |-> NoRows, prev |-> FALSE, next |-> FALSE]
  /\ jobs = {} /\ troubles = 0

Trouble == troubles < MaxTroubles /\ troubles' = troubles + 1
NoTrouble == UNCHANGED troubles
Larger(a, b) == IF a > b THEN a ELSE b
Smaller(a, b) == IF a < b THEN a ELSE b

-----------------------------------------------------------------------------
\* The workers.

Ask(kind, what) == [kind |-> kind, what |-> what, answer |-> NoRows]
Asked == {j \in jobs : j.answer = NoRows}
Answered(kind) == {j \in jobs : j.kind = kind /\ j.answer # NoRows}

\* list_documents; an estimating client takes the page for all there is.
PageOf(q) == Larger(0, Smaller(q.size, library.total - q.offset))
AnswerTo(q) == [ok |-> TRUE, who |-> reader, count |-> PageOf(q),
                total |-> IF library.estimates THEN PageOf(q) ELSE library.total]
Replied(j, answer) == jobs' = (jobs \ {j}) \cup {[j EXCEPT !.answer = answer]}

ServeList ==
  /\ \E j \in Asked :
       /\ j.kind = "list"
       /\ \/ Replied(j, AnswerTo(j.what)) /\ NoTrouble
          \/ Replied(j, [ok |-> FALSE]) /\ Trouble
  /\ UNCHANGED <<reader, library, listing>>

\* DeleteWorker: the document is gone before the answer is there.
ServeDelete ==
  /\ \E j \in Asked :
       /\ j.kind = "delete"
       /\ \/ /\ library.total > 0 /\ Replied(j, [ok |-> TRUE]) /\ NoTrouble
             /\ library' = [library EXCEPT !.total = @ - 1]
          \/ Replied(j, [ok |-> FALSE]) /\ NoTrouble /\ UNCHANGED library
  /\ UNCHANGED <<reader, listing>>

-----------------------------------------------------------------------------
\* The list.

Query(l) == [offset |-> l.offset, size |-> l.size]

\* load_documents: nothing while a load is under way or the API is not ready.
Load(l, rest) ==
  \/ l.loading /\ listing' = l /\ jobs' = rest /\ NoTrouble
  \/ ~l.loading /\ listing' = l /\ jobs' = rest /\ Trouble
  \/ /\ ~l.loading /\ NoTrouble
     /\ listing' = [l EXCEPT !.loading = TRUE, !.pending = l.offset,
                             !.prev = FALSE, !.next = FALSE]
     /\ jobs' = rest \cup {Ask("list", Query(l))}

OthersUnchanged == UNCHANGED <<reader, library>>

\* Mutant: an answer leaves the list loading.
MutIdle(l) == l

Idle(l) == [l EXCEPT !.loading = FALSE]
LastPage(total, size) == ((total + size - 1) \div size - 1) * size

\* Mutant: the page that was asked for is asked for again.
MutEarlier(offset, size) == offset

Earlier(offset, size) == Larger(0, offset - size)

\* documents_loaded: an empty page past the end is left for an earlier one; the
\* offset is the one that was asked for, whatever the user has set since.
DocumentsLoaded ==
  /\ \E j \in Answered("list") :
     LET a == j.answer  l == Idle(listing)  rest == jobs \ {j}
         total == IF library.estimates THEN Larger(a.total, l.pending + a.count) ELSE a.total
         shown == [l EXCEPT !.offset = l.pending, !.size = j.what.size, !.total = total,
                            !.count = a.count, !.rows = a.who, !.prev = l.pending > 0,
                            !.next = IF library.estimates THEN a.count >= j.what.size
                                     ELSE l.pending + a.count < total]
     IN
     IF ~a.ok
     THEN /\ listing' = [l EXCEPT !.prev = FALSE, !.next = FALSE]
          /\ jobs' = rest /\ NoTrouble
     ELSE IF library.estimates /\ l.pending > 0 /\ a.count = 0
     THEN Load([l EXCEPT !.offset = Earlier(l.pending, j.what.size)], rest)
     ELSE IF /\ ~library.estimates /\ total > 0 /\ l.pending >= total /\ l.pending # 0
             /\ Larger(0, LastPage(total, j.what.size)) # l.offset
     THEN Load([l EXCEPT !.offset = Larger(0, LastPage(total, j.what.size))], rest)
     ELSE listing' = shown /\ jobs' = rest /\ NoTrouble
  /\ OthersUnchanged

ChangePage ==
  /\ \E step \in {-1, 1} :
     LET to == Larger(0, listing.offset + step * listing.size) IN
     /\ IF step = 1 THEN listing.next ELSE listing.prev
     /\ library.estimates \/ listing.total = 0 \/ to < listing.total
     /\ to # listing.offset
     /\ Load([listing EXCEPT !.offset = to], jobs)
  /\ OthersUnchanged

PageSizeChanged ==
  /\ ~listing.loading
  /\ \E s \in Sizes \ {listing.size} : Load([listing EXCEPT !.size = s, !.offset = 0], jobs)
  /\ OthersUnchanged

\* handle_header_clicked: headers stay clickable during a load.
HeaderClicked ==
  /\ listing.rows # NoRows
  /\ Load([listing EXCEPT !.offset = 0], jobs)
  /\ OthersUnchanged

DeleteDocument ==
  /\ listing.rows # NoRows /\ listing.total > 0 /\ ~ \E j \in jobs : j.kind = "delete"
  /\ jobs' = jobs \cup {Ask("delete", NoRows)}
  /\ UNCHANGED <<reader, library, listing, troubles>>

\* delete_finished: the last row of a page takes its page with it.
DeleteFinished ==
  /\ \E j \in Answered("delete") :
       IF ~j.answer.ok THEN jobs' = jobs \ {j} /\ UNCHANGED listing /\ NoTrouble
       ELSE Load(IF listing.total > 0 /\ listing.count <= 1 /\ listing.offset > 0
                 THEN [listing EXCEPT !.offset = Larger(0, listing.offset - listing.size)]
                 ELSE listing, jobs \ {j})
  /\ OthersUnchanged

\* Refresh, a changed visibility; on_account_changed, which clears the rows first
\* and then does nothing more if a load is under way.
PressRefresh == ~listing.loading /\ Load(listing, jobs) /\ OthersUnchanged

AccountChanged ==
  /\ \E a \in Readers \ {reader} : reader' = a
  /\ Load([listing EXCEPT !.rows = NoRows, !.count = 0], jobs)
  /\ UNCHANGED library

LibraryChanges ==
  /\ Trouble /\ \E n \in 0 .. MaxDocs : library' = [library EXCEPT !.total = n]
  /\ UNCHANGED <<reader, listing, jobs>>

ListNext ==
  \/ ServeList \/ ServeDelete \/ DocumentsLoaded \/ DeleteFinished
  \/ ChangePage \/ PageSizeChanged \/ HeaderClicked \/ DeleteDocument
  \/ PressRefresh \/ AccountChanged \/ LibraryChanges

ListSpec == ListInit /\ [][ListNext]_listVars

\* The worker answers and the event loop handles the answer.
ListFairness == WF_listVars(ServeList) /\ WF_listVars(DocumentsLoaded)

-----------------------------------------------------------------------------
\* The variables have their types.
ListTypeOK ==
  /\ reader \in Readers /\ library.total \in 0 .. MaxDocs
  /\ {listing.offset, listing.pending, listing.total} \subseteq Nat /\ listing.size \in Sizes
  /\ listing.loading = (\E j \in jobs : j.kind = "list")
  /\ listing.rows \in Readers \cup {NoRows}
  /\ troubles \in 0 .. MaxTroubles

\* A load of the list ends, whatever page it was for and whatever became of that
\* page: documents_loaded looks for an earlier one, but not for ever, and every
\* outcome leaves the list ready for the next load (documents_tab.py).
ListSettles == listing.loading ~> ~listing.loading
=============================================================================
