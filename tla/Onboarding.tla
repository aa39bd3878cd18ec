----------------------------- MODULE Onboarding -----------------------------
(***************************************************************************)
(* The setup wizard of the desktop client (onboarding_wizard.py): six      *)
(* pages, three workers in threads of their own, and buttons which the     *)
(* navigation and the workers' answers enable.  The user may go back and   *)
(* forth while a worker is busy.  A thread is taken to have returned when  *)
(* the answer it posted is handled.                                        *)
(***************************************************************************)
EXTENDS Integers

CONSTANTS Backends,    \* servers the user may enter
          NoBackend    \* nothing asked yet

VARIABLES wizard,    \* the page, the buttons, _verify_ok and _index_done
          backend,   \* the server of the shared client
          workers    \* the verify thread, and how many threads index and search

wizardVars == <<wizard, backend, workers>>

Welcome == 0
ConnectPage == 1
Verify == 2
License == 3
Index == 4
Search == 5
WizardPages == Welcome .. Search

WizardInit ==
  /\ wizard = [open |-> TRUE, page |-> Welcome, next |-> TRUE, retry |-> FALSE,
               verified |-> FALSE, indexed |-> FALSE, indexBtn |-> TRUE, searchBtn |-> TRUE]
  /\ backend \in Backends
  /\ workers = [verify |-> [at |-> "none", asked |-> NoBackend], indexing |-> 0, searching |-> 0]

-----------------------------------------------------------------------------
\* _start_verify leaves a thread that is still running alone.
Verifying(ws) ==
  IF ws.verify.at # "none" THEN ws
  ELSE [ws EXCEPT !.verify = [at |-> "started", asked |-> NoBackend]]

Page(w, p) ==
  [w EXCEPT !.page = p,
            !.next = IF p = Verify THEN FALSE ELSE IF p = Index THEN w.indexed ELSE TRUE,
            !.verified = IF p = Verify THEN FALSE ELSE @,
            !.retry = IF p = Verify THEN FALSE ELSE @]

\* _go_to_page, from a wizard whose flags a handler has changed.
GoToPage(w, p) ==
  wizard' = Page(w, p) /\ workers' = IF p = Verify THEN Verifying(workers) ELSE workers

\* _stop_all_workers: the threads are disconnected, told to stop and kept alive.
Stopped == [verify |-> [at |-> "none", asked |-> NoBackend], indexing |-> 0, searching |-> 0]
ShutWizard(w) == [w EXCEPT !.open = FALSE]
Finish == wizard' = ShutWizard(wizard) /\ workers' = Stopped /\ UNCHANGED backend

PressNext ==
  /\ wizard.open /\ wizard.next
  /\ \/ wizard.page = ConnectPage /\ GoToPage(wizard, Verify) /\ backend' \in Backends
     \/ wizard.page = Verify /\ wizard.verified /\ GoToPage(wizard, License) /\ UNCHANGED backend
     \/ wizard.page \in {Welcome, License, Index} /\ GoToPage(wizard, wizard.page + 1)
        /\ UNCHANGED backend
     \/ wizard.page = Search /\ Finish

\* _back_btn is enabled beyond the connection page.
PressBack ==
  /\ wizard.open /\ wizard.page > ConnectPage
  /\ GoToPage(wizard, wizard.page - 1) /\ UNCHANGED backend

PressSkip ==
  /\ wizard.open
  /\ \/ wizard.page = Welcome /\ Finish
     \/ /\ wizard.page \in ConnectPage .. Index /\ UNCHANGED backend
        /\ GoToPage([wizard EXCEPT !.verified = @ \/ wizard.page = Verify,
                                   !.indexed = @ \/ wizard.page = Index], wizard.page + 1)

\* closeEvent stops the workers; Escape is QDialog.reject, which does not.
CloseWizard ==
  /\ wizard.open /\ wizard' = ShutWizard(wizard) /\ UNCHANGED backend
  /\ workers' \in {Stopped, workers}

-----------------------------------------------------------------------------
\* Retry starts what entering the page starts.
RetryVerify ==
  /\ wizard.open /\ wizard.page = Verify /\ wizard.retry
  /\ GoToPage(wizard, Verify) /\ UNCHANGED backend

\* The thread asks whichever server the client has by then.
AskHealth ==
  /\ workers.verify.at = "started"
  /\ workers' = [workers EXCEPT !.verify = [at |-> "asked", asked |-> backend]]
  /\ UNCHANGED <<wizard, backend>>

\* _on_verify_result, whatever page is shown.
VerifyResult ==
  /\ wizard.open /\ workers.verify.at = "asked"
  /\ \E success \in BOOLEAN :
       wizard' = [wizard EXCEPT !.verified = success, !.next = @ \/ success,
                                !.retry = @ \/ ~success]
  /\ workers' = [workers EXCEPT !.verify = Stopped.verify] /\ UNCHANGED backend

\* Mutant: the button stays enabled.
MutIndexStarted(w) == w

IndexStarted(w) == [w EXCEPT !.indexBtn = FALSE]

StartIndex ==
  /\ wizard.open /\ wizard.page = Index /\ wizard.indexBtn
  /\ wizard' = IndexStarted(wizard)
  /\ workers' = [workers EXCEPT !.indexing = @ + 1] /\ UNCHANGED backend

IndexFinished ==
  /\ wizard.open /\ workers.indexing > 0
  /\ wizard' = [wizard EXCEPT !.indexBtn = TRUE, !.indexed = TRUE, !.next = TRUE]
  /\ workers' = [workers EXCEPT !.indexing = @ - 1] /\ UNCHANGED backend

RunSearch ==
  /\ wizard.open /\ wizard.page = Search /\ wizard.searchBtn
  /\ wizard' = [wizard EXCEPT !.searchBtn = FALSE, !.next = FALSE]
  /\ workers' = [workers EXCEPT !.searching = @ + 1] /\ UNCHANGED backend

\* _on_search_result, _on_search_error.
AfterSearch(w, success) == [w EXCEPT !.searchBtn = TRUE, !.next = TRUE]

SearchAnswered ==
  /\ wizard.open /\ workers.searching > 0
  /\ \E success \in BOOLEAN : wizard' = AfterSearch(wizard, success)
  /\ workers' = [workers EXCEPT !.searching = @ - 1] /\ UNCHANGED backend

WizardNext ==
  \/ PressNext \/ PressBack \/ PressSkip \/ CloseWizard
  \/ RetryVerify \/ AskHealth \/ VerifyResult
  \/ StartIndex \/ IndexFinished \/ RunSearch \/ SearchAnswered

WizardSpec == WizardInit /\ [][WizardNext]_wizardVars

-----------------------------------------------------------------------------
\* The variables have their types.
WizardTypeOK ==
  /\ wizard.page \in WizardPages /\ backend \in Backends
  /\ workers.verify.asked \in Backends \cup {NoBackend}
  /\ workers.verify.at \in {"none", "started", "asked"}

\* However the user goes back and forth, no thread's QThread is replaced by a second
\* one of its kind while it runs, which would end the process
\* (onboarding_wizard.py:37-41, _on_start_index, _on_run_search).
OneWorkerOfAKind == workers.indexing <= 1 /\ workers.searching <= 1
=============================================================================
