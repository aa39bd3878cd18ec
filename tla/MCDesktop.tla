----------------------------- MODULE MCDesktop ------------------------------
(***************************************************************************)
(* The desktop application and its installer for TLC.  The components      *)
(* share no state that the models keep, so a behaviour is one of one part, *)
(* chosen at the start; the variables of the others stay as they are.      *)
(***************************************************************************)
EXTENDS Installer, DesktopBackend, DocumentList, DocumentTree, SearchScope, ClientUploads,
        Onboarding, TLC

CONSTANTS Parts,             \* the parts a run looks at
          fa, fab, fabc, fd, fdb   \* the folders /a, /a/b, /a/b/c, /d and /d/b

VARIABLE part

vars == <<part, installerVars, backendVars, listVars, treeVars, scopeVars, uploadVars,
          wizardVars>>

\* A part that does not move starts in one way only.
Init ==
  /\ part \in Parts
  /\ IF part = "installer" THEN TRUE ELSE machine = {} /\ virtual = TRUE
  /\ IF part = "backend" THEN TRUE
     ELSE engine = [daemon |-> "off", db |-> FALSE, app |-> FALSE, image |-> 0,
                    api |-> "unreachable"]
  /\ IF part = "list" THEN TRUE
     ELSE /\ reader = CHOOSE r \in Readers : TRUE
          /\ library = [total |-> MaxDocs, estimates |-> FALSE]
  /\ IF part = "tree" THEN TRUE
     ELSE viewer = (CHOOSE v \in Viewers : TRUE) /\ stores = "none"
  /\ IF part = "wizard" THEN TRUE ELSE backend = CHOOSE b \in Backends : TRUE
  /\ InstallerInit /\ BackendInit /\ ListInit /\ TreeInit /\ ScopeInit /\ UploadInit
  /\ WizardInit

\* What does not belong to part p stays as it is.
Others(p) ==
  /\ UNCHANGED part
  /\ IF p = "installer" THEN TRUE ELSE UNCHANGED installerVars
  /\ IF p = "backend" THEN TRUE ELSE UNCHANGED backendVars
  /\ IF p = "list" THEN TRUE ELSE UNCHANGED listVars
  /\ IF p = "tree" THEN TRUE ELSE UNCHANGED treeVars
  /\ IF p = "scope" THEN TRUE ELSE UNCHANGED scopeVars
  /\ IF p = "uploads" THEN TRUE ELSE UNCHANGED uploadVars
  /\ IF p = "wizard" THEN TRUE ELSE UNCHANGED wizardVars

Installing == part = "installer" /\ InstallerNext /\ Others("installer")
Hosting == part = "backend" /\ BackendNext /\ Others("backend")
Listing == part = "list" /\ ListNext /\ Others("list")
Browsing == part = "tree" /\ TreeNext /\ Others("tree")
Scoping == part = "scope" /\ ScopeNext /\ Others("scope")
Uploading == part = "uploads" /\ UploadNext /\ Others("uploads")
Welcoming == part = "wizard" /\ WizardNext /\ Others("wizard")

Next ==
  \/ Installing \/ Hosting \/ Listing \/ Browsing \/ Scoping \/ Uploading \/ Welcoming

\* InstallerFairness, BackendFairness, ListFairness and TreeFairness, each while
\* its part moves.
Fairness ==
  /\ WF_installerVars(part = "installer" /\ \E v \in Releases : Open(v))
  /\ WF_installerVars(part = "installer" /\ Install)
  /\ WF_installerVars(part = "installer" /\ Reboot /\ gui.window = "reboot")
  /\ WF_installerVars(part = "installer" /\ EnableVirtualization)
  /\ WF_installerVars(part = "installer" /\
       (NoVirtualization \/ RuntimeNotReady \/ \E n \in Steps : Advance(n)))
  /\ WF_backendVars(part = "backend" /\ StartStep)
  /\ WF_backendVars(part = "backend" /\ StartFinished)
  /\ WF_backendVars(part = "backend" /\ Poll)
  /\ WF_backendVars(part = "backend" /\ HealthStatusUpdated)
  /\ WF_listVars(part = "list" /\ ServeList) /\ WF_listVars(part = "list" /\ DocumentsLoaded)
  /\ WF_treeVars(part = "tree" /\ ServeCall("stats"))
  /\ WF_treeVars(part = "tree" /\ TreeStatsLoaded)
  /\ WF_treeVars(part = "tree" /\ PollStats)

Spec == Init /\ [][Next]_vars
FairSpec == Spec /\ Fairness

\* The variables of every part have their types.
DesktopTypeOK ==
  /\ InstallerTypeOK /\ BackendTypeOK /\ ListTypeOK /\ TreeTypeOK /\ ScopeTypeOK
  /\ UploadTypeOK /\ WizardTypeOK

MCAbove == [f \in Folders |-> CASE f = fab -> {fa} [] f = fabc -> {fa, fab}
                                [] f = fdb -> {fd} [] OTHER -> {}]
=============================================================================
