------------------------------ MODULE MCServer ------------------------------
(***************************************************************************)
(* The components of the server beside the two stores, for TLC.  They      *)
(* share no state that the models keep, so a behaviour is one of one part, *)
(* chosen at the start; the variables of the others stay as they are.      *)
(***************************************************************************)
EXTENDS FolderScans, SchedulerLease, DocumentLocks, Accounts, Licences, Credentials,
        ConnectionPool, Visibility, RateLimit, Retrieval, Processing, TLC

CONSTANT Parts          \* the parts a run looks at

VARIABLE part

vars == <<part, allVars, leaseVars, lockVars, accountVars, licenceVars, credentialVars,
          poolVars, visibilityVars, rateVars, retrievalVars, processingVars>>

\* A part that does not move starts in one way only.
Init ==
  /\ part \in Parts
  /\ IF part = "licences" THEN TRUE ELSE legacy = NoKey /\ file = NoKey
  /\ IF part = "search" THEN TRUE
     ELSE /\ near = CHOOSE n \in Nearness : TRUE
          /\ terms = [c \in Chunks |-> {}] /\ lance = [enabled |-> TRUE, ready |-> TRUE]
  /\ IF part = "processing" THEN TRUE
     ELSE /\ onDisk = [kind |-> "text", version |-> 1,
                       content |-> CHOOSE c \in ContentOf("text") : TRUE]
          /\ tesseract = FALSE
  /\ IF part = "scans" THEN ScanInit ELSE FolderInit /\ ScanVarsInit(0)
  /\ LockInit /\ LeaseInit /\ AccountInit /\ LicenceInit /\ CredentialInit /\ PoolInit
  /\ VisibilityInit /\ RateInit /\ RetrievalInit /\ ProcessingInit

\* What does not belong to part p stays as it is.
Others(p) ==
  /\ UNCHANGED part
  /\ IF p \in {"folders", "scans"} THEN TRUE ELSE UNCHANGED allVars
  /\ IF p = "locks" THEN TRUE ELSE UNCHANGED lockVars
  /\ IF p = "lease" THEN TRUE ELSE UNCHANGED leaseVars
  /\ IF p = "accounts" THEN TRUE ELSE UNCHANGED accountVars
  /\ IF p = "licences" THEN TRUE ELSE UNCHANGED licenceVars
  /\ IF p = "credentials" THEN TRUE ELSE UNCHANGED credentialVars
  /\ IF p = "pool" THEN TRUE ELSE UNCHANGED poolVars
  /\ IF p = "visibility" THEN TRUE ELSE UNCHANGED visibilityVars
  /\ IF p = "rate" THEN TRUE ELSE UNCHANGED rateVars
  /\ IF p = "search" THEN TRUE ELSE UNCHANGED retrievalVars
  /\ IF p = "processing" THEN TRUE ELSE UNCHANGED processingVars

Locks == part = "locks" /\ LockNext /\ Others("locks")
Lease == part = "lease" /\ LeaseNext /\ Others("lease")
Folders == part = "folders" /\ FolderEdit /\ UNCHANGED scanVars /\ Others("folders")
\* At most MaxEvents events and edits of the scanned row together; no row is added.
Scans ==
  /\ part = "scans" /\ ScanNext /\ UNCHANGED adding
  /\ edits' <= 1 /\ edits' + events' <= MaxEvents
  /\ Others("scans")
People == part = "accounts" /\ AccountNext /\ Others("accounts")
Keys == part = "licences" /\ LicenceNext /\ Others("licences")
Logins == part = "credentials" /\ CredentialNext /\ Others("credentials")
Connections == part = "pool" /\ PoolNext /\ Others("pool")
Readers == part = "visibility" /\ VisibilityNext /\ Others("visibility")
Calls == part = "rate" /\ RateNext /\ Others("rate")
Searches == part = "search" /\ RetrievalNext /\ Others("search")
Passes == part = "processing" /\ ProcessingNext /\ Others("processing")

Next ==
  \/ Locks \/ Lease \/ Folders \/ Scans \/ People \/ Keys \/ Logins \/ Connections
  \/ Readers \/ Calls \/ Searches \/ Passes

\* LeaseFairness and ScanFairness, each while its part moves.
Fairness ==
  /\ \A r \in Replicas : /\ WF_leaseVars(part = "lease" /\ Progress(r))
                         /\ WF_leaseVars(part = "lease" /\ GiveBack(r))
  /\ WF_allVars(part = "scans" /\ Loop) /\ WF_allVars(part = "scans" /\ Ended)
  /\ WF_allVars(part = "scans" /\ Start) /\ WF_allVars(part = "scans" /\ Tick)
  /\ WF_allVars(part = "scans" /\ PurgeExpired)
  /\ \A k \in Slots : WF_allVars(part = "scans" /\ ThreadStep(k))

Spec == Init /\ [][Next]_vars
FairSpec == Spec /\ Fairness

\* The variables of every part have their types.
ServerTypeOK ==
  /\ LockTypeOK /\ LeaseTypeOK /\ FolderTypeOK /\ ScanTypeOK /\ AccountTypeOK
  /\ LicenceTypeOK /\ CredentialTypeOK /\ PoolTypeOK /\ VisibilityTypeOK /\ RateTypeOK
  /\ RetrievalTypeOK /\ ProcessingTypeOK

\* One document has two of the three chunks; the orders of distance to consider.
MCSpaceOf == [d \in Docs |-> "n1"]
MCSourceOf == <<"d1", "d1", "d2">>
MCNearness == {<<3, 1, 2>>, <<3, 2, 1>>}
=============================================================================
