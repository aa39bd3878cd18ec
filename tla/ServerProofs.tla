---------------------------- MODULE ServerProofs ----------------------------
(***************************************************************************)
(* Proofs about the server as the run has it: each of its steps is one of  *)
(* each part or leaves it as it is, so that what is proved of the parts    *)
(* holds of it, in every state it reaches and whatever the values of the   *)
(* constants.                                                              *)
(***************************************************************************)
EXTENDS MCServer, AccessProofs, DocumentProofs, RankingsProofs, FolderScansProofs, TLAPS

\* Every part starts as it does by itself, and the scanned folders as ScanInit has
\* them or with an empty table.
LEMMA ServerStart ==
  Init => /\ LockInit /\ LeaseInit /\ AccountInit /\ LicenceInit /\ CredentialInit /\ PoolInit
          /\ VisibilityInit /\ RateInit /\ RetrievalInit /\ ProcessingInit /\ ScanInv
<1> SUFFICES ASSUME Init PROVE ScanInv
  BY DEF Init
<1>1. ScanInit \/ (FolderInit /\ ScanVarsInit(0))
  BY DEF Init
<1> QED BY <1>1, ScanInvInit

\* Every step is one of each part or leaves it as it is; an edit of the folders by
\* themselves is one of those that scans meet.
LEMMA ServerSteps ==
  [Next]_vars =>
    /\ [LockNext]_lockVars /\ [LeaseNext]_leaseVars /\ [AccountNext]_accountVars
    /\ [LicenceNext]_licenceVars /\ [CredentialNext]_credentialVars /\ [PoolNext]_poolVars
    /\ [VisibilityNext]_visibilityVars /\ [RateNext]_rateVars
    /\ [RetrievalNext]_retrievalVars /\ [ProcessingNext]_processingVars /\ [ScanNext]_allVars
<1>1. UNCHANGED vars => UNCHANGED <<allVars, lockVars, leaseVars, accountVars, licenceVars,
                                    credentialVars, poolVars, visibilityVars, rateVars,
                                    retrievalVars, processingVars>>
  BY DEF vars
<1>2. Locks => LockNext /\ UNCHANGED <<allVars, leaseVars, accountVars, licenceVars,
                                       credentialVars, poolVars, visibilityVars, rateVars,
                                       retrievalVars, processingVars>>
  BY DEF Locks, Others
<1>3. Lease => LeaseNext /\ UNCHANGED <<allVars, lockVars, accountVars, licenceVars,
                                        credentialVars, poolVars, visibilityVars, rateVars,
                                        retrievalVars, processingVars>>
  BY DEF Lease, Others
<1>4. People => AccountNext /\ UNCHANGED <<allVars, lockVars, leaseVars, licenceVars,
                                           credentialVars, poolVars, visibilityVars, rateVars,
                                           retrievalVars, processingVars>>
  BY DEF People, Others
<1>5. Keys => LicenceNext /\ UNCHANGED <<allVars, lockVars, leaseVars, accountVars,
                                         credentialVars, poolVars, visibilityVars, rateVars,
                                         retrievalVars, processingVars>>
  BY DEF Keys, Others
<1>6. Logins => CredentialNext /\ UNCHANGED <<allVars, lockVars, leaseVars, accountVars,
                                              licenceVars, poolVars, visibilityVars, rateVars,
                                              retrievalVars, processingVars>>
  BY DEF Logins, Others
<1>7. Connections => PoolNext /\ UNCHANGED <<allVars, lockVars, leaseVars, accountVars,
                                             licenceVars, credentialVars, visibilityVars,
                                             rateVars, retrievalVars, processingVars>>
  BY DEF Connections, Others
<1>8. Readers => VisibilityNext /\ UNCHANGED <<allVars, lockVars, leaseVars, accountVars,
                                               licenceVars, credentialVars, poolVars, rateVars,
                                               retrievalVars, processingVars>>
  BY DEF Readers, Others
<1>9. Calls => RateNext /\ UNCHANGED <<allVars, lockVars, leaseVars, accountVars, licenceVars,
                                       credentialVars, poolVars, visibilityVars, retrievalVars,
                                       processingVars>>
  BY DEF Calls, Others
<1>10. Searches => RetrievalNext /\ UNCHANGED <<allVars, lockVars, leaseVars, accountVars,
                                                licenceVars, credentialVars, poolVars,
                                                visibilityVars, rateVars, processingVars>>
  BY DEF Searches, Others
<1>11. Passes => ProcessingNext /\ UNCHANGED <<allVars, lockVars, leaseVars, accountVars,
                                               licenceVars, credentialVars, poolVars,
                                               visibilityVars, rateVars, retrievalVars>>
  BY DEF Passes, Others
<1>12. Folders => ScanNext /\ UNCHANGED <<lockVars, leaseVars, accountVars, licenceVars,
                                          credentialVars, poolVars, visibilityVars, rateVars,
                                          retrievalVars, processingVars>>
  BY DEF Folders, Others, ScanNext
<1>13. Scans => ScanNext /\ UNCHANGED <<lockVars, leaseVars, accountVars, licenceVars,
                                        credentialVars, poolVars, visibilityVars, rateVars,
                                        retrievalVars, processingVars>>
  BY DEF Scans, Others
<1> QED BY <1>1, <1>2, <1>3, <1>4, <1>5, <1>6, <1>7, <1>8, <1>9, <1>10, <1>11, <1>12, <1>13 DEF Next

\* The server implements each of its parts: a behaviour of the server is, of the
\* variables of a part, one of the part.
THEOREM ServerImplementsParts ==
  Spec => /\ LockSpec /\ LeaseSpec /\ AccountSpec /\ LicenceSpec /\ CredentialSpec /\ PoolSpec
          /\ VisibilitySpec /\ RateSpec /\ RetrievalSpec /\ ProcessingSpec
<1>1. Spec => LockSpec /\ LeaseSpec /\ AccountSpec
  BY ServerStart, ServerSteps, PTL DEF Spec, LockSpec, LeaseSpec, AccountSpec
<1>2. Spec => LicenceSpec /\ CredentialSpec /\ PoolSpec
  BY ServerStart, ServerSteps, PTL DEF Spec, LicenceSpec, CredentialSpec, PoolSpec
<1>3. Spec => VisibilitySpec /\ RateSpec /\ RetrievalSpec /\ ProcessingSpec
  BY ServerStart, ServerSteps, PTL
     DEF Spec, VisibilitySpec, RateSpec, RetrievalSpec, ProcessingSpec
<1> QED BY <1>1, <1>2, <1>3

\* The invariant of the folders and their scans, of which the server has those that
\* start with a row and those that start with none.
LEMMA ServerScans == Spec => []ScanInv
BY ServerStart, ServerSteps, ScanInvStep, PTL DEF Spec

\* The variables of every part have their types in every state the server reaches.
THEOREM ServerTyped == Spec => []ServerTypeOK
<1>1. /\ LockTypeOK /\ LeaseTypeOK /\ FolderTypeOK /\ ScanTypeOK /\ AccountTypeOK
      /\ LicenceTypeOK /\ CredentialTypeOK /\ PoolTypeOK /\ VisibilityTypeOK /\ RateTypeOK
      /\ RetrievalTypeOK /\ ProcessingTypeOK
      => ServerTypeOK
  BY DEF ServerTypeOK
<1>2. Spec => [](FolderTypeOK /\ ScanTypeOK)
  BY ServerScans, ScanInvTypes, PTL
<1>3. Spec => [](LockTypeOK /\ LeaseTypeOK /\ AccountTypeOK /\ LicenceTypeOK)
  BY ServerImplementsParts, LocksTyped, LeaseTypedHolds, AccountsTyped, LicencesTyped, PTL
<1>4. Spec => [](CredentialTypeOK /\ PoolTypeOK /\ VisibilityTypeOK)
  BY ServerImplementsParts, CredentialsTyped, PoolsTyped, VisibilityTyped, PTL
<1>5. Spec => [](RateTypeOK /\ RetrievalTypeOK /\ ProcessingTypeOK)
  BY ServerImplementsParts, RateTyped, RetrievalTyped, ProcessingTyped, PTL
<1> QED BY <1>1, <1>2, <1>3, <1>4, <1>5, PTL

\* What is proved of the parts holds of the server, whichever part moves: a lock that a
\* client was told of is backed by a row and never taken from it, roots are unique, a scan
\* that nothing disturbs leaves the index as the disk is, the count of scans is exact, keys
\* and the lineage of one are kept, the overage follows the licence, a quiet pool is whole,
\* readers agree, runs tell the truth, a retry meets a fresh window, a quiet search answers
\* the best there is, and what a pass answers to be unchanged is.
THEOREM ServerIsSafe ==
  Spec => /\ [](/\ GrantIsBacked /\ RootsUnique /\ QuietScanMatchesDisk /\ ActiveScansExact
                /\ KeysKept /\ OverageFollowsLicence /\ LineageHasKey /\ QuietPoolIsWhole
                /\ ReadersAgree /\ RunsTellTheTruth /\ RetryMeetsFreshWindow
                /\ QuietAnswerIsBest /\ UnchangedIsTrue)
          /\ ImplementsExclusiveLocks
<1>1. Spec => [](RootsUnique /\ QuietScanMatchesDisk /\ ActiveScansExact)
  <2>1. ScanInv => RootsUnique /\ QuietScanMatchesDisk /\ ActiveScansExact
    BY CountIsExact, QuietIsExact DEF ScanInv, FolderInv
  <2> QED BY <2>1, ServerScans, PTL
<1>2. Spec => [](GrantIsBacked /\ KeysKept /\ OverageFollowsLicence /\ LineageHasKey)
  BY ServerImplementsParts, GrantIsBackedHolds, KeysKeptHolds, OverageFollowsLicenceHolds,
     LineageHasKeyHolds, PTL
<1>3. Spec => [](QuietPoolIsWhole /\ ReadersAgree /\ RunsTellTheTruth)
  BY ServerImplementsParts, QuietPoolIsWholeHolds, ReadersAgreeHolds, RunsTellTheTruthHolds, PTL
<1>4. Spec => [](RetryMeetsFreshWindow /\ QuietAnswerIsBest /\ UnchangedIsTrue)
  BY ServerImplementsParts, RetryMeetsFreshWindowHolds, QuietAnswerIsBestHolds,
     UnchangedIsTrueHolds, PTL
<1>5. Spec => ImplementsExclusiveLocks
  BY ServerImplementsParts, LocksImplement
<1> QED BY <1>1, <1>2, <1>3, <1>4, <1>5, PTL

\* With a pool that keeps every connection that comes back, the replica that runs the
\* scheduler has the advisory lock, and no other runs it, whatever the rest of the server
\* does.
THEOREM ServerHasOneScheduler ==
  ASSUME KeepsAll
  PROVE  Spec => [](LeaseIsLocked /\ OneScheduler)
<1>1. LeaseSpec => []LeaseIsLocked
  BY LeaseIsLockedHolds
<1>2. LeaseSpec => []OneScheduler
  BY OneSchedulerHolds
<1> QED BY <1>1, <1>2, ServerImplementsParts, PTL

\* With one replica, the copy of the roles it answers from is the table, and no step
\* leaves the server without an administrator.
THEOREM ServerKeepsAnAdmin ==
  ASSUME OneServer
  PROVE  Spec => []CopyIsCurrent /\ LastAdminKept
<1>1. AccountSpec => []CopyIsCurrent
  BY CopyIsCurrentHolds
<1>2. AccountSpec => LastAdminKept
  BY LastAdminKeptHolds
<1> QED BY <1>1, <1>2, ServerImplementsParts, PTL
=============================================================================
