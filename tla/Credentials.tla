---------------------------- MODULE Credentials ----------------------------
(***************************************************************************)
(* API keys (auth.py) and SAML sessions (saml_auth.py) with the endpoints  *)
(* of identity_api.py that manage them, on API replicas with one database  *)
(* and its clock.  The key itself, its hash and the exchange with the      *)
(* identity provider are left out: a login is an e-mail that was answered  *)
(* for.  A lineage is a key and what it was rotated to.                    *)
(***************************************************************************)
EXTENDS Integers, FiniteSets

CONSTANTS KeyServers,
          Owners,       \* people: users by their e-mail
          MaxKeys,      \* bound: keys ever created
          MaxSessions,  \* bound: sessions ever created
          Grace,        \* GRACE_PERIOD_HOURS
          Lifetime,     \* SAML_SESSION_LIFETIME_HOURS
          MaxHours,     \* bound: the clock
          Never, NoKeyRow, NoSession

ASSUME CredentialAssumption ==
  /\ {MaxKeys, MaxSessions, Grace, Lifetime, MaxHours} \subseteq Nat /\ Never \notin Nat
  /\ NoKeyRow \notin [revoked : Nat \cup {Never}, lineage : 1 .. MaxKeys]

VARIABLES keyRow,       \* api_keys: revoked_at, and the lineage
          ended,        \* lineages of which a key was deleted
          people,       \* users, by their e-mail
          session,      \* saml_sessions: user, expires_at, is_active
          request,      \* what each replica is doing
          hour

credentialVars == <<keyRow, ended, people, session, request, hour>>

KeyIds == 1 .. MaxKeys
SessionIds == 1 .. MaxSessions
NoRequest == [step |-> "none"]

CredentialInit ==
  /\ keyRow = [k \in KeyIds |-> NoKeyRow] /\ ended = {}
  /\ people = {}
  /\ session = [s \in SessionIds |-> NoSession]
  /\ request = [r \in KeyServers |-> NoRequest]
  /\ hour = 0

-----------------------------------------------------------------------------
HasRow(k) == keyRow[k] # NoKeyRow
NextFree(f, none) == {i \in DOMAIN f : f[i] = none /\ \A j \in 1 .. i - 1 : f[j] # none}
Waiting(r) == request[r] = NoRequest

\* lookup_api_key: a revoked key is good for the grace period.
KeyAccepted(k) == HasRow(k) /\ (keyRow[k].revoked = Never \/ keyRow[k].revoked + Grace > hour)

\* create_api_key_record.
CreateKey(r) ==
  /\ Waiting(r)
  /\ \E k \in NextFree(keyRow, NoKeyRow) :
       keyRow' = [keyRow EXCEPT ![k] = [revoked |-> Never, lineage |-> k]]
  /\ UNCHANGED <<ended, people, session, request, hour>>

\* revoke_api_key: a key that has been rotated away is not found.
RevokeKey(r, k) ==
  /\ Waiting(r) /\ HasRow(k) /\ keyRow[k].revoked = Never
  /\ keyRow' = [keyRow EXCEPT ![k].revoked = hour]
  /\ ended' = ended \cup {keyRow[k].lineage}
  /\ UNCHANGED <<people, session, request, hour>>

\* rotate_api_key is one transaction, but its read locks nothing: another replica
\* may rotate, or revoke, the key before it writes.
RotateRead(r, k) ==
  /\ Waiting(r) /\ HasRow(k) /\ keyRow[k].revoked = Never
  /\ request' = [request EXCEPT ![r] = [step |-> "rotating", key |-> k]]
  /\ UNCHANGED <<keyRow, ended, people, session, hour>>

\* A slip for LineageHasKey: the revocation is committed by itself and the
\* insertion of the new key fails.
MutRotated(k) == {[keyRow EXCEPT ![k].revoked = hour]}

\* The old key is revoked and the new one added; the user stays with the old one.
Rotated(k) ==
  {[keyRow EXCEPT ![k].revoked = hour,
                  ![n] = [revoked |-> Never, lineage |-> keyRow[k].lineage]] :
     n \in NextFree(keyRow, NoKeyRow)}

RotateWrite(r) ==
  /\ request[r].step = "rotating"
  /\ keyRow' \in Rotated(request[r].key)
  /\ request' = [request EXCEPT ![r] = NoRequest]
  /\ UNCHANGED <<ended, people, session, hour>>

\* An error or a crash: the transaction is rolled back.
Abandon(r) ==
  /\ ~Waiting(r) /\ request' = [request EXCEPT ![r] = NoRequest]
  /\ UNCHANGED <<keyRow, ended, people, session, hour>>

-----------------------------------------------------------------------------
\* DELETE /users/{id} takes the user's sessions along.
WithoutUser(p) ==
  [s \in SessionIds |-> IF session[s] # NoSession /\ session[s].of = p THEN NoSession
                        ELSE session[s]]

DeletePerson(r, p) ==
  /\ Waiting(r) /\ p \in people
  /\ people' = people \ {p}
  /\ session' = WithoutUser(p)
  /\ UNCHANGED <<keyRow, ended, request, hour>>

\* provision_or_get_user, then create_session: two transactions.
Provision(r, p) ==
  /\ Waiting(r)
  /\ people' = people \cup {p}
  /\ request' = [request EXCEPT ![r] = [step |-> "provisioned", key |-> p]]
  /\ UNCHANGED <<keyRow, ended, session, hour>>

\* The login succeeds without a session when its user is no longer there.
CreateSession(r) ==
  /\ request[r].step = "provisioned"
  /\ request' = [request EXCEPT ![r] = NoRequest]
  /\ LET p == request[r].key
     IN IF p \notin people THEN UNCHANGED session
        ELSE \E s \in NextFree(session, NoSession) :
               session' = [session EXCEPT ![s] =
                 [of |-> p, expires |-> hour + Lifetime, active |-> TRUE]]
  /\ UNCHANGED <<keyRow, ended, people, hour>>

\* get_session.
Live(s) == session[s] # NoSession /\ session[s].active /\ session[s].expires > hour

\* GET /saml/logout.
Logout(r, s) ==
  /\ Waiting(r) /\ Live(s)
  /\ session' = [session EXCEPT ![s].active = FALSE]
  /\ UNCHANGED <<keyRow, ended, people, request, hour>>

\* cleanup_expired_sessions.
Gone(s) == session[s] # NoSession /\ (session[s].expires < hour \/ ~session[s].active)

CleanupSessions(r) ==
  /\ Waiting(r) /\ \E s \in SessionIds : Gone(s)
  /\ session' = [s \in SessionIds |-> IF Gone(s) THEN NoSession ELSE session[s]]
  /\ UNCHANGED <<keyRow, ended, people, request, hour>>

HourPasses ==
  /\ hour < MaxHours /\ hour' = hour + 1
  /\ UNCHANGED <<keyRow, ended, people, session, request>>

CredentialNext ==
  \/ HourPasses
  \/ \E r \in KeyServers :
       \/ CreateKey(r) \/ RotateWrite(r) \/ Abandon(r) \/ CreateSession(r)
       \/ CleanupSessions(r)
       \/ \E k \in KeyIds : RevokeKey(r, k) \/ RotateRead(r, k)
       \/ \E p \in Owners : DeletePerson(r, p) \/ Provision(r, p)
       \/ \E s \in SessionIds : Logout(r, s)

CredentialSpec == CredentialInit /\ [][CredentialNext]_credentialVars

-----------------------------------------------------------------------------
\* Whoever holds the keys of a lineage nobody revoked has one that is accepted, at
\* every moment and also while replicas rotate the same key and fail half way.
LineageHasKey ==
  \A k \in KeyIds : HasRow(k) /\ keyRow[k].lineage \notin ended =>
    \E n \in KeyIds : KeyAccepted(n) /\ keyRow[n].lineage = keyRow[k].lineage

\* The variables have their types.
CredentialTypeOK ==
  /\ keyRow \in [KeyIds -> [revoked : Nat \cup {Never}, lineage : KeyIds] \cup {NoKeyRow}]
  /\ ended \subseteq KeyIds
  /\ people \subseteq Owners
  /\ session \in [SessionIds -> [of : Owners, expires : Nat, active : BOOLEAN]
                                  \cup {NoSession}]
  /\ hour \in Nat
=============================================================================
