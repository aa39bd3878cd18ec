------------------------------ MODULE Accounts ------------------------------
(***************************************************************************)
(* Users, roles and SCIM groups: users.py, role_permissions.py, scim.py    *)
(* and their endpoints, run by API replicas on one database.               *)
(*                                                                         *)
(* A handler awaits nothing after it has read its body, so the handlers of *)
(* one replica do not interleave; those of two replicas do, between        *)
(* transactions.  Only where that matters are a handler's transactions     *)
(* steps of their own.  A role's list of permissions is a version of it.   *)
(***************************************************************************)
EXTENDS Integers, FiniteSets

CONSTANTS Users, Groups,
          Servers,      \* API replicas
          Builtin,      \* roles of BUILTIN_ROLES beside admin and user
          Custom,       \* names for roles that are created
          NoUser, NoRole, NotLoaded,
          MaxChanges,   \* bound: requests that change something
          MaxFaults     \* bound: failed reads of the roles table

ASSUME AccountAssumption ==
  /\ MaxChanges \in Nat /\ MaxFaults \in Nat
  /\ {"admin", "user"} \cap (Builtin \cup Custom) = {} /\ Builtin \cap Custom = {}
  /\ NoRole \notin {"admin", "user"} \cup Builtin \cup Custom /\ NoRole \notin {0, 1}

VARIABLES user,         \* users table: role and is_active
          roles,        \* roles table: version of the permissions, or NoRole
          group,        \* scim_groups: the role a group maps to, or NoRole
          config,       \* _role_config of each replica
          guard,        \* what a guarded handler is about to do
          changes, faults

accountVars == <<user, roles, group, config, guard, changes, faults>>

System == {"admin", "user"}
RoleNames == System \cup Builtin \cup Custom
Version == {0, 1}
DefaultRole == "user"
NoGuard == [step |-> "none"]
RoleTable == [RoleNames -> Version \cup {NoRole}]

\* BUILTIN_ROLES, which are also what the migration puts into the table.
Defaults == [r \in RoleNames |-> IF r \in Custom THEN NoRole ELSE 0]

\* One administrator, who has made the others.
AccountInit ==
  /\ LET a == CHOOSE u \in Users : TRUE
     IN user = [u \in Users |-> [role |-> IF u = a THEN "admin" ELSE "user",
                                  active |-> TRUE]]
  /\ roles = Defaults
  /\ group = [g \in Groups |-> NoRole]
  /\ config = [s \in Servers |-> NotLoaded]
  /\ guard = [s \in Servers |-> NoGuard]
  /\ changes = 0 /\ faults = 0

-----------------------------------------------------------------------------
Exists(u) == user[u] # NoUser
NoRequestAt(s) == guard[s] = NoGuard
Change(s) == NoRequestAt(s) /\ changes < MaxChanges /\ changes' = changes + 1

\* get_valid_roles: what the replica's copy says.  A copy is loaded before it is
\* asked.
Loaded(s) == config[s] # NotLoaded
Valid(s, r) == Loaded(s) /\ config[s][r] # NoRole

\* A slip for LastAdminKept: an administrator who is not active counts as well.
MutAdmins == {u \in Users : Exists(u) /\ user[u].role = "admin"}

\* count_admins.
Admins == {u \in Users : Exists(u) /\ user[u].role = "admin" /\ user[u].active}

\* load_role_config; a read that fails leaves the replica with the defaults until
\* something makes it load again.
Load(s) ==
  /\ ~Loaded(s)
  /\ \/ config' = [config EXCEPT ![s] = roles] /\ UNCHANGED faults
     \/ /\ faults < MaxFaults /\ faults' = faults + 1
        /\ config' = [config EXCEPT ![s] = Defaults]
  /\ UNCHANGED <<user, roles, group, guard, changes>>

\* The process is restarted.
Restart(s) ==
  /\ config' = [config EXCEPT ![s] = NotLoaded]
  /\ guard' = [guard EXCEPT ![s] = NoGuard]
  /\ UNCHANGED <<user, roles, group, changes, faults>>

-----------------------------------------------------------------------------
\* create_role, update_role, delete_role: the table, and this replica's copy.

\* A slip for CopyIsCurrent: an update does not drop the copy.
MutDropped(s) == config

Dropped(s) == [config EXCEPT ![s] = NotLoaded]

CreateRole(s, r) ==
  /\ Change(s) /\ roles[r] = NoRole
  /\ \E v \in Version : roles' = [roles EXCEPT ![r] = v]
  /\ config' = Dropped(s)
  /\ UNCHANGED <<user, group, guard, faults>>

\* admin keeps every permission, whatever is asked.
UpdateRole(s, r) ==
  /\ Change(s) /\ roles[r] # NoRole
  /\ roles' = [roles EXCEPT ![r] = IF r = "admin" THEN @ ELSE 1 - @]
  /\ config' = Dropped(s)
  /\ UNCHANGED <<user, group, guard, faults>>

\* A group that maps to the role keeps it (foreign key); users do not.
DeleteRole(s, r) ==
  /\ Change(s) /\ roles[r] # NoRole /\ r \notin System
  /\ \A g \in Groups : group[g] # r
  /\ roles' = [roles EXCEPT ![r] = NoRole]
  /\ config' = Dropped(s)
  /\ UNCHANGED <<user, group, guard, faults>>

-----------------------------------------------------------------------------
\* update_user on a set of users, each a transaction; a role that is not valid
\* changes nothing.
Given(s, us, r) ==
  IF ~Valid(s, r) THEN user
  ELSE [u \in Users |-> IF u \in us /\ Exists(u) THEN [user[u] EXCEPT !.role = r]
                        ELSE user[u]]

CreateUser(s, u, r) ==
  /\ Change(s) /\ ~Exists(u) /\ Valid(s, r)
  /\ user' = [user EXCEPT ![u] = [role |-> r, active |-> TRUE]]
  /\ UNCHANGED <<roles, group, config, guard, faults>>

\* PUT /users and SCIM's PUT and PATCH change a role unguarded.
UpdateUser(s, u, r) ==
  /\ Change(s) /\ Exists(u) /\ Loaded(s)
  /\ user' = Given(s, {u}, r)
  /\ UNCHANGED <<roles, group, config, guard, faults>>

\* PUT /users, SCIM's PATCH and DELETE: is_active.
SetActive(s, u, active) ==
  /\ Change(s) /\ Exists(u)
  /\ user' = [user EXCEPT ![u].active = active]
  /\ UNCHANGED <<roles, group, config, guard, faults>>

\* DELETE /users/{id} and POST /users/{id}/role: refused for the last
\* administrator.  The count is a transaction before the one that acts.
Refused(u, r) == Exists(u) /\ user[u].role = "admin" /\ r # "admin"
                 /\ Cardinality(Admins) <= 1

BeginGuarded(s, u, r) ==
  /\ Change(s) /\ ~Refused(u, r)
  /\ guard' = [guard EXCEPT ![s] = [step |-> "checked", id |-> u, role |-> r]]
  /\ UNCHANGED <<user, roles, group, config, faults>>

\* NoRole stands for the deletion.
EndGuarded(s) ==
  /\ ~NoRequestAt(s) /\ Loaded(s)
  /\ user' = IF guard[s].role = NoRole
             THEN [user EXCEPT ![guard[s].id] = NoUser]
             ELSE Given(s, {guard[s].id}, guard[s].role)
  /\ guard' = [guard EXCEPT ![s] = NoGuard]
  /\ UNCHANGED <<roles, group, config, changes, faults>>

-----------------------------------------------------------------------------
\* Groups.  A group has no members of its own: they are the active users that
\* have its role.
Members(r) == {u \in Users : Exists(u) /\ user[u].role = r /\ user[u].active}

CreateGroup(s, g, r, us) ==
  /\ Change(s) /\ group[g] = NoRole /\ Valid(s, r) /\ roles[r] # NoRole
  /\ group' = [group EXCEPT ![g] = r]
  /\ user' = Given(s, us, r)
  /\ UNCHANGED <<roles, config, guard, faults>>

\* PUT: the listed users get the role, the former members the default one.
ReplaceGroup(s, g, r, us) ==
  /\ Change(s) /\ group[g] # NoRole /\ Valid(s, r) /\ roles[r] # NoRole
  /\ group' = [group EXCEPT ![g] = r]
  /\ user' = [u \in Users |->
       IF ~Exists(u) THEN NoUser
       ELSE IF u \in us THEN [user[u] EXCEPT !.role = r]
       ELSE IF u \in Members(group[g]) THEN [user[u] EXCEPT !.role = DefaultRole]
       ELSE user[u]]
  /\ UNCHANGED <<roles, config, guard, faults>>

\* PATCH: "add" and "replace" of members give the role, "remove" the default one,
\* whatever the user's role was; the mapping is changed without its members.
PatchGroup(s, g, us) ==
  /\ Change(s) /\ group[g] # NoRole /\ Loaded(s)
  /\ \/ user' = Given(s, us, group[g]) /\ UNCHANGED group
     \/ user' = Given(s, us, DefaultRole) /\ UNCHANGED group
     \/ /\ \E r \in RoleNames :
             /\ Valid(s, r) /\ roles[r] # NoRole
             /\ group' = [group EXCEPT ![g] = r]
        /\ UNCHANGED user
  /\ UNCHANGED <<roles, config, guard, faults>>

DeleteGroup(s, g) ==
  /\ Change(s) /\ group[g] # NoRole
  /\ group' = [group EXCEPT ![g] = NoRole]
  /\ UNCHANGED <<user, roles, config, guard, faults>>

AccountNext == \E s \in Servers :
  \/ Load(s) \/ Restart(s) \/ EndGuarded(s)
  \/ \E r \in RoleNames : CreateRole(s, r) \/ UpdateRole(s, r) \/ DeleteRole(s, r)
  \/ \E u \in Users, r \in RoleNames : CreateUser(s, u, r) \/ UpdateUser(s, u, r)
  \/ \E u \in Users, b \in BOOLEAN : SetActive(s, u, b)
  \/ \E u \in Users, r \in RoleNames \cup {NoRole} : BeginGuarded(s, u, r)
  \/ \E g \in Groups, r \in RoleNames, us \in SUBSET Users :
       CreateGroup(s, g, r, us) \/ ReplaceGroup(s, g, r, us)
  \/ \E g \in Groups, us \in SUBSET Users : PatchGroup(s, g, us)
  \/ \E g \in Groups : DeleteGroup(s, g)

AccountSpec == AccountInit /\ [][AccountNext]_accountVars

-----------------------------------------------------------------------------
HasAdmin == \E u \in Users : Exists(u) /\ user[u].active /\ user[u].role = "admin"

\* A guarded request never takes the last active administrator away, if one
\* replica serves them all: identity_api.py refuses to delete or demote the last
\* one.  Requests that have no guard may.
LastAdminKept ==
  [][(\E s \in Servers : EndGuarded(s)) /\ HasAdmin => HasAdmin']_accountVars

\* A replica that could read the table when it had to, and is alone, answers from
\* a copy that is the table, through any sequence of changes and restarts.
CopyIsCurrent ==
  Cardinality(Servers) = 1 /\ faults = 0 =>
    \A s \in Servers : Loaded(s) => config[s] = roles

\* The variables have their types.
AccountTypeOK ==
  /\ user \in [Users -> [role : RoleNames, active : BOOLEAN] \cup {NoUser}]
  /\ roles \in RoleTable
  /\ group \in [Groups -> RoleNames \cup {NoRole}]
  /\ config \in [Servers -> RoleTable \cup {NotLoaded}]
  /\ \A r \in System : roles[r] # NoRole
  /\ \A g \in Groups : group[g] # NoRole => roles[group[g]] # NoRole
  /\ changes \in Nat /\ faults \in Nat
=============================================================================
