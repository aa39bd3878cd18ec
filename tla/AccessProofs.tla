---------------------------- MODULE AccessProofs ----------------------------
(***************************************************************************)
(* Proofs about who may use the server, its users and their roles, the     *)
(* keys and sessions they come with, the rate of their requests; and about *)
(* the connections it uses, what one that is open still holds and what the *)
(* pool that lends it still counts.                                        *)
(***************************************************************************)
EXTENDS Accounts, Credentials, RateLimit, SchedulerLease, ConnectionPool,
        FiniteSetTheorems, TLAPS

-----------------------------------------------------------------------------
(***************************************************************************)
(* Users and roles, with one replica: the count of administrators and the  *)
(* request it guards are two transactions, and nothing that one replica    *)
(* does comes between them; the copy of the roles it answers from is the   *)
(* table.                                                                  *)
(***************************************************************************)

\* One replica serves all requests.
OneServer == \E s : Servers = {s}

User == [role : RoleNames, active : BOOLEAN]

AccountTypes ==
  /\ user \in [Users -> User \cup {NoUser}]
  /\ group \in [Groups -> RoleNames \cup {NoRole}]
  /\ config = [s \in Servers |-> config[s]] /\ guard = [s \in Servers |-> guard[s]]
  /\ faults \in Nat

\* A request that waits to act was not refused, and would still not be.
GuardHolds ==
  \A s \in Servers : guard[s] # NoGuard =>
    /\ guard[s].id \in Users /\ guard[s].role \in RoleNames \cup {NoRole}
    /\ ~Refused(guard[s].id, guard[s].role)

AccountInv == AccountTypes /\ GuardHolds /\ CopyIsCurrent

\* A guarded request that was not refused leaves an administrator.
LEMMA OneRemains ==
  ASSUME NEW u \in Users, NEW r, ~Refused(u, r), HasAdmin, r # "admin"
  PROVE  \E v \in Users \ {u} : Exists(v) /\ user[v].active /\ user[v].role = "admin"
<1>1. CASE Exists(u) /\ user[u].role = "admin"
  <2>1. ~(Cardinality(Admins) <= 1)
    BY <1>1 DEF Refused
  <2>2. ~(Admins \subseteq {u})
    <3>1. IsFiniteSet({u}) /\ Cardinality({u}) = 1
      BY FS_Singleton
    <3> SUFFICES ASSUME Admins \subseteq {u} PROVE FALSE
      OBVIOUS
    <3>2. Cardinality(Admins) <= Cardinality({u})
      BY <3>1, FS_Subset
    <3> QED BY <2>1, <3>1, <3>2
  <2> QED BY <2>2 DEF Admins
<1>2. CASE ~(Exists(u) /\ user[u].role = "admin")
  BY <1>2 DEF HasAdmin
<1> QED BY <1>1, <1>2

\* At the start one user is the administrator, and no replica has a copy.
LEMMA AccountInitInv == OneServer /\ AccountInit => AccountInv
<1> SUFFICES ASSUME AccountInit PROVE AccountInv
  OBVIOUS
<1>1. AccountTypes
  BY DEF AccountInit, AccountTypes, User, RoleNames, System
<1>2. GuardHolds /\ CopyIsCurrent
  BY DEF AccountInit, GuardHolds, CopyIsCurrent, Loaded
<1> QED BY <1>1, <1>2 DEF AccountInv

\* Giving a role to some users leaves users.
LEMMA GivenType ==
  ASSUME AccountTypes, NEW s, NEW us, NEW r \in RoleNames
  PROVE  Given(s, us, r) \in [Users -> User \cup {NoUser}]
BY DEF Given, AccountTypes, User, Exists

\* The requests on roles: this replica's copy goes with the change of the table.
LEMMA RoleInv ==
  ASSUME OneServer, AccountInv, NEW s \in Servers, NEW r \in RoleNames,
         CreateRole(s, r) \/ UpdateRole(s, r) \/ DeleteRole(s, r)
  PROVE  AccountInv'
<1>1. /\ UNCHANGED <<user, guard, faults>> /\ config' = Dropped(s) /\ guard[s] = NoGuard
  BY DEF CreateRole, UpdateRole, DeleteRole, Change, NoRequestAt
<1>2. AccountTypes'
  BY <1>1 DEF AccountInv, AccountTypes, Dropped, CreateRole, UpdateRole, DeleteRole
<1>3. GuardHolds'
  BY <1>1 DEF OneServer, GuardHolds
<1>4. CopyIsCurrent'
  BY <1>1 DEF OneServer, AccountInv, AccountTypes, CopyIsCurrent, Dropped, Loaded
<1> QED BY <1>2, <1>3, <1>4 DEF AccountInv

\* The requests on users and groups that act at once: none of them runs while a
\* guarded one waits.
LEMMA AtOnceInv ==
  ASSUME OneServer, AccountInv, NEW s \in Servers, guard[s] = NoGuard,
         user' \in [Users -> User \cup {NoUser}],
         group' \in [Groups -> RoleNames \cup {NoRole}],
         UNCHANGED <<roles, config, guard, faults>>
  PROVE  AccountInv'
<1>1. AccountTypes' /\ CopyIsCurrent'
  BY DEF AccountInv, AccountTypes, CopyIsCurrent, Loaded
<1>2. GuardHolds'
  BY DEF OneServer, GuardHolds
<1> QED BY <1>1, <1>2 DEF AccountInv

\* The requests on users.
LEMMA UserInv ==
  ASSUME OneServer, AccountInv, NEW s \in Servers, NEW u \in Users,
         \/ \E r \in RoleNames : CreateUser(s, u, r) \/ UpdateUser(s, u, r)
         \/ \E b \in BOOLEAN : SetActive(s, u, b)
  PROVE  AccountInv'
<1>1. guard[s] = NoGuard /\ UNCHANGED <<roles, config, guard, faults, group>>
  BY DEF CreateUser, UpdateUser, SetActive, Change, NoRequestAt
<1>2. user' \in [Users -> User \cup {NoUser}]
  <2>1. CASE \E r \in RoleNames : CreateUser(s, u, r)
    BY <2>1 DEF CreateUser, AccountInv, AccountTypes, User
  <2>2. CASE \E r \in RoleNames : UpdateUser(s, u, r)
    BY <2>2, GivenType DEF UpdateUser, AccountInv
  <2>3. CASE \E b \in BOOLEAN : SetActive(s, u, b)
    BY <2>3 DEF SetActive, AccountInv, AccountTypes, User, Exists
  <2> QED BY <2>1, <2>2, <2>3
<1> QED BY <1>1, <1>2, AtOnceInv DEF AccountInv, AccountTypes

\* The requests on groups.
LEMMA GroupInv ==
  ASSUME OneServer, AccountInv, NEW s \in Servers, NEW g \in Groups, NEW us \in SUBSET Users,
         \/ \E r \in RoleNames : CreateGroup(s, g, r, us) \/ ReplaceGroup(s, g, r, us)
         \/ PatchGroup(s, g, us) \/ DeleteGroup(s, g)
  PROVE  AccountInv'
<1>1. guard[s] = NoGuard /\ UNCHANGED <<roles, config, guard, faults>>
  BY DEF CreateGroup, ReplaceGroup, PatchGroup, DeleteGroup, Change, NoRequestAt
<1>2. "user" \in RoleNames /\ DefaultRole = "user"
  BY DEF RoleNames, System, DefaultRole
<1>3. CASE \E r \in RoleNames : CreateGroup(s, g, r, us)
  BY <1>1, <1>3, GivenType, AtOnceInv DEF CreateGroup, AccountInv, AccountTypes
<1>4. CASE \E r \in RoleNames : ReplaceGroup(s, g, r, us)
  <2>1. user' \in [Users -> User \cup {NoUser}]
    BY <1>2, <1>4 DEF ReplaceGroup, AccountInv, AccountTypes, User, Exists
  <2>2. group' \in [Groups -> RoleNames \cup {NoRole}]
    BY <1>4 DEF ReplaceGroup, AccountInv, AccountTypes
  <2> QED BY <1>1, <2>1, <2>2, AtOnceInv
<1>5. CASE PatchGroup(s, g, us)
  <2>1. group[g] \in RoleNames
    BY <1>5 DEF PatchGroup, AccountInv, AccountTypes
  <2>2. user' \in [Users -> User \cup {NoUser}] /\ group' \in [Groups -> RoleNames \cup {NoRole}]
    BY <1>2, <1>5, <2>1, GivenType DEF PatchGroup, AccountInv, AccountTypes
  <2> QED BY <1>1, <2>2, AtOnceInv
<1>6. CASE DeleteGroup(s, g)
  BY <1>1, <1>6, AtOnceInv DEF DeleteGroup, AccountInv, AccountTypes
<1> QED BY <1>3, <1>4, <1>5, <1>6

\* A replica loads its copy, is restarted, or checks and then acts.
LEMMA ReplicaInv ==
  ASSUME OneServer, AccountInv, NEW s \in Servers,
         \/ Load(s) \/ Restart(s) \/ EndGuarded(s)
         \/ \E u \in Users, r \in RoleNames \cup {NoRole} : BeginGuarded(s, u, r)
  PROVE  AccountInv'
<1>1. CASE Load(s)
  <2>1. AccountTypes'
    BY <1>1 DEF Load, AccountInv, AccountTypes
  <2>3. GuardHolds'
    BY <1>1 DEF Load, AccountInv, GuardHolds, Refused, Exists, Admins
  <2>2. CopyIsCurrent'
    BY <1>1 DEF Load, AccountInv, AccountTypes, OneServer, CopyIsCurrent, Loaded
  <2> QED BY <2>1, <2>2, <2>3 DEF AccountInv
<1>2. CASE Restart(s)
  <2>1. AccountTypes'
    BY <1>2 DEF Restart, AccountInv, AccountTypes
  <2>2. GuardHolds' /\ CopyIsCurrent'
    BY <1>2 DEF Restart, OneServer, AccountInv, AccountTypes, GuardHolds, CopyIsCurrent, Loaded
  <2> QED BY <2>1, <2>2 DEF AccountInv
<1>3. CASE EndGuarded(s)
  <2>1. user' \in [Users -> User \cup {NoUser}]
    <3>1. guard[s].id \in Users /\ guard[s].role \in RoleNames \cup {NoRole}
      BY <1>3 DEF EndGuarded, NoRequestAt, AccountInv, GuardHolds
    <3> QED BY <1>3, <3>1, GivenType DEF EndGuarded, AccountInv, AccountTypes
  <2>2. AccountTypes' /\ CopyIsCurrent'
    BY <1>3, <2>1 DEF EndGuarded, AccountInv, AccountTypes, CopyIsCurrent, Loaded
  <2>3. GuardHolds'
    BY <1>3 DEF EndGuarded, OneServer, AccountInv, AccountTypes, GuardHolds
  <2> QED BY <2>2, <2>3 DEF AccountInv
<1>4. CASE \E u \in Users, r \in RoleNames \cup {NoRole} : BeginGuarded(s, u, r)
  <2>1. PICK u \in Users, r \in RoleNames \cup {NoRole} : BeginGuarded(s, u, r)
    BY <1>4
  <2>2. AccountTypes' /\ CopyIsCurrent'
    BY <2>1 DEF BeginGuarded, AccountInv, AccountTypes, CopyIsCurrent, Loaded
  <2>3. /\ UNCHANGED user /\ ~Refused(u, r)
        /\ \A t \in Servers : guard'[t].id = u /\ guard'[t].role = r
    BY <2>1 DEF BeginGuarded, OneServer, AccountInv, AccountTypes
  <2>4. GuardHolds'
    BY <2>3 DEF GuardHolds, Refused, Exists, Admins
  <2> QED BY <2>2, <2>4 DEF AccountInv
<1> QED BY <1>1, <1>2, <1>3, <1>4

\* One replica: what it checked before it acts still holds, and its copy is the
\* table if it could read it.
THEOREM AccountInvHolds == ASSUME OneServer PROVE AccountSpec => []AccountInv
<1>1. AccountInv /\ [AccountNext]_accountVars => AccountInv'
  <2> SUFFICES ASSUME AccountInv, [AccountNext]_accountVars PROVE AccountInv'
    OBVIOUS
  <2>1. CASE UNCHANGED accountVars
    <3>1. AccountTypes' /\ CopyIsCurrent'
      BY <2>1 DEF accountVars, AccountInv, AccountTypes, CopyIsCurrent, Loaded
    <3>2. GuardHolds'
      BY <2>1 DEF accountVars, AccountInv, GuardHolds, Refused, Exists, Admins
    <3> QED BY <3>1, <3>2 DEF AccountInv
  <2>2. CASE AccountNext
    <3>1. PICK s \in Servers :
            \/ Load(s) \/ Restart(s) \/ EndGuarded(s)
            \/ \E r \in RoleNames : CreateRole(s, r) \/ UpdateRole(s, r) \/ DeleteRole(s, r)
            \/ \E u \in Users, r \in RoleNames : CreateUser(s, u, r) \/ UpdateUser(s, u, r)
            \/ \E u \in Users, b \in BOOLEAN : SetActive(s, u, b)
            \/ \E u \in Users, r \in RoleNames \cup {NoRole} : BeginGuarded(s, u, r)
            \/ \E g \in Groups, r \in RoleNames, us \in SUBSET Users :
                 CreateGroup(s, g, r, us) \/ ReplaceGroup(s, g, r, us)
            \/ \E g \in Groups, us \in SUBSET Users : PatchGroup(s, g, us)
            \/ \E g \in Groups : DeleteGroup(s, g)
      BY <2>2 DEF AccountNext
    <3>2. CASE \E g \in Groups : DeleteGroup(s, g)
      <4>1. {} \in SUBSET Users
        OBVIOUS
      <4> QED BY <3>2, <4>1, GroupInv
    <3> QED BY <3>1, <3>2, RoleInv, UserInv, GroupInv, ReplicaInv
  <2> QED BY <2>1, <2>2
<1> QED BY <1>1, AccountInitInv, PTL DEF AccountSpec

\* A replica that is alone, and could read the table when it had to, answers from
\* the table's roles and permissions (load_role_config, invalidate_role_cache).
THEOREM CopyIsCurrentHolds == ASSUME OneServer PROVE AccountSpec => []CopyIsCurrent
<1>1. AccountInv => CopyIsCurrent
  BY DEF AccountInv
<1> QED BY <1>1, AccountInvHolds, PTL

\* Deleting or demoting through a guarded request leaves an active administrator
\* if there was one (count_admins before delete_user and change_role).
THEOREM LastAdminKeptHolds == ASSUME OneServer PROVE AccountSpec => LastAdminKept
<1>1. ASSUME AccountInv, NEW s \in Servers, EndGuarded(s), HasAdmin
      PROVE  HasAdmin'
  <2> DEFINE u == guard[s].id
             r == guard[s].role
  <2>1. u \in Users /\ r \in RoleNames \cup {NoRole} /\ ~Refused(u, r)
    BY <1>1 DEF EndGuarded, NoRequestAt, AccountInv, GuardHolds
  <2>2. \A v \in Users \ {u} : user'[v] = user[v]
    BY <1>1 DEF EndGuarded, Given, AccountInv, AccountTypes
  <2>3. CASE r # "admin"
    <3>1. \E v \in Users \ {u} : Exists(v) /\ user[v].active /\ user[v].role = "admin"
      BY <1>1, <2>1, <2>3, OneRemains
    <3> QED BY <2>2, <3>1 DEF HasAdmin, Exists
  <2>4. CASE r = "admin"
    <3>1. user' = Given(s, {u}, "admin")
      BY <1>1, <2>4, AccountAssumption DEF EndGuarded
    <3>2. PICK v \in Users : Exists(v) /\ user[v].active /\ user[v].role = "admin"
      BY <1>1 DEF HasAdmin
    <3>3. user[v] \in [role : RoleNames, active : BOOLEAN]
      BY <1>1, <3>2 DEF AccountInv, AccountTypes, User, Exists
    <3> DEFINE x == user[v]
    <3>4. x \in [role : RoleNames, active : BOOLEAN] /\ x.role = "admin"
      BY <3>2, <3>3
    <3> HIDE DEF x
    <3>5. [x EXCEPT !.role = "admin"] = x
      BY <3>4
    <3>6. user'[v] = user[v]
      BY <3>1, <3>5 DEF Given, x
    <3> QED BY <3>2, <3>6 DEF HasAdmin, Exists
  <2> QED BY <2>3, <2>4
<1>2. AccountInv /\ [AccountNext]_accountVars =>
        [(\E s \in Servers : EndGuarded(s)) /\ HasAdmin => HasAdmin']_accountVars
  BY <1>1
<1> QED BY <1>2, AccountInvHolds, PTL DEF AccountSpec, LastAdminKept

-----------------------------------------------------------------------------
(***************************************************************************)
(* Types of the accounts, for any number of replicas: the roles the system *)
(* cannot do without stay, and a group maps to a role there is, whatever   *)
(* requests on roles and groups do to each other.                          *)
(***************************************************************************)

Guard == [step : {"checked"}, id : Users, role : RoleNames \cup {NoRole}] \cup {NoGuard}

TablesTyped ==
  /\ user \in [Users -> User \cup {NoUser}]
  /\ roles \in RoleTable
  /\ group \in [Groups -> RoleNames \cup {NoRole}]

ReplicasTyped ==
  /\ config \in [Servers -> RoleTable \cup {NotLoaded}]
  /\ guard \in [Servers -> Guard]
  /\ changes \in Nat /\ faults \in Nat

RolesKept ==
  /\ \A r \in System : roles[r] # NoRole
  /\ \A g \in Groups : group[g] # NoRole => roles[group[g]] # NoRole

TablesInv == TablesTyped /\ ReplicasTyped /\ RolesKept

\* The facts on the constants that the types need.
LEMMA TablesFacts ==
  /\ NoRole \notin Version /\ NoRole \notin RoleNames
  /\ System \subseteq RoleNames /\ DefaultRole \in RoleNames
  /\ Defaults \in RoleTable /\ \A r \in System : Defaults[r] # NoRole
<1>1. NoRole \notin Version /\ NoRole \notin RoleNames /\ System \cap Custom = {}
  BY AccountAssumption DEF Version, RoleNames, System
<1>2. System \subseteq RoleNames /\ DefaultRole \in RoleNames
  BY DEF RoleNames, System, DefaultRole
<1>3. Defaults \in RoleTable
  BY DEF Defaults, RoleTable, Version
<1>4. \A r \in System : Defaults[r] # NoRole
  BY <1>1, <1>2 DEF Defaults, Version
<1> QED BY <1>1, <1>2, <1>3, <1>4

\* Giving a role to some users, or to a group's, leaves users.
LEMMA GivenTyped ==
  ASSUME TablesInv, NEW s, NEW us, NEW r \in RoleNames
  PROVE  Given(s, us, r) \in [Users -> User \cup {NoUser}]
BY DEF Given, TablesInv, TablesTyped, User, Exists

\* A request starts when the replica serves no other, and is counted.
LEMMA ChangeTyped ==
  ASSUME TablesInv, NEW s \in Servers, Change(s), UNCHANGED <<guard, faults>>,
         config' \in {config, Dropped(s)}
  PROVE  ReplicasTyped'
BY DEF TablesInv, ReplicasTyped, Change, Dropped

\* The requests on roles.
LEMMA RolesTyped ==
  ASSUME TablesInv, NEW s \in Servers, NEW r \in RoleNames,
         CreateRole(s, r) \/ UpdateRole(s, r) \/ DeleteRole(s, r)
  PROVE  TablesInv'
<1>1. /\ UNCHANGED <<user, group>> /\ roles \in RoleTable
      /\ group \in [Groups -> RoleNames \cup {NoRole}]
  BY DEF CreateRole, UpdateRole, DeleteRole, TablesInv, TablesTyped
<1>2. ReplicasTyped'
  BY ChangeTyped DEF CreateRole, UpdateRole, DeleteRole
<1>3. PICK v \in Version \cup {NoRole} :
        /\ roles' = [roles EXCEPT ![r] = v]
        /\ v = NoRole => r \notin System /\ \A g \in Groups : group[g] # r
  <2>1. CASE CreateRole(s, r)
    BY <2>1, TablesFacts DEF CreateRole
  <2>2. CASE UpdateRole(s, r)
    <3>1. roles[r] \in Version /\ 1 - roles[r] \in Version
      BY <1>1, <2>2 DEF UpdateRole, RoleTable, Version
    <3>2. roles' = [roles EXCEPT ![r] = roles[r]] \/ roles' = [roles EXCEPT ![r] = 1 - roles[r]]
      BY <2>2 DEF UpdateRole
    <3> QED BY <3>1, <3>2, TablesFacts
  <2>3. CASE DeleteRole(s, r)
    <3>1. /\ roles' = [roles EXCEPT ![r] = NoRole] /\ r \notin System
          /\ \A g \in Groups : group[g] # r
      BY <2>3 DEF DeleteRole
    <3> WITNESS NoRole \in Version \cup {NoRole}
    <3> QED BY <3>1
  <2> QED BY <2>1, <2>2, <2>3
<1>4. roles' \in RoleTable /\ \A q \in RoleNames : roles'[q] = IF q = r THEN v ELSE roles[q]
  BY <1>1, <1>3 DEF RoleTable
<1>5. RolesKept'
  BY <1>1, <1>3, <1>4, TablesFacts DEF TablesInv, RolesKept
<1> QED BY <1>1, <1>2, <1>4, <1>5 DEF TablesInv, TablesTyped

\* What a request makes of the users and of the mapping of groups to roles.
LEMMA PeopleTyped ==
  ASSUME TablesInv, ReplicasTyped', roles' = roles,
         user' \in [Users -> User \cup {NoUser}],
         \/ group' = group
         \/ \E g \in Groups, r \in RoleNames \cup {NoRole} :
              /\ group' = [group EXCEPT ![g] = r]
              /\ r # NoRole => roles[r] # NoRole
  PROVE  TablesInv'
BY DEF TablesInv, TablesTyped, RolesKept

\* The requests on users, at once or guarded.
LEMMA UsersTyped ==
  ASSUME TablesInv, NEW s \in Servers,
         \/ \E u \in Users, r \in RoleNames : CreateUser(s, u, r) \/ UpdateUser(s, u, r)
         \/ \E u \in Users, b \in BOOLEAN : SetActive(s, u, b)
         \/ \E u \in Users, r \in RoleNames \cup {NoRole} : BeginGuarded(s, u, r)
         \/ EndGuarded(s)
  PROVE  TablesInv'
<1>1. UNCHANGED <<roles, group, config, faults>>
  BY DEF CreateUser, UpdateUser, SetActive, BeginGuarded, EndGuarded
<1>2. user \in [Users -> User \cup {NoUser}] /\ guard \in [Servers -> Guard]
  BY DEF TablesInv, TablesTyped, ReplicasTyped
<1>3. user' \in [Users -> User \cup {NoUser}]
  <2>1. CASE \E u \in Users, r \in RoleNames : CreateUser(s, u, r)
    BY <1>2, <2>1 DEF CreateUser, User
  <2>2. CASE \E u \in Users, r \in RoleNames : UpdateUser(s, u, r)
    BY <2>2, GivenTyped DEF UpdateUser
  <2>3. CASE \E u \in Users, b \in BOOLEAN : SetActive(s, u, b)
    BY <1>2, <2>3 DEF SetActive, User, Exists
  <2>4. CASE \E u \in Users, r \in RoleNames \cup {NoRole} : BeginGuarded(s, u, r)
    BY <1>2, <2>4 DEF BeginGuarded
  <2>5. CASE EndGuarded(s)
    <3>1. guard[s].role \in RoleNames \cup {NoRole}
      BY <1>2, <2>5 DEF EndGuarded, NoRequestAt, Guard
    <3>2. CASE guard[s].role = NoRole
      BY <1>2, <2>5, <3>2 DEF EndGuarded
    <3>3. CASE guard[s].role # NoRole
      BY <2>5, <3>1, <3>3, GivenTyped DEF EndGuarded
    <3> QED BY <3>2, <3>3
  <2> QED BY <2>1, <2>2, <2>3, <2>4, <2>5
<1>4. guard' \in [Servers -> Guard] /\ changes' \in Nat
  <2>1. CASE \E u \in Users, r \in RoleNames \cup {NoRole} : BeginGuarded(s, u, r)
    BY <1>2, <2>1 DEF BeginGuarded, Change, Guard, TablesInv, ReplicasTyped
  <2>2. CASE EndGuarded(s)
    BY <1>2, <2>2 DEF EndGuarded, Guard, TablesInv, ReplicasTyped
  <2>3. CASE /\ ~(\E u \in Users, r \in RoleNames \cup {NoRole} : BeginGuarded(s, u, r))
             /\ ~EndGuarded(s)
    <3>1. guard' = guard /\ Change(s)
      BY <2>3 DEF CreateUser, UpdateUser, SetActive
    <3> QED BY <1>2, <3>1 DEF Change, TablesInv, ReplicasTyped
  <2> QED BY <2>1, <2>2, <2>3
<1>5. ReplicasTyped'
  BY <1>1, <1>4 DEF TablesInv, ReplicasTyped
<1> QED BY <1>1, <1>3, <1>5, PeopleTyped

\* The requests on groups.
LEMMA GroupsTyped ==
  ASSUME TablesInv, NEW s \in Servers, NEW g \in Groups, NEW us \in SUBSET Users,
         \/ \E r \in RoleNames : CreateGroup(s, g, r, us) \/ ReplaceGroup(s, g, r, us)
         \/ PatchGroup(s, g, us) \/ DeleteGroup(s, g)
  PROVE  TablesInv'
<1>1. ReplicasTyped' /\ roles' = roles
  BY ChangeTyped DEF CreateGroup, ReplaceGroup, PatchGroup, DeleteGroup
<1>2. user \in [Users -> User \cup {NoUser}] /\ group \in [Groups -> RoleNames \cup {NoRole}]
  BY DEF TablesInv, TablesTyped
<1>3. CASE \E r \in RoleNames : CreateGroup(s, g, r, us)
  <2>1. PICK r \in RoleNames : CreateGroup(s, g, r, us)
    BY <1>3
  <2>2. user' \in [Users -> User \cup {NoUser}]
    BY <2>1, GivenTyped DEF CreateGroup
  <2> QED BY <1>1, <2>1, <2>2, PeopleTyped DEF CreateGroup
<1>4. CASE \E r \in RoleNames : ReplaceGroup(s, g, r, us)
  <2>1. PICK r \in RoleNames : ReplaceGroup(s, g, r, us)
    BY <1>4
  <2>2. user' \in [Users -> User \cup {NoUser}]
    BY <1>2, <2>1, TablesFacts DEF ReplaceGroup, User, Exists
  <2> QED BY <1>1, <2>1, <2>2, PeopleTyped DEF ReplaceGroup
<1>5. CASE PatchGroup(s, g, us)
  <2>1. group[g] \in RoleNames
    BY <1>2, <1>5 DEF PatchGroup
  <2>2. user' \in [Users -> User \cup {NoUser}]
    BY <1>2, <1>5, <2>1, GivenTyped, TablesFacts DEF PatchGroup
  <2>3. \/ group' = group
        \/ \E r \in RoleNames : roles[r] # NoRole /\ group' = [group EXCEPT ![g] = r]
    BY <1>5 DEF PatchGroup
  <2> QED BY <1>1, <2>2, <2>3, PeopleTyped
<1>6. CASE DeleteGroup(s, g)
  BY <1>1, <1>2, <1>6, PeopleTyped DEF DeleteGroup
<1> QED BY <1>3, <1>4, <1>5, <1>6

\* Every step keeps the tables.
LEMMA TablesStep ==
  ASSUME TablesInv, [AccountNext]_accountVars
  PROVE  TablesInv'
<1>1. CASE UNCHANGED accountVars
  BY <1>1 DEF accountVars, TablesInv, TablesTyped, ReplicasTyped, RolesKept
<1>2. CASE AccountNext
  <2>1. PICK s \in Servers :
          \/ Load(s) \/ Restart(s) \/ EndGuarded(s)
          \/ \E r \in RoleNames : CreateRole(s, r) \/ UpdateRole(s, r) \/ DeleteRole(s, r)
          \/ \E u \in Users, r \in RoleNames : CreateUser(s, u, r) \/ UpdateUser(s, u, r)
          \/ \E u \in Users, b \in BOOLEAN : SetActive(s, u, b)
          \/ \E u \in Users, r \in RoleNames \cup {NoRole} : BeginGuarded(s, u, r)
          \/ \E g \in Groups, r \in RoleNames, us \in SUBSET Users :
               CreateGroup(s, g, r, us) \/ ReplaceGroup(s, g, r, us)
          \/ \E g \in Groups, us \in SUBSET Users : PatchGroup(s, g, us)
          \/ \E g \in Groups : DeleteGroup(s, g)
    BY <1>2 DEF AccountNext
  <2>2. CASE Load(s)
    BY <2>2, TablesFacts DEF Load, TablesInv, TablesTyped, ReplicasTyped, RolesKept
  <2>3. CASE Restart(s)
    BY <2>3 DEF Restart, TablesInv, TablesTyped, ReplicasTyped, RolesKept, Guard
  <2>4. CASE \E g \in Groups : DeleteGroup(s, g)
    <3>1. {} \in SUBSET Users
      OBVIOUS
    <3> QED BY <2>4, <3>1, GroupsTyped
  <2> QED BY <2>1, <2>2, <2>3, <2>4, RolesTyped, UsersTyped, GroupsTyped
<1> QED BY <1>1, <1>2

\* However many replicas change users, roles and groups, the system's own roles
\* stay in the table and every group maps to a role that is there: delete_role
\* refuses a role a group has (the foreign key), and a group is only given one
\* that exists.
THEOREM AccountsTyped == AccountSpec => []AccountTypeOK
<1>1. AccountInit => TablesInv
  <2> SUFFICES ASSUME AccountInit PROVE TablesInv
    OBVIOUS
  <2>1. TablesTyped
    BY TablesFacts DEF AccountInit, TablesTyped, User, RoleNames, System
  <2>2. ReplicasTyped /\ RolesKept
    BY TablesFacts DEF AccountInit, ReplicasTyped, RolesKept, Guard
  <2> QED BY <2>1, <2>2 DEF TablesInv
<1>2. TablesInv => AccountTypeOK
  BY DEF TablesInv, TablesTyped, ReplicasTyped, RolesKept, AccountTypeOK, User
<1> QED BY <1>1, <1>2, TablesStep, PTL DEF AccountSpec

-----------------------------------------------------------------------------
(***************************************************************************)
(* API keys: a key that replaces another is made before the other ends, in *)
(* one transaction, and no row is ever deleted, so that a lineage nobody   *)
(* ended has a key that was never revoked.                                 *)
(***************************************************************************)

KeyRows == [revoked : Nat \cup {Never}, lineage : KeyIds]
Sessions == [of : Owners, expires : Nat, active : BOOLEAN]
Requests == [step : {"none"}] \cup [step : {"rotating"}, key : KeyIds]
              \cup [step : {"provisioned"}, key : Owners]

CredentialTypes ==
  /\ keyRow \in [KeyIds -> KeyRows \cup {NoKeyRow}]
  /\ ended \subseteq KeyIds
  /\ people \subseteq Owners
  /\ session \in [SessionIds -> Sessions \cup {NoSession}]
  /\ request \in [KeyServers -> Requests]
  /\ hour \in Nat

\* A lineage nobody ended has a key that was never revoked.
LineageHasFreshKey ==
  \A k \in KeyIds : HasRow(k) /\ keyRow[k].lineage \notin ended =>
    \E n \in KeyIds : /\ HasRow(n) /\ keyRow[n].revoked = Never
                      /\ keyRow[n].lineage = keyRow[k].lineage

\* The key that a replica is about to rotate is still there: no row is deleted.
RotatesWhatExists ==
  \A r \in KeyServers : request[r].step = "rotating" =>
    request[r].key \in KeyIds /\ HasRow(request[r].key)

CredentialInv == CredentialTypes /\ LineageHasFreshKey /\ RotatesWhatExists

\* A step that leaves the keys and adds no rotation.
LEMMA OtherSteps ==
  ASSUME CredentialInv, UNCHANGED <<keyRow, ended>>, CredentialTypes',
         \A r \in KeyServers : request'[r].step = "rotating" => UNCHANGED request[r]
  PROVE  CredentialInv'
<1>1. LineageHasFreshKey'
  BY DEF CredentialInv, LineageHasFreshKey, HasRow
<1>2. RotatesWhatExists'
  BY DEF CredentialInv, RotatesWhatExists, HasRow
<1> QED BY <1>1, <1>2 DEF CredentialInv

\* A free key id has no row.
LEMMA FreeKey ==
  ASSUME CredentialTypes, NEW n \in NextFree(keyRow, NoKeyRow)
  PROVE  n \in KeyIds /\ ~HasRow(n)
  BY DEF NextFree, HasRow, CredentialTypes

\* Keys are made and revoked, and a rotation reads the row.
LEMMA KeyStates ==
  ASSUME CredentialInv, NEW r \in KeyServers, NEW k \in KeyIds,
         CreateKey(r) \/ RevokeKey(r, k) \/ RotateRead(r, k)
  PROVE  CredentialInv'
<1> USE DEF HasRow, CredentialInv, CredentialTypes
<1>1. CASE CreateKey(r)
  <2>1. PICK n \in NextFree(keyRow, NoKeyRow) :
          keyRow' = [keyRow EXCEPT ![n] = [revoked |-> Never, lineage |-> n]]
    BY <1>1 DEF CreateKey
  <2> DEFINE row == [revoked |-> Never, lineage |-> n]
  <2>2. n \in KeyIds /\ keyRow[n] = NoKeyRow
    BY FreeKey
  <2>3. row \in KeyRows /\ row # NoKeyRow /\ row.revoked = Never /\ row.lineage = n
    BY <2>2, CredentialAssumption DEF KeyRows, KeyIds
  <2> HIDE DEF row
  <2>4. keyRow' = [keyRow EXCEPT ![n] = row] /\ UNCHANGED <<ended, people, session, request, hour>>
    BY <1>1, <2>1 DEF CreateKey, row
  <2>5. CredentialTypes'
    BY <2>2, <2>3, <2>4
  <2>6. LineageHasFreshKey'
    BY <2>2, <2>3, <2>4 DEF LineageHasFreshKey
  <2>7. RotatesWhatExists'
    BY <2>2, <2>3, <2>4 DEF RotatesWhatExists
  <2> QED BY <2>5, <2>6, <2>7
<1>2. CASE RevokeKey(r, k)
  <2> DEFINE row == [keyRow[k] EXCEPT !.revoked = hour]
  <2>1. keyRow[k] \in KeyRows
    BY <1>2 DEF RevokeKey
  <2>2. row \in KeyRows /\ row # NoKeyRow /\ row.lineage = keyRow[k].lineage
    BY <2>1, CredentialAssumption DEF KeyRows, KeyIds
  <2> HIDE DEF row
  <2>3. /\ keyRow' = [keyRow EXCEPT ![k] = row] /\ ended' = ended \cup {keyRow[k].lineage}
        /\ UNCHANGED <<people, session, request, hour>> /\ keyRow[k] # NoKeyRow
    BY <1>2 DEF RevokeKey, row
  <2>4. CredentialTypes'
    BY <2>1, <2>2, <2>3 DEF KeyRows
  <2>5. LineageHasFreshKey'
    <3> SUFFICES ASSUME NEW j \in KeyIds, HasRow(j)', keyRow'[j].lineage \notin ended'
                 PROVE  \E n \in KeyIds : /\ HasRow(n)' /\ keyRow'[n].revoked = Never
                                          /\ keyRow'[n].lineage = keyRow'[j].lineage
      BY DEF LineageHasFreshKey
    <3>1. j # k /\ keyRow'[j] = keyRow[j] /\ keyRow[j].lineage # keyRow[k].lineage
      BY <2>2, <2>3
    <3>2. PICK n \in KeyIds : /\ HasRow(n) /\ keyRow[n].revoked = Never
                              /\ keyRow[n].lineage = keyRow[j].lineage
      BY <2>3, <3>1 DEF LineageHasFreshKey
    <3> QED BY <2>3, <3>1, <3>2
  <2>6. RotatesWhatExists'
    BY <2>2, <2>3 DEF RotatesWhatExists
  <2> QED BY <2>4, <2>5, <2>6
<1>3. CASE RotateRead(r, k)
  <2> DEFINE q == [step |-> "rotating", key |-> k]
  <2>1. q \in Requests /\ q.key = k
    BY DEF Requests
  <2> HIDE DEF q
  <2>2. /\ request' = [request EXCEPT ![r] = q] /\ keyRow[k] # NoKeyRow
        /\ UNCHANGED <<keyRow, ended, people, session, hour>>
    BY <1>3 DEF RotateRead, q
  <2>3. CredentialTypes'
    BY <2>1, <2>2
  <2>4. LineageHasFreshKey'
    BY <2>2 DEF LineageHasFreshKey
  <2>5. RotatesWhatExists'
    BY <2>1, <2>2 DEF RotatesWhatExists
  <2> QED BY <2>3, <2>4, <2>5
<1> QED BY <1>1, <1>2, <1>3

\* Two replicas may rotate the same key: each adds a key of its lineage.
LEMMA Rotating ==
  ASSUME CredentialInv, NEW r \in KeyServers, RotateWrite(r)
  PROVE  CredentialInv'
<1> USE DEF HasRow, CredentialInv, CredentialTypes
<1> DEFINE k == request[r].key
<1>1. k \in KeyIds /\ keyRow[k] # NoKeyRow /\ keyRow[k] \in KeyRows
  BY DEF RotateWrite, RotatesWhatExists
<1>2. PICK n \in NextFree(keyRow, NoKeyRow) :
        keyRow' = [keyRow EXCEPT ![k].revoked = hour,
                                 ![n] = [revoked |-> Never, lineage |-> keyRow[k].lineage]]
  BY DEF RotateWrite, Rotated
<1> HIDE DEF k
<1> DEFINE old == [keyRow[k] EXCEPT !.revoked = hour]
           new == [revoked |-> Never, lineage |-> keyRow[k].lineage]
<1>3. n \in KeyIds /\ keyRow[n] = NoKeyRow /\ n # k
  BY <1>1, FreeKey
<1>4. /\ old \in KeyRows /\ old # NoKeyRow /\ old.lineage = keyRow[k].lineage
      /\ new \in KeyRows /\ new # NoKeyRow /\ new.lineage = keyRow[k].lineage
      /\ new.revoked = Never
  BY <1>1, CredentialAssumption DEF KeyRows, KeyIds
<1>5. keyRow' = [keyRow EXCEPT ![k] = old, ![n] = new]
  BY <1>1, <1>2, <1>3
<1> HIDE DEF old, new
<1>6. keyRow' \in [KeyIds -> KeyRows \cup {NoKeyRow}]
  BY <1>1, <1>3, <1>4, <1>5
<1>7. /\ keyRow'[n] = new /\ keyRow'[k] = old
      /\ \A j \in KeyIds : j # n /\ j # k => keyRow'[j] = keyRow[j]
  BY <1>1, <1>3, <1>5
<1>8. request' = [request EXCEPT ![r] = NoRequest] /\ UNCHANGED <<ended, people, session, hour>>
  BY DEF RotateWrite
<1>9. NoRequest \in Requests /\ NoRequest.step # "rotating"
  BY DEF NoRequest, Requests
<1>10. CredentialTypes'
  BY <1>6, <1>8, <1>9
<1>11. LineageHasFreshKey'
  <2> SUFFICES ASSUME NEW j \in KeyIds, HasRow(j)', keyRow'[j].lineage \notin ended'
               PROVE  \E m \in KeyIds : /\ HasRow(m)' /\ keyRow'[m].revoked = Never
                                        /\ keyRow'[m].lineage = keyRow'[j].lineage
    BY DEF LineageHasFreshKey
  <2>1. CASE keyRow'[j].lineage = keyRow[k].lineage
    BY <1>3, <1>4, <1>7, <2>1
  <2>2. CASE keyRow'[j].lineage # keyRow[k].lineage
    <3>1. j # n /\ j # k
      BY <1>4, <1>7, <2>2
    <3>2. PICK m \in KeyIds : /\ HasRow(m) /\ keyRow[m].revoked = Never
                              /\ keyRow[m].lineage = keyRow[j].lineage
      BY <1>7, <1>8, <3>1 DEF LineageHasFreshKey
    <3> QED BY <1>1, <1>3, <1>7, <2>2, <3>1, <3>2
  <2> QED BY <2>1, <2>2
<1>12. RotatesWhatExists'
  BY <1>1, <1>3, <1>4, <1>7, <1>8, <1>9 DEF RotatesWhatExists
<1> QED BY <1>10, <1>11, <1>12

\* Sessions, people and requests given up leave the keys alone.
LEMMA LogIns ==
  ASSUME CredentialInv, NEW r \in KeyServers,
         \/ Abandon(r) \/ CreateSession(r) \/ CleanupSessions(r)
         \/ \E p \in Owners : DeletePerson(r, p) \/ Provision(r, p)
         \/ \E s \in SessionIds : Logout(r, s)
  PROVE  CredentialInv'
<1>1. NoRequest \in Requests /\ NoRequest.step # "rotating"
  BY DEF NoRequest, Requests
<1> USE DEF CredentialInv, CredentialTypes
<1>2. CASE Abandon(r)
  BY <1>1, <1>2, OtherSteps DEF Abandon
<1>3. CASE CreateSession(r)
  <2>1. request[r] \in Requests /\ request[r].step = "provisioned"
    BY <1>3 DEF CreateSession
  <2>2. request[r].key \in Owners
    BY <2>1 DEF Requests
  <2>3. session' \in [SessionIds -> Sessions \cup {NoSession}]
    <3>1. ASSUME NEW i \in NextFree(session, NoSession),
                 session' = [session EXCEPT ![i] = [of |-> request[r].key,
                               expires |-> hour + Lifetime, active |-> TRUE]]
          PROVE  session' \in [SessionIds -> Sessions \cup {NoSession}]
      <4>1. [of |-> request[r].key, expires |-> hour + Lifetime, active |-> TRUE] \in Sessions
        BY <2>2, CredentialAssumption DEF Sessions
      <4> QED BY <3>1, <4>1 DEF NextFree
    <3> QED BY <1>3, <3>1 DEF CreateSession
  <2> QED BY <1>1, <1>3, <2>3, OtherSteps DEF CreateSession
<1>4. CASE CleanupSessions(r)
  BY <1>4, OtherSteps DEF CleanupSessions
<1>5. ASSUME NEW p \in Owners, DeletePerson(r, p) PROVE CredentialInv'
  BY <1>5, OtherSteps DEF DeletePerson, WithoutUser
<1>6. ASSUME NEW p \in Owners, Provision(r, p) PROVE CredentialInv'
  <2> DEFINE q == [step |-> "provisioned", key |-> p]
  <2>1. q \in Requests /\ q.step # "rotating"
    BY DEF Requests
  <2> HIDE DEF q
  <2> QED BY <1>6, <2>1, OtherSteps DEF Provision, q
<1>7. ASSUME NEW s \in SessionIds, Logout(r, s) PROVE CredentialInv'
  <2>1. [session[s] EXCEPT !.active = FALSE] \in Sessions
    BY <1>7 DEF Logout, Live, Sessions
  <2>2. session' = [session EXCEPT ![s] = [session[s] EXCEPT !.active = FALSE]]
    BY <1>7 DEF Logout
  <2>3. session' \in [SessionIds -> Sessions \cup {NoSession}]
    BY <2>1, <2>2
  <2> QED BY <1>7, <2>3, OtherSteps DEF Logout
<1> QED BY <1>2, <1>3, <1>4, <1>5, <1>6, <1>7

\* The invariant holds.
LEMMA CredentialInvHolds == CredentialSpec => []CredentialInv
<1>1. CredentialInit => CredentialInv
  BY DEF CredentialInit, CredentialInv, CredentialTypes, LineageHasFreshKey, HasRow,
         RotatesWhatExists, NoRequest, Requests
<1>2. CredentialInv /\ [CredentialNext]_credentialVars => CredentialInv'
  <2> SUFFICES ASSUME CredentialInv, [CredentialNext]_credentialVars PROVE CredentialInv'
    OBVIOUS
  <2>1. CASE HourPasses
    BY <2>1, OtherSteps DEF HourPasses, CredentialInv, CredentialTypes
  <2>2. ASSUME NEW r \in KeyServers, NEW k \in KeyIds, RevokeKey(r, k) \/ RotateRead(r, k)
        PROVE  CredentialInv'
    BY <2>2, KeyStates
  <2>3. ASSUME NEW r \in KeyServers, CreateKey(r) PROVE CredentialInv'
    <3>1. PICK k \in KeyIds : TRUE
      BY <2>3 DEF CreateKey, NextFree, CredentialInv, CredentialTypes
    <3> QED BY <2>3, <3>1, KeyStates
  <2>4. ASSUME NEW r \in KeyServers, RotateWrite(r) PROVE CredentialInv'
    BY <2>4, Rotating
  <2>5. ASSUME NEW r \in KeyServers,
               \/ Abandon(r) \/ CreateSession(r) \/ CleanupSessions(r)
               \/ \E p \in Owners : DeletePerson(r, p) \/ Provision(r, p)
               \/ \E s \in SessionIds : Logout(r, s)
        PROVE  CredentialInv'
    BY <2>5, LogIns
  <2>6. CASE UNCHANGED credentialVars
    BY <2>6, OtherSteps DEF credentialVars, CredentialInv, CredentialTypes
  <2> QED BY <2>1, <2>2, <2>3, <2>4, <2>5, <2>6 DEF CredentialNext
<1> QED BY <1>1, <1>2, PTL DEF CredentialSpec

\* For any replicas, owners and lifetimes: a key that exists has a lineage that is a key,
\* a session is of an owner, and revocations lie at hours that have been (auth.py,
\* saml_auth.py).
THEOREM CredentialsTyped == CredentialSpec => []CredentialTypeOK
<1>1. CredentialInv => CredentialTypeOK
  BY DEF CredentialInv, CredentialTypes, CredentialTypeOK, KeyRows, Sessions
<1> QED BY <1>1, CredentialInvHolds, PTL

\* For any number of replicas that rotate, revoke and fail half way: every lineage that
\* nobody ended has a key that is accepted (rotate_api_key revokes the old key and makes
\* the new one in one transaction).
THEOREM LineageHasKeyHolds == CredentialSpec => []LineageHasKey
<1>1. CredentialInv => LineageHasKey
  BY DEF CredentialInv, LineageHasFreshKey, LineageHasKey, KeyAccepted
<1> QED BY <1>1, CredentialInvHolds, PTL

-----------------------------------------------------------------------------
(***************************************************************************)
(* The rate limit: a client that sleeps as long as Retry-After asks for    *)
(* wakes up in a later window, whatever half of a second it was refused    *)
(* in.                                                                     *)
(***************************************************************************)

\* Division of a multiple of a window.
LEMMA DivOfMultiple ==
  ASSUME NEW n \in Nat, NEW d \in Nat \ {0}
  PROVE  (n * d) \div d = n
  BY SMT

\* The window of a second: its number and its bounds.
LEMMA WindowBounds ==
  ASSUME NEW t \in Nat
  PROVE  /\ Second(t) \in Nat /\ WindowOf(t) \in Nat
         /\ WindowOf(t) * Window <= Second(t) /\ Second(t) < ResetAt(t)
  BY RateLimitAssumption DEF Second, WindowOf, ResetAt

\* The sleep that Retry-After asks for ends in the window after the refusal.
LEMMA SleepReachesReset ==
  ASSUME NEW t \in Nat
  PROVE  Delay(t) \in Nat /\ WindowOf(t + Delay(t)) = WindowOf(t) + 1
<1> DEFINE q == WindowOf(t)
           s == Second(t)
<1>1. q \in Nat /\ s \in Nat /\ q * Window <= s /\ s < (q + 1) * Window
  BY WindowBounds DEF ResetAt
<1>2. (q + 1) * Window = q * Window + Window
  BY <1>1, RateLimitAssumption
<1>3. RetryAfter(t) = (q + 1) * Window - s /\ RetryAfter(t) \in Nat /\ RetryAfter(t) <= Window
  BY <1>1, <1>2, RateLimitAssumption DEF RetryAfter, ResetAt
<1>4. Delay(t) = 2 * RetryAfter(t) /\ Delay(t) \in Nat
  BY <1>3, RateLimitAssumption DEF Delay
<1>5. Second(t + Delay(t)) = (q + 1) * Window
  <2>1. Second(t + Delay(t)) = s + RetryAfter(t)
    BY <1>3, <1>4 DEF Second
  <2> QED BY <2>1, <1>1, <1>2, <1>3, RateLimitAssumption
<1>6. WindowOf(t + Delay(t)) = q + 1
  BY <1>1, <1>5, DivOfMultiple, RateLimitAssumption DEF WindowOf
<1> QED BY <1>4, <1>6

\* A quotient is the largest number whose multiple fits.
LEMMA DivIsLargest ==
  ASSUME NEW a \in Nat, NEW b \in Nat \ {0}, NEW c \in Nat, a * b <= c
  PROVE  a <= c \div b
<1>1. c \div b \in Nat /\ c < (c \div b + 1) * b
  BY SMT
<1>2. SUFFICES ASSUME a >= c \div b + 1 PROVE FALSE
  BY <1>1
<1>3. a * b >= (c \div b + 1) * b
  BY <1>1, <1>2, SMT
<1> QED BY <1>1, <1>3

\* Every moment of a run is in a window that is counted.
LEMMA WindowCounted ==
  ASSUME NEW t \in 0 .. MaxHalves
  PROVE  WindowOf(t) \in Windows
<1>1. /\ WindowOf(t) \in Nat /\ Second(t) \in Nat /\ 2 * Second(t) <= MaxHalves
      /\ WindowOf(t) * Window <= Second(t)
  BY WindowBounds, RateLimitAssumption DEF Second
<1>2. WindowOf(t) * (2 * Window) <= MaxHalves
  BY <1>1, RateLimitAssumption
<1>3. WindowOf(t) <= MaxHalves \div (2 * Window)
  BY <1>1, <1>2, DivIsLargest, RateLimitAssumption
<1> QED BY <1>1, <1>3, RateLimitAssumption DEF Windows

\* What a caller may be doing.
CallStates == [at : {"idle", "asleep"}, attempts : 0 .. MaxRetries, wake : Nat,
          refused : Nat \cup {-1}]

RateInv ==
  /\ now \in 0 .. MaxHalves
  /\ counts \in [ApiClients -> [Windows -> 0 .. Limit]]
  /\ calls \in [ApiClients -> CallStates]
  /\ RetryMeetsFreshWindow

\* Old counters are dropped, the others stay.
LEMMA PurgedTyped ==
  ASSUME RateInv, NEW w \in Nat
  PROVE  Purged(counts, w) \in [ApiClients -> [Windows -> 0 .. Limit]]
  BY RateLimitAssumption DEF Purged, RateInv

\* A request is counted or refused in the window of its second.
LEMMA CheckKeeps ==
  ASSUME RateInv, NEW c \in ApiClients, NEW retries \in BOOLEAN, Check(c, retries), now' = now
  PROVE  RateInv'
<1> DEFINE w == WindowOf(now)
           pruned == Purged(counts, w)
<1>1. now \in Nat /\ now \in 0 .. MaxHalves /\ w \in Nat /\ w \in Windows
  BY WindowCounted, WindowBounds, RateLimitAssumption DEF RateInv
<1>2. pruned \in [ApiClients -> [Windows -> 0 .. Limit]]
  BY <1>1, PurgedTyped
<1>3. Delay(now) \in Nat /\ WindowOf(now + Delay(now)) > w
  BY <1>1, SleepReachesReset
<1>4. calls[c] \in CallStates /\ NoCall \in CallStates
  BY RateLimitAssumption DEF RateInv, CallStates, NoCall
<1>5. CASE pruned[c][w] >= Limit /\ retries /\ calls[c].attempts < MaxRetries
  <2> DEFINE asleep == [at |-> "asleep", attempts |-> calls[c].attempts + 1,
                        wake |-> now + Delay(now), refused |-> w]
  <2>1. asleep \in CallStates
    BY <1>1, <1>3, <1>4, <1>5, RateLimitAssumption DEF CallStates
  <2>2. counts' = pruned /\ calls' = [calls EXCEPT ![c] = asleep]
    BY <1>5 DEF Check
  <2>3. WindowOf(asleep.wake) > asleep.refused
    BY <1>3
  <2> HIDE DEF pruned, asleep
  <2> QED BY <1>1, <1>2, <2>1, <2>2, <2>3 DEF RateInv, RetryMeetsFreshWindow
<1>6. CASE pruned[c][w] >= Limit /\ ~(retries /\ calls[c].attempts < MaxRetries)
  <2>1. counts' = pruned /\ calls' = [calls EXCEPT ![c] = NoCall]
    BY <1>6 DEF Check
  <2> HIDE DEF pruned
  <2> QED BY <1>1, <1>2, <1>4, <2>1 DEF RateInv, RetryMeetsFreshWindow, NoCall
<1>7. CASE ~(pruned[c][w] >= Limit)
  <2>1. counts' = [pruned EXCEPT ![c][w] = @ + 1] /\ calls' = [calls EXCEPT ![c] = NoCall]
    BY <1>7 DEF Check
  <2> HIDE DEF pruned, w
  <2>2. counts' \in [ApiClients -> [Windows -> 0 .. Limit]]
    BY <1>1, <1>2, <1>7, <2>1, RateLimitAssumption
  <2> QED BY <1>1, <1>4, <2>1, <2>2 DEF RateInv, RetryMeetsFreshWindow, NoCall
<1> QED BY <1>5, <1>6, <1>7

\* The invariant holds.
LEMMA RateInvHolds == RateSpec => []RateInv
<1>1. RateInit => RateInv
  BY RateLimitAssumption
     DEF RateInit, RateInv, CallStates, NoCall, RetryMeetsFreshWindow
<1>2. RateInv /\ [RateNext]_rateVars => RateInv'
  <2> SUFFICES ASSUME RateInv, [RateNext]_rateVars PROVE RateInv'
    OBVIOUS
  <2>1. CASE HalfSecond
    BY <2>1, RateLimitAssumption DEF HalfSecond, RateInv, RetryMeetsFreshWindow
  <2>2. ASSUME NEW c \in ApiClients, Request(c) PROVE RateInv'
    BY <2>2, CheckKeeps DEF Request
  <2>3. ASSUME NEW c \in ApiClients, Retry(c) PROVE RateInv'
    BY <2>3, CheckKeeps DEF Retry
  <2>4. CASE UNCHANGED rateVars
    BY <2>4 DEF rateVars, RateInv, RetryMeetsFreshWindow
  <2> QED BY <2>1, <2>2, <2>3, <2>4 DEF RateNext
<1> QED BY <1>1, <1>2, PTL DEF RateSpec

\* The variables of the limiter have their types: no window of a caller counts more
\* requests than the limit.
THEOREM RateTyped == RateSpec => []RateTypeOK
<1>1. RateInv => RateTypeOK
  BY DEF RateInv, RateTypeOK, CallStates
<1> QED BY <1>1, RateInvHolds, PTL

\* For any limit, window and number of retries, as long as the client may sleep for a
\* whole window: who was refused asks again in a later window.
THEOREM RetryMeetsFreshWindowHolds == RateSpec => []RetryMeetsFreshWindow
<1>1. RateInv => RetryMeetsFreshWindow
  BY DEF RateInv
<1> QED BY <1>1, RateInvHolds, PTL

-----------------------------------------------------------------------------
(***************************************************************************)
(* The lease of the scheduler, with a pool that keeps every connection     *)
(* that comes back: the replica that runs the scheduler has the advisory   *)
(* lock, for any number of replicas, so there is at most one. With the     *)
(* pool of the code, which keeps one connection, neither holds; a run      *)
(* shows how.                                                              *)
(***************************************************************************)

\* No connection that comes back is closed.
KeepsAll == Capacity <= MinConn

AllConns == Replicas \X (1..Capacity)

LeaseTypes ==
  /\ idle \in [Replicas -> SUBSET AllConns]
  /\ busy \in [Replicas -> SUBSET AllConns]
  /\ lent \in [Replicas -> AllConns \cup {NoConn}]
  /\ task \in [Replicas -> Steps]
  /\ got \in [Replicas -> BOOLEAN] /\ held \in [Replicas -> BOOLEAN]

\* A connection of a replica is in one place.
Placed(r) ==
  /\ OpenConns(r) \subseteq Conns(r)
  /\ idle[r] \cap busy[r] = {} /\ lent[r] \notin idle[r] \cup busy[r]

\* A thread that was told it has the lock, and a task that believes it, are right.
Right(r) ==
  /\ got[r] => lent[r] # NoConn /\ task[r] \in {"trying", "stopping"}
  /\ task[r] \in {"off", "trying", "closed"} => ~held[r]
  /\ task[r] \in {"trying", "releasing"} <=> lent[r] # NoConn /\ task[r] # "stopping"
  /\ Leads(r) \/ (got[r] /\ task[r] = "trying") => advisory.session \in OpenConns(r)

AllPlaced == \A r \in Replicas : Placed(r)
Believers == \A r \in Replicas : Right(r)

LeaseInv == LeaseTypes /\ AllPlaced /\ Believers

\* The connections of a replica are Capacity many.
LEMMA ConnsFinite ==
  ASSUME NEW r
  PROVE  IsFiniteSet(Conns(r)) /\ Cardinality(Conns(r)) = Capacity
<1>1. IsFiniteSet(1..Capacity) /\ Cardinality(1..Capacity) = Capacity
  BY FS_Interval, LeaseAssumption
<1>2. IsFiniteSet({r}) /\ Cardinality({r}) = 1
  BY FS_Singleton
<1>3. /\ IsFiniteSet({r} \X (1..Capacity))
      /\ Cardinality({r} \X (1..Capacity)) = Cardinality({r}) * Cardinality(1..Capacity)
  BY <1>1, <1>2, FS_Product
<1> QED BY <1>1, <1>2, <1>3, LeaseAssumption DEF Conns

\* What the pool hands out is a connection of the replica that nobody uses.
LEMMA AvailableIsFree ==
  ASSUME LeaseTypes, AllPlaced, NEW r \in Replicas, NEW c \in Available(r)
  PROVE  c \in Conns(r) /\ c \in AllConns /\ c \notin busy[r] /\ c # lent[r] /\ c # NoConn
<1>1. CASE c \in idle[r]
  BY <1>1, LeaseAssumption DEF LeaseTypes, AllPlaced, Placed, OpenConns, Conns, AllConns
<1>2. CASE Cardinality(OpenConns(r)) < Capacity /\ c = CHOOSE d \in Conns(r) : d \notin OpenConns(r)
  <2>1. \E d \in Conns(r) : d \notin OpenConns(r)
    <3> SUFFICES ASSUME Conns(r) \subseteq OpenConns(r) PROVE FALSE
      OBVIOUS
    <3>1. OpenConns(r) = Conns(r)
      BY DEF AllPlaced, Placed
    <3> QED BY <1>2, <3>1, ConnsFinite, LeaseAssumption
  <2> QED BY <1>2, <2>1, LeaseAssumption DEF OpenConns, Conns, AllConns
<1> QED BY <1>1, <1>2 DEF Available

\* A connection that comes back is kept, and no lock is lost.
LEMMA BackIsKept ==
  ASSUME KeepsAll, AllPlaced, NEW r \in Replicas, NEW c \in Conns(r), c \notin idle[r]
  PROVE  PutBack(r, c) = idle[r] \cup {c} /\ AfterPut(r, c) = advisory
<1>1. idle[r] \subseteq Conns(r) /\ idle[r] \cup {c} \subseteq Conns(r)
  BY DEF AllPlaced, Placed, OpenConns
<1>2. IsFiniteSet(idle[r]) /\ Cardinality(idle[r]) \in Nat
  BY <1>1, ConnsFinite, FS_Subset, FS_CardinalityType
<1>3. Cardinality(idle[r] \cup {c}) = Cardinality(idle[r]) + 1
  BY <1>2, FS_AddElement
<1>4. Cardinality(idle[r] \cup {c}) <= Capacity
  BY <1>1, ConnsFinite, FS_Subset
<1>5. Cardinality(idle[r]) < MinConn
  BY <1>2, <1>3, <1>4, LeaseAssumption DEF KeepsAll
<1> QED BY <1>5 DEF PutBack, AfterPut, Kept

\* A step of one replica need not be looked at for the others, unless it takes
\* away the advisory lock of one of theirs.
LEMMA OnlyOne ==
  ASSUME LeaseInv, NEW r \in Replicas, LeaseTypes', Placed(r)', Right(r)',
         \A s \in Replicas \ {r} :
           /\ idle'[s] = idle[s] /\ busy'[s] = busy[s] /\ lent'[s] = lent[s]
           /\ task'[s] = task[s] /\ got'[s] = got[s] /\ held'[s] = held[s],
         advisory'.session = advisory.session \/ advisory.session \in Conns(r) \cup {NoConn}
  PROVE  LeaseInv'
<1>1. ASSUME NEW s \in Replicas, s # r
      PROVE  Placed(s)' /\ Right(s)'
  <2>1. OpenConns(s)' = OpenConns(s) /\ Leads(s)' = Leads(s)
    BY <1>1 DEF OpenConns, Leads
  <2>2. advisory.session \in OpenConns(s) => advisory'.session = advisory.session
    <3>1. OpenConns(s) \subseteq Conns(s) /\ NoConn \notin Conns(s)
      BY LeaseAssumption DEF LeaseInv, AllPlaced, Placed, Conns
    <3>2. Conns(s) \cap Conns(r) = {}
      BY <1>1 DEF Conns
    <3> QED BY <3>1, <3>2
  <2> QED BY <1>1, <2>1, <2>2 DEF LeaseInv, AllPlaced, Believers, Placed, Right
<1> QED BY <1>1 DEF LeaseInv, AllPlaced, Believers

\* Another request of the replica takes a connection, or brings it back.
LEMMA RequestInv ==
  ASSUME KeepsAll, LeaseInv, NEW r \in Replicas, Borrow(r) \/ GiveBack(r)
  PROVE  LeaseInv'
<1>1. UNCHANGED <<task, lent, got, held>>
  BY DEF Borrow, GiveBack
<1>2. CASE Borrow(r)
  <2>1. PICK c \in Available(r) : /\ idle' = [idle EXCEPT ![r] = @ \ {c}]
                                  /\ busy' = [busy EXCEPT ![r] = @ \cup {c}]
                                  /\ advisory' = advisory
    BY <1>2 DEF Borrow
  <2>2. c \in Conns(r) /\ c \in AllConns /\ c \notin busy[r] /\ c # lent[r]
    BY <2>1, AvailableIsFree DEF LeaseInv
  <2>3. LeaseTypes'
    BY <1>1, <2>1, <2>2 DEF LeaseInv, LeaseTypes
  <2>4. idle'[r] = idle[r] \ {c} /\ busy'[r] = busy[r] \cup {c}
    BY <2>1 DEF LeaseInv, LeaseTypes
  <2>5. OpenConns(r)' = OpenConns(r) \cup {c}
    BY <1>1, <2>4 DEF OpenConns
  <2>6. Placed(r)' /\ Right(r)'
    BY <1>1, <2>1, <2>2, <2>4, <2>5 DEF LeaseInv, AllPlaced, Placed, Believers, Right, Leads
  <2> QED BY <1>1, <2>1, <2>3, <2>6, OnlyOne DEF LeaseInv, LeaseTypes
<1>3. CASE GiveBack(r)
  <2>1. PICK c \in busy[r] : /\ busy' = [busy EXCEPT ![r] = @ \ {c}]
                             /\ idle' = [idle EXCEPT ![r] = PutBack(r, c)]
                             /\ advisory' = AfterPut(r, c)
    BY <1>3 DEF GiveBack
  <2>2. c \in Conns(r) /\ c \in AllConns /\ c \notin idle[r] /\ c # lent[r]
    BY <2>1 DEF LeaseInv, LeaseTypes, AllPlaced, Placed, OpenConns
  <2>3. PutBack(r, c) = idle[r] \cup {c} /\ advisory' = advisory
    BY <2>1, <2>2, BackIsKept DEF LeaseInv
  <2>4. LeaseTypes'
    BY <1>1, <2>1, <2>2, <2>3 DEF LeaseInv, LeaseTypes
  <2>5. idle'[r] = idle[r] \cup {c} /\ busy'[r] = busy[r] \ {c}
    BY <2>1, <2>3 DEF LeaseInv, LeaseTypes
  <2>6. OpenConns(r)' = OpenConns(r)
    BY <1>1, <2>1, <2>5 DEF OpenConns
  <2>7. Placed(r)' /\ Right(r)'
    BY <1>1, <2>2, <2>3, <2>5, <2>6 DEF LeaseInv, AllPlaced, Placed, Believers, Right, Leads
  <2> QED BY <1>1, <2>1, <2>3, <2>4, <2>7, OnlyOne DEF LeaseInv, LeaseTypes
<1> QED BY <1>2, <1>3
\* The SELECT of an acquisition: the lock is nobody's, or this replica's already.
LEMMA TryInv ==
  ASSUME LeaseInv, NEW r \in Replicas, TryLock(r)
  PROVE  LeaseInv'
<1>1. PICK c \in Available(r) :
        /\ idle' = [idle EXCEPT ![r] = @ \ {c}] /\ lent' = [lent EXCEPT ![r] = c]
        /\ got' = [got EXCEPT ![r] = advisory.session \in {NoConn, c}]
        /\ advisory' = IF advisory.session \in {NoConn, c}
                       THEN [session |-> c, depth |-> advisory.depth + 1] ELSE advisory
  BY DEF TryLock
<1>2. c \in Conns(r) /\ c \in AllConns /\ c \notin busy[r] /\ c # NoConn
  BY <1>1, AvailableIsFree DEF LeaseInv
<1>3. /\ task[r] = "loop" /\ ~held[r] /\ task' = [task EXCEPT ![r] = "trying"]
      /\ UNCHANGED <<busy, held>>
  BY DEF TryLock
<1>4. LeaseTypes'
  BY <1>1, <1>2, <1>3 DEF LeaseInv, LeaseTypes, Steps
<1>5. /\ idle'[r] = idle[r] \ {c} /\ busy'[r] = busy[r] /\ lent'[r] = c
      /\ got'[r] = (advisory.session \in {NoConn, c})
      /\ task'[r] = "trying" /\ ~held'[r]
  BY <1>1, <1>3 DEF LeaseInv, LeaseTypes
<1>6. lent[r] = NoConn
  BY <1>3 DEF LeaseInv, Believers, Right
<1>7. OpenConns(r)' = OpenConns(r) \cup {c}
  BY <1>2, <1>5, <1>6 DEF OpenConns
<1>8. Placed(r)'
  BY <1>2, <1>5, <1>7 DEF LeaseInv, AllPlaced, Placed
<1>9. Right(r)'
  BY <1>1, <1>2, <1>5, <1>7 DEF Right, Leads
<1>10. advisory'.session = advisory.session \/ advisory.session \in Conns(r) \cup {NoConn}
  BY <1>1, <1>2
<1> QED BY <1>1, <1>3, <1>4, <1>8, <1>9, <1>10, OnlyOne DEF LeaseInv, LeaseTypes

\* A thread of the scheduler returns its connection: what it was told still holds.
LEMMA ReturnInv ==
  ASSUME KeepsAll, LeaseInv, NEW r \in Replicas,
         EndTry(r) \/ EndCancelledTry(r) \/ EndUnlock(r)
  PROVE  LeaseInv'
<1>1. PutLent(r) /\ lent[r] # NoConn /\ UNCHANGED busy
  BY DEF EndTry, EndCancelledTry, EndUnlock, LeaseInv, Believers, Right
<1>2. lent[r] \in Conns(r) /\ lent[r] \in AllConns /\ lent[r] \notin idle[r] \cup busy[r]
  BY <1>1 DEF LeaseInv, LeaseTypes, AllPlaced, Placed, OpenConns
<1>3. PutBack(r, lent[r]) = idle[r] \cup {lent[r]} /\ advisory' = advisory
  BY <1>1, <1>2, BackIsKept DEF LeaseInv, PutLent
<1>4. idle' = [idle EXCEPT ![r] = @ \cup {lent[r]}] /\ lent' = [lent EXCEPT ![r] = NoConn]
  BY <1>1, <1>3 DEF PutLent
<1>5. idle'[r] = idle[r] \cup {lent[r]} /\ lent'[r] = NoConn /\ busy'[r] = busy[r]
  BY <1>1, <1>4 DEF LeaseInv, LeaseTypes
<1>6. OpenConns(r)' = OpenConns(r)
  BY <1>1, <1>5 DEF OpenConns
<1>7. Placed(r)'
  <2>1. NoConn \notin AllConns /\ idle[r] \cup busy[r] \subseteq AllConns
    BY LeaseAssumption DEF LeaseInv, LeaseTypes, AllConns
  <2> QED BY <1>2, <1>5, <1>6, <2>1 DEF LeaseInv, AllPlaced, Placed
<1>8. /\ idle' \in [Replicas -> SUBSET AllConns] /\ lent' \in [Replicas -> AllConns \cup {NoConn}]
  BY <1>2, <1>4 DEF LeaseInv, LeaseTypes
<1>9. CASE EndTry(r)
  <2>1. /\ task[r] = "trying" /\ task' = [task EXCEPT ![r] = "loop"]
        /\ held' = [held EXCEPT ![r] = got[r]] /\ got' = [got EXCEPT ![r] = FALSE]
    BY <1>9 DEF EndTry, Believe
  <2>2. LeaseTypes'
    BY <1>1, <1>8, <2>1 DEF LeaseInv, LeaseTypes, Steps
  <2>3. task'[r] = "loop" /\ held'[r] = got[r] /\ ~got'[r]
    BY <2>1 DEF LeaseInv, LeaseTypes
  <2>4. Right(r)'
    BY <1>3, <1>5, <1>6, <2>1, <2>3 DEF LeaseInv, Believers, Right, Leads
  <2> QED BY <1>1, <1>3, <1>4, <1>7, <2>1, <2>2, <2>4, OnlyOne DEF LeaseInv, LeaseTypes
<1>10. CASE EndCancelledTry(r)
  <2>1. task[r] = "stopping" /\ UNCHANGED <<task, held>> /\ got' = [got EXCEPT ![r] = FALSE]
    BY <1>10 DEF EndCancelledTry
  <2>2. LeaseTypes'
    BY <1>1, <1>8, <2>1 DEF LeaseInv, LeaseTypes
  <2>3. ~got'[r]
    BY <2>1 DEF LeaseInv, LeaseTypes
  <2>4. Right(r)'
    BY <1>5, <2>1, <2>3 DEF Right, Leads
  <2> QED BY <1>1, <1>3, <1>4, <1>7, <2>1, <2>2, <2>4, OnlyOne DEF LeaseInv, LeaseTypes
<1>11. CASE EndUnlock(r)
  <2>1. /\ task[r] = "releasing" /\ task' = [task EXCEPT ![r] = "stopping"]
        /\ held' = [held EXCEPT ![r] = FALSE] /\ got' = got
    BY <1>11 DEF EndUnlock
  <2>2. LeaseTypes'
    BY <1>1, <1>8, <2>1 DEF LeaseInv, LeaseTypes, Steps
  <2>3. task'[r] = "stopping" /\ ~held'[r] /\ ~got'[r]
    BY <2>1 DEF LeaseInv, LeaseTypes, Believers, Right
  <2>4. Right(r)'
    BY <1>5, <2>1, <2>3 DEF Right, Leads
  <2> QED BY <1>1, <1>3, <1>4, <1>7, <2>1, <2>2, <2>4, OnlyOne DEF LeaseInv, LeaseTypes
<1> QED BY <1>9, <1>10, <1>11

\* A release: the task that believed it had the lock is past that.
LEMMA UnlockInv ==
  ASSUME LeaseInv, NEW r \in Replicas, Unlock(r)
  PROVE  LeaseInv'
<1>1. PICK c \in Available(r) :
        /\ idle' = [idle EXCEPT ![r] = @ \ {c}] /\ lent' = [lent EXCEPT ![r] = c]
        /\ advisory' = IF advisory.session # c THEN advisory
                       ELSE IF advisory.depth = 1 THEN Free
                       ELSE [advisory EXCEPT !.depth = @ - 1]
  BY DEF Unlock
<1>2. c \in Conns(r) /\ c \in AllConns /\ c \notin busy[r] /\ c # NoConn
  BY <1>1, AvailableIsFree DEF LeaseInv
<1>3. /\ task[r] = "stopping" /\ lent[r] = NoConn /\ task' = [task EXCEPT ![r] = "releasing"]
      /\ UNCHANGED <<busy, held, got>>
  BY DEF Unlock
<1>4. LeaseTypes'
  BY <1>1, <1>2, <1>3 DEF LeaseInv, LeaseTypes, Steps
<1>5. /\ idle'[r] = idle[r] \ {c} /\ busy'[r] = busy[r] /\ lent'[r] = c
      /\ ~got'[r] /\ task'[r] = "releasing"
  BY <1>1, <1>3 DEF LeaseInv, LeaseTypes, Believers, Right
<1>6. OpenConns(r)' = OpenConns(r) \cup {c}
  BY <1>2, <1>3, <1>5 DEF OpenConns
<1>7. Placed(r)'
  BY <1>2, <1>5, <1>6 DEF LeaseInv, AllPlaced, Placed
<1>8. Right(r)'
  BY <1>2, <1>5 DEF Right, Leads
<1>9. advisory'.session = advisory.session \/ advisory.session \in Conns(r) \cup {NoConn}
  BY <1>1, <1>2
<1> QED BY <1>1, <1>3, <1>4, <1>7, <1>8, <1>9, OnlyOne DEF LeaseInv, LeaseTypes

\* The pool is closed or the process dies: its sessions end, and its belief.
LEMMA EndInv ==
  ASSUME LeaseInv, NEW r \in Replicas, ClosePool(r) \/ Kill(r)
  PROVE  LeaseInv'
<1>1. PICK s \in {"closed", "off"} :
        /\ task' = [task EXCEPT ![r] = s]
        /\ advisory' = Without(Conns(r))
        /\ idle' = [idle EXCEPT ![r] = {}] /\ busy' = [busy EXCEPT ![r] = {}]
        /\ lent' = [lent EXCEPT ![r] = NoConn]
        /\ got' = [got EXCEPT ![r] = FALSE] /\ held' = [held EXCEPT ![r] = FALSE]
  BY DEF ClosePool, Kill
<1>2. LeaseTypes'
  BY <1>1 DEF LeaseInv, LeaseTypes, Steps
<1>3. /\ idle'[r] = {} /\ busy'[r] = {} /\ lent'[r] = NoConn /\ ~got'[r] /\ ~held'[r]
      /\ task'[r] = s
  BY <1>1 DEF LeaseInv, LeaseTypes
<1>4. Placed(r)' /\ Right(r)'
  BY <1>3 DEF Placed, Right, Leads, OpenConns
<1>5. advisory'.session = advisory.session \/ advisory.session \in Conns(r) \cup {NoConn}
  BY <1>1 DEF Without
<1> QED BY <1>1, <1>2, <1>4, <1>5, OnlyOne DEF LeaseInv, LeaseTypes

\* The task goes from one of its steps to another.
LEMMA MoveInv ==
  ASSUME LeaseInv, NEW r \in Replicas,
         \/ StartReplica(r) \/ StopReplica(r) \/ ScanRound(r) \/ EndRound(r)
         \/ EndThread(r) \/ Exit(r)
  PROVE  LeaseInv'
<1>1. UNCHANGED <<idle, busy, advisory, lent, got, held>>
  BY DEF StartReplica, StopReplica, ScanRound, EndRound, EndThread, Exit
<1>2. CASE EndThread(r)
  BY <1>1, <1>2 DEF EndThread, LeaseInv, LeaseTypes, AllPlaced, Believers, Placed, Right,
                    OpenConns, Leads
<1>3. CASE ~EndThread(r)
  <2>1. PICK s \in Steps : /\ task' = [task EXCEPT ![r] = s]
                           /\ \/ task[r] = "off" /\ s = "loop"
                              \/ task[r] \in {"loop", "trying", "scan"} /\ s = "stopping"
                              \/ task[r] \in {"loop", "scan"} /\ s \in {"loop", "scan"}
                              \/ task[r] = "closed" /\ s = "off"
    BY <1>3 DEF StartReplica, StopReplica, ScanRound, EndRound, Exit, Steps
  <2>2. LeaseTypes' /\ task'[r] = s
    BY <1>1, <2>1 DEF LeaseInv, LeaseTypes
  <2>3. task[r] = "off" => ~held[r]
    BY DEF LeaseInv, Believers, Right
  <2>4. OpenConns(r)' = OpenConns(r) /\ Placed(r)'
    BY <1>1 DEF LeaseInv, AllPlaced, Placed, OpenConns
  <2>5. Right(r)'
    BY <1>1, <2>1, <2>2, <2>3, <2>4 DEF LeaseInv, Believers, Right, Leads
  <2> QED BY <1>1, <2>1, <2>2, <2>4, <2>5, OnlyOne DEF LeaseInv, LeaseTypes
<1> QED BY <1>2, <1>3

\* No replica runs at the start.
LEMMA LeaseInitInv == LeaseInit => LeaseInv
<1> SUFFICES ASSUME LeaseInit PROVE LeaseInv
  OBVIOUS
<1>1. LeaseTypes
  BY DEF LeaseInit, LeaseTypes, Steps
<1>2. AllPlaced /\ Believers
  BY DEF LeaseInit, AllPlaced, Placed, Believers, Right, OpenConns, Leads
<1> QED BY <1>1, <1>2 DEF LeaseInv

\* Connections are in one place, and what a thread or a task was told of the lock
\* is so.
THEOREM LeaseInvHolds == ASSUME KeepsAll PROVE LeaseSpec => []LeaseInv
<1>1. LeaseInv /\ [LeaseNext]_leaseVars => LeaseInv'
  <2> SUFFICES ASSUME LeaseInv, [LeaseNext]_leaseVars PROVE LeaseInv'
    OBVIOUS
  <2>1. ASSUME NEW r \in Replicas, LeaseStep(r) PROVE LeaseInv'
    BY <2>1, RequestInv, TryInv, ReturnInv, UnlockInv, EndInv, MoveInv
    DEF LeaseStep, Progress
  <2>2. CASE UNCHANGED leaseVars
    BY <2>2 DEF leaseVars, LeaseInv, LeaseTypes, AllPlaced, Believers, Placed, Right,
                OpenConns, Leads
  <2> QED BY <2>1, <2>2 DEF LeaseNext
<1> QED BY <1>1, LeaseInitInv, PTL DEF LeaseSpec

\* With a pool that keeps its connections, the replica that runs the scheduler has
\* the advisory lock (_sync_try_acquire_lease, _lease_held).
THEOREM LeaseIsLockedHolds == ASSUME KeepsAll PROVE LeaseSpec => []LeaseIsLocked
<1>1. LeaseInv => LeaseIsLocked
  BY DEF LeaseInv, Believers, Right, LeaseIsLocked
<1> QED BY <1>1, LeaseInvHolds, PTL

\* ... so at most one replica runs it, which is what the head of
\* server_scheduler.py promises for any pool.
THEOREM OneSchedulerHolds == ASSUME KeepsAll PROVE LeaseSpec => []OneScheduler
<1>1. LeaseInv => OneScheduler
  <2> SUFFICES ASSUME LeaseInv, NEW r \in Replicas, NEW s \in Replicas, Leads(r), Leads(s)
               PROVE  r = s
    BY DEF OneScheduler
  <2>1. advisory.session \in Conns(r) /\ advisory.session \in Conns(s)
    BY DEF LeaseInv, Believers, Right, AllPlaced, Placed
  <2> QED BY <2>1 DEF Conns
<1> QED BY <1>1, LeaseInvHolds, PTL

-----------------------------------------------------------------------------
(***************************************************************************)
(* Types, for a pool of any size: a replica has connections of its own     *)
(* only, also where the pool closes some and opens others, and the lock    *)
(* counts how often its session took it.                                   *)
(***************************************************************************)

LeaseTyped ==
  /\ LeaseTypes
  /\ orphan \in [Replicas -> BOOLEAN]
  /\ requests \in [Replicas -> Nat] /\ starts \in [Replicas -> Nat]

OwnConns(r) == OpenConns(r) \subseteq Conns(r)

\* A thread that is on its way has a connection.
Lent(r) == task[r] \in {"trying", "releasing"} => lent[r] # NoConn

LockTyped == advisory \in [session : AllConns, depth : Nat \ {0}] \cup {Free}

OwnInv ==
  /\ LeaseTyped /\ LockTyped
  /\ \A r \in Replicas : OwnConns(r) /\ Lent(r)

\* What the pool hands out is a connection of the replica.
LEMMA AvailableIsOwn ==
  ASSUME OwnInv, NEW r \in Replicas, NEW c \in Available(r)
  PROVE  c \in Conns(r) /\ c \in AllConns /\ c # NoConn
<1>1. Conns(r) \subseteq AllConns /\ NoConn \notin AllConns
  BY LeaseAssumption DEF Conns, AllConns
<1>2. CASE c \in idle[r]
  BY <1>1, <1>2 DEF OwnInv, OwnConns, OpenConns
<1>3. CASE Cardinality(OpenConns(r)) < Capacity /\ c = CHOOSE d \in Conns(r) : d \notin OpenConns(r)
  <2>1. \E d \in Conns(r) : d \notin OpenConns(r)
    <3> SUFFICES ASSUME Conns(r) \subseteq OpenConns(r) PROVE FALSE
      OBVIOUS
    <3>1. OpenConns(r) = Conns(r)
      BY DEF OwnInv, OwnConns
    <3> QED BY <1>3, <3>1, ConnsFinite, LeaseAssumption
  <2> QED BY <1>1, <1>3, <2>1
<1> QED BY <1>2, <1>3 DEF Available

\* A step of one replica leaves the connections of the others alone.
LEMMA OwnStep ==
  ASSUME OwnInv, NEW r \in Replicas, LeaseTyped', LockTyped', OwnConns(r)', Lent(r)',
         \A s \in Replicas \ {r} :
           /\ idle'[s] = idle[s] /\ busy'[s] = busy[s] /\ lent'[s] = lent[s]
           /\ task'[s] = task[s]
  PROVE  OwnInv'
BY DEF OwnInv, OwnConns, OpenConns, Lent

\* A connection comes back, and is kept or closed.
LEMMA BackIsOwn ==
  ASSUME OwnInv, NEW r \in Replicas, NEW c \in Conns(r)
  PROVE  /\ PutBack(r, c) \subseteq Conns(r) /\ PutBack(r, c) \subseteq AllConns
         /\ AfterPut(r, c) \in {advisory, Free}
BY DEF OwnInv, OwnConns, OpenConns, PutBack, AfterPut, Without, Conns, AllConns

\* Every step of a replica keeps its connections its own, and the lock counted.
LEMMA OwnKept ==
  ASSUME OwnInv, NEW r \in Replicas, LeaseStep(r)
  PROVE  OwnInv'
<1>1. /\ idle \in [Replicas -> SUBSET AllConns] /\ busy \in [Replicas -> SUBSET AllConns]
      /\ lent \in [Replicas -> AllConns \cup {NoConn}] /\ task \in [Replicas -> Steps]
      /\ got \in [Replicas -> BOOLEAN] /\ held \in [Replicas -> BOOLEAN]
      /\ orphan \in [Replicas -> BOOLEAN]
      /\ requests \in [Replicas -> Nat] /\ starts \in [Replicas -> Nat]
  BY DEF OwnInv, LeaseTyped, LeaseTypes
<1>2. idle[r] \subseteq Conns(r) /\ busy[r] \subseteq Conns(r) /\ NoConn \notin AllConns
      /\ Conns(r) \subseteq AllConns
  BY LeaseAssumption DEF OwnInv, OwnConns, OpenConns, Conns, AllConns
<1>3. lent[r] \in Conns(r) \cup {NoConn} /\ Lent(r)
  BY DEF OwnInv, OwnConns, OpenConns
<1>4. CASE Borrow(r)
  <2>1. PICK c \in Available(r) : /\ idle' = [idle EXCEPT ![r] = @ \ {c}]
                                  /\ busy' = [busy EXCEPT ![r] = @ \cup {c}]
    BY <1>4 DEF Borrow
  <2>2. c \in Conns(r) /\ c \in AllConns
    BY AvailableIsOwn
  <2>3. /\ requests' \in [Replicas -> Nat]
        /\ UNCHANGED <<advisory, task, lent, got, held, orphan, starts>>
    BY <1>1, <1>4 DEF Borrow
  <2>4. LeaseTyped' /\ LockTyped'
    BY <1>1, <2>1, <2>2, <2>3 DEF OwnInv, LeaseTyped, LeaseTypes, LockTyped
  <2>5. OwnConns(r)' /\ Lent(r)'
    BY <1>1, <1>2, <1>3, <2>1, <2>2, <2>3 DEF OwnConns, OpenConns, Lent
  <2> QED BY <1>1, <2>1, <2>3, <2>4, <2>5, OwnStep
<1>5. CASE GiveBack(r)
  <2>1. PICK c \in busy[r] : /\ busy' = [busy EXCEPT ![r] = @ \ {c}]
                             /\ idle' = [idle EXCEPT ![r] = PutBack(r, c)]
                             /\ advisory' = AfterPut(r, c)
    BY <1>5 DEF GiveBack
  <2>2. UNCHANGED <<task, lent, got, held, orphan, requests, starts>>
    BY <1>5 DEF GiveBack
  <2>3. PutBack(r, c) \subseteq Conns(r) /\ PutBack(r, c) \subseteq AllConns
        /\ advisory' \in {advisory, Free}
    BY <1>2, <2>1, BackIsOwn
  <2>4. LeaseTyped' /\ LockTyped'
    BY <1>1, <2>1, <2>2, <2>3 DEF OwnInv, LeaseTyped, LeaseTypes, LockTyped, Free
  <2>5. OwnConns(r)' /\ Lent(r)'
    BY <1>1, <1>2, <1>3, <2>1, <2>2, <2>3 DEF OwnConns, OpenConns, Lent
  <2> QED BY <1>1, <2>1, <2>2, <2>4, <2>5, OwnStep
<1>6. CASE TryLock(r) \/ Unlock(r)
  <2>1. PICK c \in Available(r) :
          /\ idle' = [idle EXCEPT ![r] = @ \ {c}] /\ lent' = [lent EXCEPT ![r] = c]
          /\ \/ advisory' = [session |-> c, depth |-> advisory.depth + 1]
             \/ advisory' \in {advisory, Free}
             \/ advisory.depth # 1 /\ advisory.session = c
                /\ advisory' = [advisory EXCEPT !.depth = @ - 1]
    BY <1>6 DEF TryLock, Unlock
  <2>2. c \in Conns(r) /\ c \in AllConns /\ c # NoConn
    BY AvailableIsOwn
  <2>3. /\ task' \in [Replicas -> Steps] /\ got' \in [Replicas -> BOOLEAN]
        /\ \A s \in Replicas \ {r} : task'[s] = task[s]
        /\ UNCHANGED <<busy, held, orphan, requests, starts>>
    <3>1. CASE TryLock(r)
      <4>1. PICK d \in Available(r) : got' = [got EXCEPT ![r] = advisory.session \in {NoConn, d}]
        BY <3>1 DEF TryLock
      <4>2. (advisory.session \in {NoConn, d}) \in BOOLEAN
        OBVIOUS
      <4>3. got' \in [Replicas -> BOOLEAN]
        BY <1>1, <4>1, <4>2, Zenon
      <4> QED BY <1>1, <3>1, <4>3 DEF TryLock, Steps
    <3>2. CASE Unlock(r)
      BY <1>1, <3>2 DEF Unlock, Steps
    <3> QED BY <1>6, <3>1, <3>2
  <2>4. LockTyped'
    BY <2>1, <2>2 DEF OwnInv, LockTyped, Free
  <2>5. LeaseTyped'
    BY <1>1, <2>1, <2>2, <2>3 DEF LeaseTyped, LeaseTypes
  <2>6. OwnConns(r)' /\ Lent(r)'
    BY <1>1, <1>2, <2>1, <2>2, <2>3 DEF OwnConns, OpenConns, Lent
  <2> QED BY <1>1, <2>1, <2>3, <2>4, <2>5, <2>6, OwnStep
<1>7. CASE EndTry(r) \/ EndCancelledTry(r) \/ EndUnlock(r)
  <2>1. PutLent(r) /\ lent[r] \in Conns(r)
    BY <1>3, <1>7 DEF EndTry, EndCancelledTry, EndUnlock, Lent
  <2>2. PutBack(r, lent[r]) \subseteq Conns(r) /\ PutBack(r, lent[r]) \subseteq AllConns
        /\ advisory' \in {advisory, Free}
    BY <2>1, BackIsOwn DEF PutLent
  <2>3. /\ task' \in [Replicas -> Steps] /\ held' \in [Replicas -> BOOLEAN]
        /\ got' \in [Replicas -> BOOLEAN] /\ \A s \in Replicas \ {r} : task'[s] = task[s]
        /\ UNCHANGED <<busy, orphan, requests, starts>>
        /\ task'[r] \notin {"trying", "releasing"}
    BY <1>1, <1>7 DEF EndTry, EndCancelledTry, EndUnlock, Believe, Steps
  <2>4. LeaseTyped' /\ LockTyped'
    BY <1>1, <2>1, <2>2, <2>3 DEF OwnInv, LeaseTyped, LeaseTypes, LockTyped, PutLent
  <2>5. OwnConns(r)' /\ Lent(r)'
    BY <1>1, <1>2, <2>1, <2>2, <2>3 DEF OwnConns, OpenConns, Lent, PutLent
  <2> QED BY <1>1, <2>1, <2>3, <2>4, <2>5, OwnStep DEF PutLent
<1>8. CASE ClosePool(r) \/ Kill(r)
  <2>1. /\ idle' = [idle EXCEPT ![r] = {}] /\ busy' = [busy EXCEPT ![r] = {}]
        /\ lent' = [lent EXCEPT ![r] = NoConn] /\ advisory' \in {advisory, Free}
    BY <1>8 DEF ClosePool, Kill, Without
  <2>2. /\ task' \in [Replicas -> Steps] /\ held' \in [Replicas -> BOOLEAN]
        /\ got' \in [Replicas -> BOOLEAN] /\ orphan' \in [Replicas -> BOOLEAN]
        /\ \A s \in Replicas \ {r} : task'[s] = task[s]
        /\ UNCHANGED <<requests, starts>> /\ task'[r] \notin {"trying", "releasing"}
    BY <1>1, <1>8 DEF ClosePool, Kill, Steps
  <2>3. LeaseTyped' /\ LockTyped'
    BY <1>1, <2>1, <2>2 DEF OwnInv, LeaseTyped, LeaseTypes, LockTyped
  <2>4. OwnConns(r)' /\ Lent(r)'
    BY <1>1, <2>1, <2>2 DEF OwnConns, OpenConns, Lent
  <2> QED BY <1>1, <2>1, <2>2, <2>3, <2>4, OwnStep
<1>9. CASE \/ StartReplica(r) \/ StopReplica(r) \/ ScanRound(r) \/ EndRound(r)
           \/ EndThread(r) \/ Exit(r)
  <2>1. UNCHANGED <<idle, busy, advisory, lent, got, held, requests>>
    BY <1>9 DEF StartReplica, StopReplica, ScanRound, EndRound, EndThread, Exit
  <2>2. task' \in [Replicas -> Steps] /\ \A s \in Replicas \ {r} : task'[s] = task[s]
    BY <1>1, <1>9 DEF StartReplica, StopReplica, ScanRound, EndRound, EndThread, Exit, Steps
  <2>3. task'[r] \in {"trying", "releasing"} => task'[r] = task[r]
    BY <1>1, <1>9 DEF StartReplica, StopReplica, ScanRound, EndRound, EndThread, Exit
  <2>4. orphan' \in [Replicas -> BOOLEAN] /\ starts' \in [Replicas -> Nat]
    <3>1. CASE StopReplica(r)
      <4>1. PICK b \in BOOLEAN : b = (task[r] = "scan")
        OBVIOUS
      <4> QED BY <1>1, <3>1, <4>1 DEF StopReplica
    <3>2. CASE StartReplica(r)
      BY <1>1, <3>2 DEF StartReplica
    <3>3. CASE EndThread(r)
      BY <1>1, <3>3 DEF EndThread
    <3>4. CASE ScanRound(r) \/ EndRound(r) \/ Exit(r)
      BY <1>1, <3>4 DEF ScanRound, EndRound, Exit
    <3> QED BY <1>9, <3>1, <3>2, <3>3, <3>4
  <2>5. LeaseTyped' /\ LockTyped'
    BY <1>1, <2>1, <2>2, <2>4 DEF OwnInv, LeaseTyped, LeaseTypes, LockTyped
  <2>6. OwnConns(r)' /\ Lent(r)'
    BY <1>3, <2>1, <2>3 DEF OwnInv, OwnConns, OpenConns, Lent
  <2> QED BY <2>1, <2>2, <2>5, <2>6, OwnStep
<1> QED BY <1>4, <1>5, <1>6, <1>7, <1>8, <1>9 DEF LeaseStep, Progress

\* The variables of the lease have their types, with the pool of the code, which
\* keeps one connection and closes the others, as with any other: a replica uses
\* its own connections, and the lock of a session counts its grants.
THEOREM LeaseTypedHolds == LeaseSpec => []LeaseTypeOK
<1>1. LeaseInit => OwnInv
  BY DEF LeaseInit, OwnInv, LeaseTyped, LeaseTypes, LockTyped, OwnConns, OpenConns, Lent, Steps
<1>2. OwnInv /\ [LeaseNext]_leaseVars => OwnInv'
  <2>1. CASE UNCHANGED leaseVars
    BY <2>1 DEF leaseVars, OwnInv, LeaseTyped, LeaseTypes, LockTyped, OwnConns, OpenConns, Lent
  <2> QED BY <2>1, OwnKept DEF LeaseNext
<1>3. OwnInv => LeaseTypeOK
  <2> SUFFICES ASSUME OwnInv PROVE LeaseTypeOK
    OBVIOUS
  <2>1. AllConns \subseteq UNION {Conns(r) : r \in Replicas} /\ NoConn \notin AllConns
    BY LeaseAssumption DEF AllConns, Conns
  <2>2. /\ advisory.session \in AllConns \cup {NoConn} /\ advisory.depth \in Nat
        /\ advisory.session = NoConn <=> advisory.depth = 0
    BY <2>1 DEF OwnInv, LockTyped, Free
  <2>3. \A r \in Replicas : /\ idle[r] \subseteq Conns(r) /\ busy[r] \subseteq Conns(r)
                            /\ lent[r] \in Conns(r) \cup {NoConn}
    BY DEF OwnInv, OwnConns, OpenConns
  <2> QED BY <2>1, <2>2, <2>3 DEF OwnInv, LeaseTyped, LeaseTypes, LeaseTypeOK
<1> QED BY <1>1, <1>2, <1>3, PTL DEF LeaseSpec

-----------------------------------------------------------------------------
(***************************************************************************)
(* The managers and their pools: when no thread is inside a manager that   *)
(* is initialised, its pool has every connection and its semaphore every   *)
(* slot, whatever pools were closed and made before. The invariant counts: *)
(* as many connections of the pool are out as threads have one of them,    *)
(* and no more slots are taken than threads will release.                  *)
(***************************************************************************)

ThreadSteps == {"resting", "connecting", "slot", "lend", "using", "finally"}
ThreadStates ==
  [step : ThreadSteps, of : 0 .. MaxManagers, acquired : BOOLEAN, conn : 0 .. MaxPools]
ManagerStates == [pool : 0 .. MaxPools, semaphore : 0 .. MaxPools, initialized : BOOLEAN]

PoolTypes ==
  /\ global \in 0 .. MaxManagers
  /\ manager \in [Managers -> ManagerStates]
  /\ outstanding \in [Pools -> 0 .. PoolCapacity] /\ slots \in [Pools -> 0 .. PoolCapacity]
  /\ made \in Seq(Managers) /\ Len(made) \in 0 .. MaxPools /\ closed \subseteq 1 .. Len(made)
  /\ thread \in [Threads -> ThreadStates]
  /\ uses \in Nat

\* A manager that is initialised has a pool of its own, which is open, and that pool's
\* semaphore.
OwnPool(m) ==
  /\ manager[m].pool # 0 => manager[m].pool \in 1 .. Len(made) /\ made[manager[m].pool] = m
  /\ manager[m].initialized <=> manager[m].pool # 0 /\ manager[m].pool \notin closed
  /\ manager[m].semaphore = IF manager[m].initialized THEN manager[m].pool ELSE 0

\* Where a thread is says what it has.
InPlace(t) ==
  /\ thread[t].step = "resting" => thread[t] = Resting
  /\ thread[t].step # "resting" => thread[t].of \in Managers
  /\ thread[t].step \in {"slot", "lend", "using", "finally"} => manager[thread[t].of].pool # 0
  /\ thread[t].step = "using" =>
       thread[t].conn \in 1 .. Len(made) /\ made[thread[t].conn] = thread[t].of
  /\ thread[t].acquired => thread[t].step \in {"lend", "using", "finally"}

\* A pool that is still to be made.
Untouched(p) == outstanding[p] = 0 /\ slots[p] = PoolCapacity

\* A thread in state s will release a slot to the semaphore that m has now.
HoldsSlot(s, m) ==
  /\ s.of = m /\ s.acquired
  /\ s.step \in {"lend", "finally"} \/ (s.step = "using" /\ s.conn = manager[m].pool)
Holders(m) == {t \in Threads : HoldsSlot(thread[t], m)}

\* A thread in state s has a connection of pool p.
Borrows(s, p) == s.step = "using" /\ s.conn = p
Borrowers(p) == {t \in Threads : Borrows(thread[t], p)}

\* Whatever a pool lacks, some thread is going to give back.  A thread may release a
\* slot it took from an earlier semaphore, so there may be fewer slots taken than
\* threads which have one.
Balanced(m) ==
  manager[m].initialized =>
    /\ PoolCapacity - slots[manager[m].pool] <= Cardinality(Holders(m))
    /\ outstanding[manager[m].pool] = Cardinality(Borrowers(manager[m].pool))

PoolInv ==
  /\ PoolTypes
  /\ \A m \in Managers : OwnPool(m) /\ Balanced(m)
  /\ \A t \in Threads : InPlace(t)
  /\ \A p \in Pools : p > Len(made) => Untouched(p)

-----------------------------------------------------------------------------
\* Sets of threads are finite, and one thread more or less counts one.
LEMMA CountThreads ==
  ASSUME NEW S \in SUBSET Threads, NEW t \in Threads
  PROVE  /\ IsFiniteSet(S) /\ Cardinality(S) \in Nat
         /\ t \notin S => Cardinality(S \cup {t}) = Cardinality(S) + 1
         /\ t \in S => Cardinality(S \ {t}) = Cardinality(S) - 1
<1>1. IsFiniteSet(S) /\ Cardinality(S) \in Nat
  BY FS_Subset, FS_CardinalityType, PoolAssumption
<1> QED BY <1>1, FS_AddElement, FS_RemoveElement

\* One thread goes from one state to another; the managers stay as they are.
LEMMA OneThreadMoves ==
  ASSUME PoolTypes, NEW t \in Threads, NEW s \in ThreadStates,
         thread' = [thread EXCEPT ![t] = s], UNCHANGED manager, NEW m, NEW p
  PROVE  /\ HoldsSlot(s, m) => Holders(m)' = Holders(m) \cup {t}
         /\ ~HoldsSlot(s, m) => Holders(m)' = Holders(m) \ {t}
         /\ Borrows(s, p) => Borrowers(p)' = Borrowers(p) \cup {t}
         /\ ~Borrows(s, p) => Borrowers(p)' = Borrowers(p) \ {t}
         /\ t \in Holders(m) <=> HoldsSlot(thread[t], m)
         /\ t \in Borrowers(p) <=> Borrows(thread[t], p)
         /\ (HoldsSlot(s, m) <=> HoldsSlot(thread[t], m)) => Holders(m)' = Holders(m)
         /\ (Borrows(s, p) <=> Borrows(thread[t], p)) => Borrowers(p)' = Borrowers(p)
  BY DEF PoolTypes, Holders, HoldsSlot, Borrowers, Borrows

\* The pool of one manager is not the pool of another.
LEMMA PoolsDiffer ==
  ASSUME PoolInv, NEW m \in Managers, NEW n \in Managers, m # n, manager[m].pool # 0
  PROVE  manager[m].pool # manager[n].pool
  BY DEF PoolInv, OwnPool

\* The fields of a manager.
LEMMA ManagerTyped ==
  ASSUME PoolInv, NEW m \in Managers
  PROVE  /\ manager[m] \in ManagerStates
         /\ manager[m].pool \in 0 .. MaxPools
         /\ manager[m].pool # 0 => manager[m].pool \in Pools
  BY PoolAssumption DEF PoolInv, PoolTypes, ManagerStates, Pools

\* A thread moves that neither had nor gets a slot or a connection of a pool in use.
LEMMA NothingTaken ==
  ASSUME PoolInv, NEW t \in Threads, NEW s \in ThreadStates,
         thread' = [thread EXCEPT ![t] = s],
         \A m \in Managers : manager[m].initialized =>
           /\ HoldsSlot(s, m) <=> HoldsSlot(thread[t], m)
           /\ Borrows(s, manager[m].pool) <=> Borrows(thread[t], manager[m].pool),
         InPlace(t)', global' \in 0 .. MaxManagers, uses' \in Nat,
         UNCHANGED <<manager, outstanding, slots, closed, made>>
  PROVE  PoolInv'
<1>1. PoolTypes'
  BY DEF PoolInv, PoolTypes
<1>2. ASSUME NEW m \in Managers PROVE OwnPool(m)' /\ Balanced(m)'
  <2>1. OwnPool(m)'
    BY DEF PoolInv, OwnPool
  <2>2. CASE ~manager[m].initialized
    BY <2>1, <2>2 DEF Balanced
  <2>3. CASE manager[m].initialized
    <3>1. Holders(m)' = Holders(m)
      BY <2>3, OneThreadMoves DEF PoolInv
    <3>2. Borrowers(manager[m].pool)' = Borrowers(manager[m].pool)
      BY <2>3 DEF PoolInv, PoolTypes, Borrowers, Borrows
    <3> QED BY <2>1, <3>1, <3>2 DEF PoolInv, Balanced
  <2> QED BY <2>2, <2>3, <2>1
<1>3. ASSUME NEW u \in Threads PROVE InPlace(u)'
  BY DEF PoolInv, PoolTypes, InPlace
<1>4. \A p \in Pools : p > Len(made') => Untouched(p)'
  BY DEF PoolInv, Untouched
<1> QED BY <1>1, <1>2, <1>3, <1>4 DEF PoolInv

\* A step of a thread changes only where it is.
LEMMA Moved ==
  ASSUME NEW s \in ThreadStates, NEW step \in ThreadSteps
  PROVE  /\ [s EXCEPT !.step = step] \in ThreadStates
         /\ [s EXCEPT !.step = step].step = step
         /\ [s EXCEPT !.step = step].of = s.of
         /\ [s EXCEPT !.step = step].acquired = s.acquired
         /\ [s EXCEPT !.step = step].conn = s.conn
  BY DEF ThreadStates

\* A thread that rests has nothing.
LEMMA RestingTyped ==
  /\ Resting \in ThreadStates /\ Resting.step = "resting" /\ Resting.of = 0
  /\ ~Resting.acquired /\ Resting.conn = 0
  BY PoolAssumption DEF Resting, ThreadStates, ThreadSteps

\* A thread asks for the manager, and may make one.
LEMMA Asking ==
  ASSUME PoolInv, NEW t \in Threads, AskConnection(t)
  PROVE  PoolInv'
<1>1. PICK m \in Managers \cup {global} :
        /\ global # 0 => m = global
        /\ global = 0 => m \in Managers
        /\ global' = m
        /\ thread' = [thread EXCEPT ![t] =
             [Resting EXCEPT !.of = m,
                             !.step = IF manager[m].initialized THEN "slot" ELSE "connecting"]]
  BY DEF AskConnection
<1>2. m \in Managers /\ m \in 0 .. MaxManagers
  BY <1>1, PoolAssumption DEF PoolInv, PoolTypes, Managers
<1>3. PICK step \in {"slot", "connecting"} :
        step = IF manager[m].initialized THEN "slot" ELSE "connecting"
  OBVIOUS
<1> DEFINE s == [step |-> step, of |-> m, acquired |-> FALSE, conn |-> 0]
<1>4. s = [Resting EXCEPT !.of = m, !.step = step]
  <2>1. PICK r : r = [Resting EXCEPT !.of = m, !.step = step]
    OBVIOUS
  <2>2. r = s
    BY <2>1 DEF Resting
  <2> QED BY <2>1, <2>2
<1>5. thread' = [thread EXCEPT ![t] = s] /\ (step = "slot" => manager[m].initialized)
  BY <1>1, <1>3, <1>4
<1>6. /\ s \in ThreadStates /\ s.step = step /\ s.of = m /\ ~s.acquired
  BY <1>2, <1>3, PoolAssumption DEF ThreadStates, ThreadSteps
<1> HIDE DEF s
<1>7. manager[m].initialized => manager[m].pool # 0
  BY <1>2 DEF PoolInv, OwnPool
<1>8. thread'[t] = s /\ thread[t].step = "resting" /\ ~thread[t].acquired
  BY <1>5, RestingTyped DEF AskConnection, PoolInv, PoolTypes, InPlace
<1>9. /\ UNCHANGED <<manager, outstanding, slots, closed, made>>
      /\ global' \in 0 .. MaxManagers /\ uses' \in Nat
  BY <1>1, <1>2 DEF AskConnection, PoolInv, PoolTypes
<1>10. InPlace(t)'
  BY <1>2, <1>3, <1>5, <1>6, <1>7, <1>8, <1>9 DEF InPlace
<1>11. ASSUME NEW n \in Managers
       PROVE  /\ HoldsSlot(s, n) <=> HoldsSlot(thread[t], n)
              /\ Borrows(s, manager[n].pool) <=> Borrows(thread[t], manager[n].pool)
  BY <1>3, <1>6, <1>8 DEF HoldsSlot, Borrows
<1> QED BY <1>5, <1>6, <1>9, <1>10, <1>11, NothingTaken

\* The server cannot be reached: the thread gives up with nothing in hand.
LEMMA NotReached ==
  ASSUME PoolInv, NEW t \in Threads, Unreachable(t)
  PROVE  PoolInv'
<1>1. thread[t].step = "connecting" /\ ~thread[t].acquired
  BY DEF Unreachable, PoolInv, InPlace
<1>2. thread' = [thread EXCEPT ![t] = Resting] /\ thread'[t] = Resting
  BY DEF Unreachable, PoolInv, PoolTypes
<1>3. UNCHANGED <<global, manager, outstanding, slots, closed, made, uses>>
  BY DEF Unreachable
<1>4. InPlace(t)'
  BY <1>2, RestingTyped DEF InPlace
<1>5. ASSUME NEW n \in Managers
      PROVE  /\ HoldsSlot(Resting, n) <=> HoldsSlot(thread[t], n)
             /\ Borrows(Resting, manager[n].pool) <=> Borrows(thread[t], manager[n].pool)
  BY <1>1, RestingTyped DEF HoldsSlot, Borrows
<1> QED BY <1>2, <1>3, <1>4, <1>5, RestingTyped, NothingTaken DEF PoolInv, PoolTypes

\* A new pool is whole; the threads that hold something of an older pool of the
\* manager will find that it is not theirs.
LEMMA Connecting ==
  ASSUME PoolInv, NEW t \in Threads, Connect(t)
  PROVE  PoolInv'
<1>0. PICK m \in Managers, p \in Nat : m = thread[t].of /\ p = Len(made) + 1
  BY DEF Connect, PoolInv, PoolTypes, InPlace
<1> DEFINE s == [thread[t] EXCEPT !.step = "slot"]
<1>1. m = thread[t].of /\ thread[t].step = "connecting" /\ ~thread[t].acquired
      /\ thread[t] \in ThreadStates
  BY <1>0 DEF Connect, PoolInv, PoolTypes, InPlace
<1>2. p \in Pools /\ p \notin closed /\ p # 0 /\ p > Len(made) /\ p \in 0 .. MaxPools
  BY <1>0, PoolAssumption DEF Connect, PoolInv, PoolTypes, Pools
<1>3. /\ s \in ThreadStates /\ s.step = "slot" /\ s.of = m /\ ~s.acquired
  BY <1>1, Moved DEF ThreadSteps
<1>4. thread' = [thread EXCEPT ![t] = s]
  BY DEF Connect, GoTo
<1>5. PICK b : b = [pool |-> p, semaphore |-> p, initialized |-> TRUE]
  OBVIOUS
<1>6. b \in ManagerStates /\ b.pool = p /\ b.semaphore = p /\ b.initialized = TRUE
  BY <1>2, <1>5 DEF ManagerStates
<1>7. /\ made' = Append(made, m) /\ manager' = [manager EXCEPT ![m] = b]
      /\ UNCHANGED <<global, outstanding, slots, closed, uses>>
  BY <1>0, <1>5 DEF Connect
<1>8. /\ made' \in Seq(Managers) /\ Len(made') = p /\ made'[p] = m
      /\ \A i \in 1 .. Len(made) : made'[i] = made[i]
  BY <1>0, <1>7 DEF PoolInv, PoolTypes
<1>9. Len(made) \in Nat /\ p = Len(made) + 1
  BY <1>0 DEF PoolInv, PoolTypes
<1> HIDE DEF s
<1>10. PoolTypes'
  <2>1. closed' \subseteq 1 .. Len(made')
    BY <1>7, <1>8, <1>9 DEF PoolInv, PoolTypes
  <2> QED BY <1>1, <1>2, <1>3, <1>4, <1>6, <1>7, <1>8, <2>1 DEF PoolInv, PoolTypes
<1>11. /\ manager'[m] = b
       /\ \A n \in Managers \ {m} : manager'[n] = manager[n]
       /\ \A u \in Threads \ {t} : thread'[u] = thread[u]
       /\ thread'[t] = s
  BY <1>1, <1>4, <1>7 DEF PoolInv, PoolTypes
<1>12. ASSUME NEW n \in Managers PROVE OwnPool(n)'
  BY <1>2, <1>6, <1>7, <1>8, <1>9, <1>11 DEF PoolInv, OwnPool
<1>13. ASSUME NEW u \in Threads PROVE InPlace(u)'
  <2>1. CASE u = t
    BY <1>1, <1>2, <1>3, <1>6, <1>11, <2>1 DEF InPlace
  <2>2. CASE u # t
    BY <1>1, <1>2, <1>6, <1>8, <1>9, <1>11, <2>2 DEF PoolInv, InPlace
  <2> QED BY <2>1, <2>2
<1>14. \A q \in Pools : q > Len(made') => Untouched(q)'
  BY <1>7, <1>8, <1>9 DEF PoolInv, Untouched, Pools
<1>15. ASSUME NEW n \in Managers, n # m PROVE Balanced(n)'
  <2>1. Holders(n)' = Holders(n)
    BY <1>1, <1>3, <1>11, <1>15 DEF Holders, HoldsSlot
  <2>2. Borrowers(manager[n].pool)' = Borrowers(manager[n].pool)
    BY <1>1, <1>3, <1>11, <1>15 DEF Borrowers, Borrows
  <2> QED BY <1>7, <1>11, <1>15, <2>1, <2>2 DEF PoolInv, Balanced
<1>16. Balanced(m)'
  <2>1. slots'[p] = PoolCapacity /\ outstanding'[p] = 0
    BY <1>2, <1>7 DEF PoolInv, Untouched
  <2>2. Borrowers(p)' = {}
    BY <1>1, <1>3, <1>9, <1>11 DEF PoolInv, InPlace, Borrowers, Borrows
  <2>3. Cardinality(Borrowers(p)') = 0
    BY <2>2, FS_EmptySet
  <2>4. Cardinality(Holders(m)') \in Nat
    BY CountThreads DEF Holders
  <2> QED BY <1>6, <1>11, <2>1, <2>3, <2>4, PoolAssumption DEF Balanced
<1> QED BY <1>10, <1>12, <1>13, <1>14, <1>15, <1>16 DEF PoolInv

\* The slots or the connections of one pool change, and the thread that changes them.
LEMMA OnePoolChanges ==
  ASSUME PoolInv, NEW t \in Threads, NEW s \in ThreadStates,
         thread' = [thread EXCEPT ![t] = s],
         NEW m \in Managers, manager[m].pool # 0, thread[t].of = m, s.of \in {0, m},
         s.step = "using" => s.conn = manager[m].pool,
         thread[t].step = "using" => thread[t].conn = manager[m].pool,
         InPlace(t)', Balanced(m)',
         outstanding' \in [Pools -> 0 .. PoolCapacity], slots' \in [Pools -> 0 .. PoolCapacity],
         \A p \in Pools \ {manager[m].pool} :
           outstanding'[p] = outstanding[p] /\ slots'[p] = slots[p],
         UNCHANGED <<global, manager, closed, made, uses>>
  PROVE  PoolInv'
<1>1. PoolTypes'
  BY DEF PoolInv, PoolTypes
<1>2. ASSUME NEW n \in Managers PROVE OwnPool(n)' /\ Balanced(n)'
  <2>1. OwnPool(n)'
    BY DEF PoolInv, OwnPool
  <2>2. CASE n # m /\ manager[n].initialized
    <3>1. manager[n].pool # 0 /\ manager[n].pool # manager[m].pool /\ manager[n].pool \in Pools
      BY <2>2, PoolsDiffer, ManagerTyped DEF PoolInv, OwnPool
    <3>2. m # 0 /\ n # 0
      BY DEF Managers
    <3>3. Holders(n)' = Holders(n)
      BY <2>2, <3>2, OneThreadMoves DEF PoolInv, Holders, HoldsSlot
    <3>4. Borrowers(manager[n].pool)' = Borrowers(manager[n].pool)
      BY <3>1, OneThreadMoves DEF PoolInv, Borrowers, Borrows
    <3> QED BY <2>1, <3>1, <3>3, <3>4 DEF PoolInv, Balanced
  <2> QED BY <2>1, <2>2 DEF Balanced
<1>3. ASSUME NEW u \in Threads PROVE InPlace(u)'
  BY DEF PoolInv, PoolTypes, InPlace
<1>4. \A p \in Pools : p > Len(made') => Untouched(p)'
  BY PoolAssumption DEF PoolInv, PoolTypes, OwnPool, Untouched
<1> QED BY <1>1, <1>2, <1>3, <1>4 DEF PoolInv

\* A thread takes a slot of the semaphore: it is a holder from now on.
LEMMA Acquiring ==
  ASSUME PoolInv, NEW t \in Threads, Acquire(t)
  PROVE  PoolInv'
<1>0. PICK m \in Managers : m = thread[t].of
  BY DEF Acquire, PoolInv, InPlace
<1>1. /\ thread[t].step = "slot" /\ ~thread[t].acquired /\ manager[m].pool # 0
      /\ thread[t] \in ThreadStates
      /\ manager[m].semaphore = IF manager[m].initialized THEN manager[m].pool ELSE 0
      /\ UNCHANGED <<global, manager, outstanding, closed, made, uses>>
  BY <1>0 DEF Acquire, PoolInv, PoolTypes, InPlace, OwnPool
<1>2. PICK p \in Pools : p = manager[m].pool
  BY <1>1, ManagerTyped
<1>3. CASE manager[m].semaphore # 0 /\ slots[p] > 0
  <2> DEFINE g == [thread[t] EXCEPT !.step = "lend"]
             s == [g EXCEPT !.acquired = TRUE]
  <2>1. manager[m].initialized /\ manager[m].semaphore = p
    BY <1>1, <1>2, <1>3
  <2>2. g \in ThreadStates /\ g.step = "lend" /\ g.of = m /\ g.conn = thread[t].conn
    BY <1>0, <1>1, Moved DEF ThreadSteps
  <2>3. /\ slots' = [slots EXCEPT ![p] = @ - 1]
        /\ thread' = [thread EXCEPT ![t].step = "lend", ![t].acquired = TRUE]
    BY <1>0, <1>2, <1>3, <2>1 DEF Acquire, Mgr
  <2>4. thread' = [thread EXCEPT ![t] = s]
    BY <2>3 DEF PoolInv, PoolTypes
  <2> HIDE DEF g
  <2>5. s \in ThreadStates /\ s.step = "lend" /\ s.of = m /\ s.acquired
    BY <2>2 DEF ThreadStates
  <2> HIDE DEF s
  <2>6. thread'[t] = s
    BY <2>4 DEF PoolInv, PoolTypes
  <2>7. InPlace(t)'
    BY <1>1, <2>5, <2>6 DEF InPlace
  <2>8. /\ slots' \in [Pools -> 0 .. PoolCapacity] /\ slots'[p] = slots[p] - 1
        /\ \A q \in Pools \ {p} : slots'[q] = slots[q] /\ slots[p] \in 0 .. PoolCapacity
    BY <1>3, <2>3, PoolAssumption DEF PoolInv, PoolTypes
  <2>9. Balanced(m)'
    <3>1. Holders(m)' = Holders(m) \cup {t} /\ t \notin Holders(m)
      <4>1. HoldsSlot(s, m) /\ ~HoldsSlot(thread[t], m)
        BY <1>1, <2>5 DEF HoldsSlot
      <4> QED BY <1>1, <2>4, <2>5, <4>1, OneThreadMoves DEF PoolInv
    <3>2. Borrowers(p)' = Borrowers(p)
      <4>1. ~Borrows(s, p) /\ ~Borrows(thread[t], p)
        BY <1>1, <2>5 DEF Borrows
      <4> QED BY <1>1, <2>4, <2>5, <4>1, OneThreadMoves DEF PoolInv
    <3>3. Holders(m) \in SUBSET Threads
      BY DEF Holders
    <3>4. Cardinality(Holders(m)') = Cardinality(Holders(m)) + 1 /\ Cardinality(Holders(m)) \in Nat
      BY <3>1, <3>3, CountThreads
    <3>5. /\ PoolCapacity - slots[p] <= Cardinality(Holders(m))
          /\ outstanding[p] = Cardinality(Borrowers(p))
      BY <1>2, <2>1 DEF PoolInv, Balanced
    <3>6. slots[p] \in Nat
      BY DEF PoolInv, PoolTypes
    <3> QED BY <1>1, <1>2, <2>8, <3>2, <3>4, <3>5, <3>6, PoolAssumption DEF Balanced
  <2> QED BY <1>0, <1>1, <1>2, <2>4, <2>5, <2>7, <2>8, <2>9, OnePoolChanges DEF PoolInv, PoolTypes
<1>4. CASE ~(manager[m].semaphore # 0 /\ slots[p] > 0)
  <2> DEFINE s == [thread[t] EXCEPT !.step = "finally"]
  <2>1. /\ s \in ThreadStates /\ s.step = "finally" /\ s.of = m /\ ~s.acquired
    BY <1>0, <1>1, Moved DEF ThreadSteps
  <2>2. thread' = [thread EXCEPT ![t] = s] /\ UNCHANGED slots
    BY <1>0, <1>1, <1>2, <1>4 DEF Acquire, Mgr, GoTo
  <2> HIDE DEF s
  <2>3. InPlace(t)'
    BY <1>1, <2>1, <2>2 DEF InPlace, PoolInv, PoolTypes
  <2>4. ASSUME NEW n \in Managers
        PROVE  /\ HoldsSlot(s, n) <=> HoldsSlot(thread[t], n)
               /\ Borrows(s, manager[n].pool) <=> Borrows(thread[t], manager[n].pool)
    BY <1>1, <2>1 DEF HoldsSlot, Borrows
  <2> QED BY <1>1, <2>1, <2>2, <2>3, <2>4, NothingTaken DEF PoolInv, PoolTypes
<1> QED BY <1>3, <1>4

\* The pool lends a connection: the thread is a borrower from now on.
LEMMA Lending ==
  ASSUME PoolInv, NEW t \in Threads, Lend(t)
  PROVE  PoolInv'
<1>0. PICK m \in Managers : m = thread[t].of
  BY DEF Lend, PoolInv, InPlace
<1>1. /\ thread[t].step = "lend" /\ manager[m].pool # 0 /\ thread[t] \in ThreadStates
      /\ UNCHANGED <<global, manager, slots, closed, made, uses>>
  BY <1>0 DEF Lend, PoolInv, PoolTypes, InPlace
<1>2. PICK p \in Pools : p = manager[m].pool
  BY <1>1, ManagerTyped
<1>3. p \in 1 .. Len(made) /\ made[p] = m /\ p \in 0 .. MaxPools
  BY <1>1, <1>2, ManagerTyped DEF PoolInv, OwnPool
<1>4. CASE /\ Lendable(p) /\ outstanding' = [outstanding EXCEPT ![p] = @ + 1]
           /\ thread' = [thread EXCEPT ![t].step = "using", ![t].conn = p]
  <2> DEFINE g == [thread[t] EXCEPT !.step = "using"]
             s == [g EXCEPT !.conn = p]
  <2>1. /\ g \in ThreadStates /\ g.step = "using" /\ g.of = m
        /\ g.acquired = thread[t].acquired
    BY <1>0, <1>1, Moved DEF ThreadSteps
  <2>2. thread' = [thread EXCEPT ![t] = s]
    BY <1>4 DEF PoolInv, PoolTypes
  <2> HIDE DEF g
  <2>3. /\ s \in ThreadStates /\ s.step = "using" /\ s.of = m /\ s.conn = p
        /\ s.acquired = thread[t].acquired
    BY <1>3, <2>1 DEF ThreadStates
  <2> HIDE DEF s
  <2>4. InPlace(t)'
    BY <1>1, <1>2, <1>3, <2>2, <2>3 DEF InPlace, PoolInv, PoolTypes
  <2>5. /\ outstanding' \in [Pools -> 0 .. PoolCapacity] /\ outstanding'[p] = outstanding[p] + 1
        /\ \A q \in Pools \ {p} : outstanding'[q] = outstanding[q]
    BY <1>4, PoolAssumption DEF PoolInv, PoolTypes, Lendable
  <2>6. Balanced(m)'
    <3>1. Holders(m)' = Holders(m)
      <4>1. HoldsSlot(s, m) <=> HoldsSlot(thread[t], m)
        BY <1>0, <1>1, <1>2, <2>3 DEF HoldsSlot
      <4> QED BY <1>1, <2>2, <2>3, <4>1, OneThreadMoves DEF PoolInv
    <3>2. Borrowers(p)' = Borrowers(p) \cup {t} /\ t \notin Borrowers(p)
      <4>1. Borrows(s, p) /\ ~Borrows(thread[t], p)
        BY <1>1, <2>3 DEF Borrows
      <4> QED BY <1>1, <2>2, <2>3, <4>1, OneThreadMoves DEF PoolInv
    <3>3. Borrowers(p) \in SUBSET Threads
      BY DEF Borrowers
    <3>4. Cardinality(Borrowers(p)') = Cardinality(Borrowers(p)) + 1
      BY <3>2, <3>3, CountThreads
    <3> QED BY <1>1, <1>2, <2>5, <3>1, <3>4 DEF PoolInv, Balanced
  <2> QED BY <1>0, <1>1, <1>2, <2>2, <2>3, <2>4, <2>5, <2>6, OnePoolChanges DEF PoolInv, PoolTypes
<1>5. CASE GoTo(t, "finally") /\ UNCHANGED outstanding
  <2> DEFINE s == [thread[t] EXCEPT !.step = "finally"]
  <2>1. /\ s \in ThreadStates /\ s.step = "finally" /\ s.of = m
        /\ s.acquired = thread[t].acquired
    BY <1>0, <1>1, Moved DEF ThreadSteps
  <2>2. thread' = [thread EXCEPT ![t] = s]
    BY <1>5 DEF GoTo
  <2> HIDE DEF s
  <2>3. InPlace(t)'
    BY <1>1, <2>1, <2>2 DEF InPlace, PoolInv, PoolTypes
  <2>4. ASSUME NEW n \in Managers
        PROVE  /\ HoldsSlot(s, n) <=> HoldsSlot(thread[t], n)
               /\ Borrows(s, manager[n].pool) <=> Borrows(thread[t], manager[n].pool)
    BY <1>0, <1>1, <2>1 DEF HoldsSlot, Borrows
  <2> QED BY <1>1, <1>5, <2>1, <2>2, <2>3, <2>4, NothingTaken DEF PoolInv, PoolTypes
<1> QED BY <1>0, <1>2, <1>4, <1>5 DEF Lend, Mgr

\* A connection comes back to the pool it is of, or is of no pool any more.
LEMMA PuttingBack ==
  ASSUME PoolInv, NEW t \in Threads, PutConn(t)
  PROVE  PoolInv'
<1>0. PICK m \in Managers : m = thread[t].of
  BY DEF PutConn, PoolInv, InPlace
<1>1. /\ thread[t].step = "using" /\ manager[m].pool # 0 /\ thread[t] \in ThreadStates
      /\ UNCHANGED <<global, manager, slots, closed, made, uses>>
  BY <1>0 DEF PutConn, PoolInv, PoolTypes, InPlace
<1>2. PICK p \in Pools : p = manager[m].pool
  BY <1>1, ManagerTyped
<1>3. CASE p = thread[t].conn /\ p \notin closed
  <2> DEFINE s == [thread[t] EXCEPT !.step = "finally"]
  <2>1. /\ s \in ThreadStates /\ s.step = "finally" /\ s.of = m
        /\ s.acquired = thread[t].acquired
    BY <1>0, <1>1, Moved DEF ThreadSteps
  <2>2. thread' = [thread EXCEPT ![t] = s] /\ outstanding' = [outstanding EXCEPT ![p] = @ - 1]
    BY <1>0, <1>2, <1>3 DEF PutConn, Mgr, GoTo
  <2> HIDE DEF s
  <2>3. InPlace(t)'
    BY <1>1, <2>1, <2>2 DEF InPlace, PoolInv, PoolTypes
  <2>4. manager[m].initialized /\ outstanding[p] = Cardinality(Borrowers(p))
    BY <1>1, <1>2, <1>3, ZenonT(40) DEF PoolInv, OwnPool, Balanced
  <2>5. /\ Borrowers(p)' = Borrowers(p) \ {t} /\ t \in Borrowers(p)
        /\ Borrowers(p) \in SUBSET Threads
    <3>1. ~Borrows(s, p) /\ Borrows(thread[t], p)
      BY <1>1, <1>3, <2>1 DEF Borrows
    <3> QED BY <1>1, <2>1, <2>2, <3>1, OneThreadMoves DEF PoolInv, Borrowers
  <2>6. /\ Cardinality(Borrowers(p)') = Cardinality(Borrowers(p)) - 1
        /\ Cardinality(Borrowers(p)') \in Nat
    <3>1. Borrowers(p)' \in SUBSET Threads
      BY DEF Borrowers
    <3> QED BY <2>5, <3>1, CountThreads
  <2>7. /\ outstanding' \in [Pools -> 0 .. PoolCapacity] /\ outstanding'[p] = outstanding[p] - 1
        /\ \A q \in Pools \ {p} : outstanding'[q] = outstanding[q]
    BY <2>2, <2>4, <2>6, PoolAssumption DEF PoolInv, PoolTypes
  <2>8. Balanced(m)'
    <3>1. Holders(m)' = Holders(m)
      <4>1. HoldsSlot(s, m) <=> HoldsSlot(thread[t], m)
        BY <1>0, <1>1, <1>2, <1>3, <2>1 DEF HoldsSlot
      <4> QED BY <1>1, <2>1, <2>2, <4>1, OneThreadMoves, ZenonT(40) DEF PoolInv
    <3> QED BY <1>1, <1>2, <2>4, <2>6, <2>7, <3>1 DEF PoolInv, Balanced
  <2> QED BY <1>0, <1>1, <1>2, <1>3, <2>1, <2>2, <2>3, <2>7, <2>8, OnePoolChanges
          DEF PoolInv, PoolTypes
<1>4. CASE ~(p = thread[t].conn /\ p \notin closed)
  <2>1. thread' = [thread EXCEPT ![t] = Resting] /\ UNCHANGED outstanding
    BY <1>0, <1>2, <1>4 DEF PutConn, Mgr
  <2>2. InPlace(t)'
    BY <2>1, RestingTyped DEF InPlace, PoolInv, PoolTypes
  <2>3. ASSUME NEW n \in Managers, manager[n].initialized
        PROVE  /\ HoldsSlot(Resting, n) <=> HoldsSlot(thread[t], n)
               /\ Borrows(Resting, manager[n].pool) <=> Borrows(thread[t], manager[n].pool)
    <3>1. n # 0 /\ manager[n].pool # 0 /\ manager[n].pool \notin closed
          /\ made[manager[n].pool] = n
      BY <2>3 DEF PoolInv, OwnPool, Managers
    <3>2. made[thread[t].conn] = m
      BY <1>0, <1>1 DEF PoolInv, InPlace
    <3>3. manager[n].pool # thread[t].conn
      BY <1>2, <1>4, <3>1, <3>2
    <3> QED BY <1>1, <3>1, <3>3, RestingTyped DEF HoldsSlot, Borrows
  <2> QED BY <1>1, <2>1, <2>2, <2>3, RestingTyped, NothingTaken DEF PoolInv, PoolTypes
<1> QED BY <1>3, <1>4

\* The slot comes back to the semaphore the manager has by now.
LEMMA HandingBack ==
  ASSUME PoolInv, NEW t \in Threads, HandBack(t)
  PROVE  PoolInv'
<1>0. PICK m \in Managers : m = thread[t].of
  BY DEF HandBack, PoolInv, InPlace
<1>1. /\ thread[t].step = "finally" /\ manager[m].pool # 0 /\ thread[t] \in ThreadStates
      /\ manager[m].semaphore = (IF manager[m].initialized THEN manager[m].pool ELSE 0)
      /\ thread' = [thread EXCEPT ![t] = Resting]
      /\ UNCHANGED <<global, manager, outstanding, closed, made, uses>>
  BY <1>0 DEF HandBack, PoolInv, PoolTypes, InPlace, OwnPool
<1>2. PICK p \in Pools : p = manager[m].pool
  BY <1>1, ManagerTyped
<1>3. InPlace(t)'
  BY <1>1, RestingTyped DEF InPlace, PoolInv, PoolTypes
<1>4. slots' = IF thread[t].acquired /\ manager[m].initialized /\ slots[p] < PoolCapacity
               THEN [slots EXCEPT ![p] = @ + 1] ELSE slots
  BY <1>0, <1>1, <1>2 DEF HandBack, Mgr, Releases
<1>5. /\ slots' \in [Pools -> 0 .. PoolCapacity]
      /\ \A q \in Pools \ {p} : slots'[q] = slots[q]
      /\ slots[p] \in 0 .. PoolCapacity
  BY <1>4, PoolAssumption DEF PoolInv, PoolTypes
<1>6. Balanced(m)'
  <2> SUFFICES ASSUME manager[m].initialized PROVE Balanced(m)'
    BY <1>1 DEF Balanced
  <2>1. /\ Borrowers(p)' = Borrowers(p)
    <3>1. ~Borrows(Resting, p) /\ ~Borrows(thread[t], p)
      BY <1>1, RestingTyped DEF Borrows
    <3> QED BY <1>1, <3>1, RestingTyped, OneThreadMoves DEF PoolInv
  <2>2. /\ Holders(m)' = Holders(m) \ {t} /\ Holders(m) \in SUBSET Threads
        /\ t \in Holders(m) <=> thread[t].acquired
    <3>1. ~HoldsSlot(Resting, m) /\ (HoldsSlot(thread[t], m) <=> thread[t].acquired)
      BY <1>0, <1>1, RestingTyped DEF HoldsSlot
    <3> QED BY <1>1, <3>1, RestingTyped, OneThreadMoves DEF PoolInv, Holders
  <2>3. /\ Cardinality(Holders(m)) \in Nat /\ Cardinality(Holders(m)') \in Nat
        /\ thread[t].acquired => Cardinality(Holders(m)') = Cardinality(Holders(m)) - 1
        /\ ~thread[t].acquired => Holders(m)' = Holders(m)
    <3>1. Holders(m)' \in SUBSET Threads
      BY DEF Holders
    <3> QED BY <2>2, <3>1, CountThreads
  <2>4. /\ PoolCapacity - slots[p] <= Cardinality(Holders(m))
        /\ outstanding[p] = Cardinality(Borrowers(p))
    BY <1>2 DEF PoolInv, Balanced
  <2>5. PoolCapacity - slots'[p] <= Cardinality(Holders(m)')
    <3>1. CASE thread[t].acquired /\ slots[p] < PoolCapacity
      <4>1. slots'[p] = slots[p] + 1
        BY <1>4, <3>1 DEF PoolInv, PoolTypes
      <4> QED BY <1>5, <2>3, <2>4, <3>1, <4>1, PoolAssumption
    <3>2. CASE thread[t].acquired /\ ~(slots[p] < PoolCapacity)
      BY <1>4, <1>5, <2>3, <3>2, PoolAssumption
    <3>3. CASE ~thread[t].acquired
      BY <1>4, <2>3, <2>4, <3>3
    <3> QED BY <3>1, <3>2, <3>3
  <2> QED BY <1>1, <1>2, <2>1, <2>4, <2>5 DEF Balanced
<1> QED BY <1>0, <1>1, <1>2, <1>3, <1>5, <1>6, RestingTyped, OnePoolChanges
        DEF PoolInv, PoolTypes

\* A manager that is closed is not initialised; the others keep their pools.
LEMMA Closing ==
  ASSUME PoolInv, CloseManager
  PROVE  PoolInv'
<1>0. PICK m \in Managers : m = global
  BY PoolAssumption DEF CloseManager, PoolInv, PoolTypes, Managers
<1>1. manager[m] \in ManagerStates /\ manager[m].pool \in 0 .. MaxPools
  BY ManagerTyped
<1>2. PICK b : b = IF manager[m].pool = 0 THEN manager[m]
                   ELSE [manager[m] EXCEPT !.semaphore = 0, !.initialized = FALSE]
  OBVIOUS
<1>3. /\ b \in ManagerStates /\ b.pool = manager[m].pool /\ ~b.initialized /\ b.semaphore = 0
  <2>1. CASE manager[m].pool = 0
    BY <1>1, <1>2, <2>1 DEF PoolInv, OwnPool, ManagerStates
  <2>2. CASE manager[m].pool # 0
    <3> DEFINE g == [manager[m] EXCEPT !.semaphore = 0]
    <3>1. g \in ManagerStates /\ g.pool = manager[m].pool /\ g.semaphore = 0
      BY <1>1, PoolAssumption DEF ManagerStates
    <3>2. b = [g EXCEPT !.initialized = FALSE]
      BY <1>2, <2>2
    <3> HIDE DEF g
    <3> QED BY <3>1, <3>2 DEF ManagerStates
  <2> QED BY <2>1, <2>2
<1>4. /\ global' = 0 /\ manager' = [manager EXCEPT ![m] = b]
      /\ closed' = closed \cup ({manager[m].pool} \ {0})
      /\ UNCHANGED <<outstanding, slots, made, thread, uses>>
  BY <1>0, <1>2 DEF CloseManager
<1>5. /\ manager'[m] = b /\ \A n \in Managers : n # m => manager'[n] = manager[n]
      /\ \A n \in Managers : manager'[n].pool = manager[n].pool
  BY <1>3, <1>4 DEF PoolInv, PoolTypes
<1>6. PoolTypes'
  <2>1. manager[m].pool # 0 => manager[m].pool \in 1 .. Len(made)
    BY DEF PoolInv, OwnPool
  <2>2. closed' \subseteq 1 .. Len(made')
    BY <1>4, <2>1 DEF PoolInv, PoolTypes
  <2> QED BY <1>3, <1>4, <2>2, PoolAssumption DEF PoolInv, PoolTypes
<1>7. ASSUME NEW n \in Managers PROVE OwnPool(n)'
  <2>1. CASE n = m
    BY <1>3, <1>4, <1>5, <2>1 DEF PoolInv, OwnPool
  <2>2. CASE n # m
    <3>1. manager[n].pool # 0 => manager[n].pool # manager[m].pool
      BY <2>2, PoolsDiffer
    <3> QED BY <1>4, <1>5, <2>2, <3>1 DEF PoolInv, OwnPool
  <2> QED BY <2>1, <2>2
<1>8. ASSUME NEW n \in Managers PROVE Balanced(n)'
  <2>1. CASE n = m
    BY <1>3, <1>5, <2>1 DEF Balanced
  <2>2. CASE n # m
    <3>1. Holders(n)' = Holders(n)
      BY <1>4, <1>5 DEF Holders, HoldsSlot
    <3>2. Borrowers(manager[n].pool)' = Borrowers(manager[n].pool)
      BY <1>4, <1>5 DEF Borrowers, Borrows
    <3> QED BY <1>4, <1>5, <2>2, <3>1, <3>2 DEF PoolInv, Balanced
  <2> QED BY <2>1, <2>2
<1>9. ASSUME NEW t \in Threads PROVE InPlace(t)'
  BY <1>4, <1>5 DEF PoolInv, InPlace
<1>10. \A p \in Pools : p > Len(made') => Untouched(p)'
  BY <1>4 DEF PoolInv, Untouched
<1> QED BY <1>6, <1>7, <1>8, <1>9, <1>10 DEF PoolInv

\* The invariant holds.
LEMMA PoolInvHolds == PoolSpec => []PoolInv
<1>1. PoolInit => PoolInv
  <2> SUFFICES ASSUME PoolInit PROVE PoolInv
    OBVIOUS
  <2>1. /\ Blank \in ManagerStates /\ Blank.pool = 0 /\ ~Blank.initialized /\ Blank.semaphore = 0
    BY PoolAssumption DEF Blank, ManagerStates
  <2>2. PoolTypes
    BY <2>1, RestingTyped, PoolAssumption DEF PoolInit, PoolTypes
  <2>3. \A m \in Managers : OwnPool(m) /\ Balanced(m)
    BY <2>1 DEF PoolInit, OwnPool, Balanced
  <2>4. \A t \in Threads : InPlace(t)
    BY RestingTyped DEF PoolInit, InPlace
  <2>5. \A p \in Pools : Untouched(p)
    BY DEF PoolInit, Untouched
  <2> QED BY <2>2, <2>3, <2>4, <2>5 DEF PoolInv
<1>2. PoolInv /\ [PoolNext]_poolVars => PoolInv'
  <2> SUFFICES ASSUME PoolInv, [PoolNext]_poolVars PROVE PoolInv'
    OBVIOUS
  <2>1. CASE PoolNext
    BY <2>1, Asking, Connecting, NotReached, Acquiring, Lending, PuttingBack, HandingBack, Closing
       DEF PoolNext
  <2>2. CASE UNCHANGED poolVars
    <3> USE <2>2 DEF poolVars
    <3>1. ASSUME NEW m \in Managers PROVE OwnPool(m)' /\ Balanced(m)'
      <4>1. Holders(m)' = Holders(m) /\ Borrowers(manager[m].pool)' = Borrowers(manager[m].pool)
        BY DEF Holders, HoldsSlot, Borrowers, Borrows
      <4> QED BY <4>1 DEF PoolInv, OwnPool, Balanced
    <3>2. PoolTypes'
      BY DEF PoolInv, PoolTypes
    <3>3. ASSUME NEW t \in Threads PROVE InPlace(t)'
      BY DEF PoolInv, InPlace
    <3>4. \A p \in Pools : p > Len(made') => Untouched(p)'
      BY DEF PoolInv, Untouched
    <3> QED BY <3>1, <3>2, <3>3, <3>4 DEF PoolInv
  <2> QED BY <2>1, <2>2
<1> QED BY <1>1, <1>2, PTL DEF PoolSpec

\* The variables have their types: no pool gives out more than its capacity, and no
\* semaphore counts beyond it.
THEOREM PoolsTyped == PoolSpec => []PoolTypeOK
<1>1. PoolInv => PoolTypeOK
  <2>1. PoolInv => closed \subseteq Pools
    BY PoolAssumption DEF PoolInv, PoolTypes, Pools
  <2> QED BY <2>1
          DEF PoolInv, PoolTypes, PoolTypeOK, ThreadStates, ThreadSteps, ManagerStates
<1> QED BY <1>1, PoolInvHolds, PTL

\* For any number of threads, managers and pools: a pool that is in use, but by nobody
\* at the moment, has all its connections and slots.
THEOREM QuietPoolIsWholeHolds == PoolSpec => []QuietPoolIsWhole
<1> SUFFICES PoolInv => QuietPoolIsWhole
  BY PoolInvHolds, PTL
<1> SUFFICES ASSUME PoolInv, NEW m \in Managers, manager[m].initialized,
                    \A t \in Threads : thread[t].of # m
             PROVE  slots[manager[m].semaphore] = PoolCapacity /\ outstanding[manager[m].pool] = 0
  BY DEF QuietPoolIsWhole
<1>1. PICK p \in Pools : p = manager[m].pool
  BY ManagerTyped DEF PoolInv, OwnPool
<1>2. manager[m].semaphore = p /\ slots[p] \in 0 .. PoolCapacity /\ made[p] = m
  BY <1>1 DEF PoolInv, PoolTypes, OwnPool, Pools
<1>3. Holders(m) = {}
  BY DEF Holders, HoldsSlot
<1>4. Borrowers(p) = {}
  BY <1>2 DEF PoolInv, InPlace, Borrowers, Borrows
<1>5. PoolCapacity - slots[p] <= 0 /\ outstanding[p] = 0
  BY <1>1, <1>3, <1>4, FS_EmptySet DEF PoolInv, Balanced
<1> QED BY <1>1, <1>2, <1>5, PoolAssumption

=============================================================================
