------------------------- MODULE ControlPlaneProofs --------------------------
(***************************************************************************)
(* For any users, tenants, roles, rows and number of concurrent requests:  *)
(* platform authority comes from platform authority only, a user has one   *)
(* role, histories and published events follow the rows, and a tenant's    *)
(* requests stay in the tenant.                                            *)
(***************************************************************************)
EXTENDS ControlPlane, FiniteSetTheorems, TLAPS

\* The request of a thread that runs, and what its position says about it.
Position(t) ==
  /\ pc[t] \notin {"idle", "done"} => req[t] \in Requests
  /\ pc[t] \in {"roles", "blocked", "assign"} => SetsRole(t)
  /\ pc[t] \in {"version", "publish"} => req[t].op \in RowOps

\* Past its checks, a caller that is no super admin names no platform role.
Modest(t) ==
  /\ pc[t] \notin {"idle", "load", "done"} /\ ~who[t].super
  /\ req[t].op \in {"create_user", "update_user"}
  => req[t].role \notin Platform

\* Who replaces or deletes role rows holds them.
HoldsRoles(t) ==
  \/ pc[t] = "assign"
  \/ pc[t] \in {"write", "commit"} /\ SetsRole(t)
  \/ pc[t] = "commit" /\ req[t].op = "delete_user"
  => RolesKey(t) \in locks[t]

\* A user about to be created is not there, and nobody else creates it.
Creates(t) ==
  pc[t] = "commit" /\ req[t].op = "create_user" =>
    /\ <<"user", req[t].user>> \in locks[t]
    /\ ~users[req[t].user].present

\* The role rows a transaction leaves are committed ones and its own.
Replaces(t) ==
  pc[t] \in {"write", "commit"} /\ SetsRole(t) =>
    /\ StillThere(t)
    /\ newRoles[t] \subseteq users[req[t].user].roles \cup {req[t].role}

Facts(t) == Position(t) /\ Modest(t) /\ HoldsRoles(t) /\ Creates(t) /\ Replaces(t)

Exclusive == \A s, t \in Threads : s # t => locks[s] \cap locks[t] = {}

Domains == /\ DOMAIN users = Users
           /\ DOMAIN pc = Threads /\ DOMAIN req = Threads
           /\ DOMAIN who = Threads /\ DOMAIN locks = Threads
           /\ DOMAIN newRoles = Threads /\ DOMAIN seenUser = Threads

\* A user row has the columns of a user row.
Shaped ==
  \A u \in Users :
    users[u] = [present |-> users[u].present, id |-> users[u].id,
                tenant |-> users[u].tenant, roles |-> users[u].roles,
                active |-> users[u].active, superuser |-> users[u].superuser]

\* The inductive invariant.
IInv == /\ Domains
        /\ Shaped
        /\ Exclusive
        /\ AuthorityTraceable
        /\ \A t \in Threads : Facts(t)

\* A step that changes one thread and no user keeps the invariant if the
\* thread's facts hold afterwards and the locks it takes are free.
LEMMA ThreadStep ==
  ASSUME IInv, Domains', NEW t \in Threads, Facts(t)',
         UNCHANGED <<users, granted>>,
         \A k \in locks'[t] : k \in locks[t] \/ Free(t, k),
         \A s \in Threads \ {t} :
           /\ pc'[s] = pc[s] /\ req'[s] = req[s] /\ who'[s] = who[s]
           /\ locks'[s] = locks[s] /\ newRoles'[s] = newRoles[s]
           /\ seenUser'[s] = seenUser[s]
  PROVE  IInv'
  <1>1. Exclusive'
    BY DEF IInv, Exclusive, Free
  <1>2. Shaped' /\ AuthorityTraceable'
    BY DEF IInv, Shaped, AuthorityTraceable, is_super_admin
  <1>3. ASSUME NEW s \in Threads \ {t} PROVE Facts(s)'
    <2>1. Facts(s)
      BY DEF IInv
    <2> QED
      BY <2>1, <1>3 DEF Facts, Position, Modest, HoldsRoles, Creates, Replaces,
                        SetsRole, StillThere, RolesKey
  <1> QED
    BY <1>1, <1>2, <1>3 DEF IInv

\* What LoadUser lets through.
LEMMA LoadedIsModest ==
  ASSUME NEW t \in Threads, req[t] \in Requests, MayLoadUser(t),
         req[t].op \in {"create_user", "update_user"}, ~who[t].super
  PROVE  req[t].role \notin Platform
  BY PlaneAssumption DEF MayLoadUser, MayCreateUser, MayUpdateUser

\* Every step but a commit to a user.
LEMMA LocalSteps ==
  ASSUME IInv, NEW t \in Threads,
         \/ \E r \in Requests : Begin(t, r)
         \/ Refuse(t) \/ LoadUser(t) \/ LoadRow(t) \/ RefuseLoad(t)
         \/ ClearRoles(t) \/ Unblock(t) \/ AssignRole(t)
         \/ Write(t) \/ WriteFails(t) \/ AddVersion(t) \/ AddVersionFails(t)
         \/ Publish(t) \/ CommitFails(t)
  PROVE  IInv'
  <1> USE DEF Facts, Position, Modest, HoldsRoles, Creates, Replaces, SetsRole,
              StillThere, RolesKey
  <1>0. Domains /\ Facts(t)
    BY DEF IInv
  <1>1. CASE \E r \in Requests : Begin(t, r)
    <2>1. PICK r \in Requests : Begin(t, r)
      BY <1>1
    <2>2. Domains' /\ Facts(t)'
      BY <2>1, <1>0 DEF Begin, Domains, tables
    <2> QED
      BY <2>1, <2>2, <1>0, ThreadStep DEF Begin, Domains, tables, past
  <1>2. ASSUME Fail(t), UNCHANGED granted PROVE IInv'
    <2>1. Domains' /\ Facts(t)'
      BY <1>2, <1>0 DEF Fail, Domains, tables
    <2> QED
      BY <2>1, <1>2, <1>0, ThreadStep DEF Fail, Domains, tables
  <1>3. CASE Refuse(t) \/ RefuseLoad(t) \/ WriteFails(t) \/ AddVersionFails(t) \/ CommitFails(t)
    BY <1>2, <1>3 DEF Refuse, RefuseLoad, WriteFails, AddVersionFails, CommitFails, past
  <1>4. CASE LoadUser(t)
    <2>1. /\ pc[t] = "load" /\ req[t] \in Requests
          /\ req[t].op \in UserOps => MayLoadUser(t)
      BY <1>4, <1>0 DEF LoadUser
    <2>2. Domains'
      BY <1>4, <1>0 DEF LoadUser, Domains, tables
    <2>3. Modest(t)'
      BY <1>4, <2>1, <1>0, LoadedIsModest DEF LoadUser, Domains, UserOps
    <2>4. Position(t)' /\ HoldsRoles(t)' /\ Creates(t)' /\ Replaces(t)'
      BY <1>4, <2>1, <1>0 DEF LoadUser, Domains
    <2> QED
      BY <2>2, <2>3, <2>4, <1>4, <1>0, ThreadStep DEF LoadUser, Domains, tables, past
  <1>5. CASE LoadRow(t)
    <2>1. Domains' /\ Facts(t)'
      BY <1>5, <1>0 DEF LoadRow, Domains, tables, RowOps
    <2> QED
      BY <2>1, <1>5, <1>0, ThreadStep DEF LoadRow, Domains, tables, past
  <1>6. CASE ClearRoles(t)
    <2>1. Domains' /\ Facts(t)'
      BY <1>6, <1>0 DEF ClearRoles, Domains, tables
    <2> QED
      BY <2>1, <1>6, <1>0, ThreadStep DEF ClearRoles, Domains, tables
  <1>7. CASE Unblock(t)
    <2>1. Domains' /\ Facts(t)'
      BY <1>7, <1>0 DEF Unblock, Domains, tables
    <2> QED
      BY <2>1, <1>7, <1>0, ThreadStep DEF Unblock, Domains, tables, past
  <1>8. CASE AssignRole(t)
    <2>1. CASE Fail(t)
      BY <2>1, <1>2, <1>8 DEF AssignRole, past
    <2>2. CASE ~Fail(t)
      <3>1. Domains' /\ Facts(t)'
        BY <1>8, <2>2, <1>0 DEF AssignRole, Domains, tables
      <3> QED
        BY <3>1, <1>8, <2>2, <1>0, ThreadStep DEF AssignRole, Domains, tables, past
    <2> QED
      BY <2>1, <2>2
  <1>9. CASE Write(t)
    <2>1. /\ pc[t] = "write"
          /\ req[t].op = "create_user" =>
               <<"user", req[t].user>> \in Keys(t) /\ ~users[req[t].user].present
          /\ req[t].op = "delete_user" => RolesKey(t) \in Keys(t)
      BY <1>9 DEF Write, CanWrite, Keys, Lock, Violates
    <2>2. \A k \in Keys(t) : Free(t, k)
      BY <1>9 DEF Write, CanWrite
    <2>3. Domains' /\ Facts(t)'
      BY <1>9, <2>1, <1>0 DEF Write, Domains, tables
    <2> QED
      BY <2>2, <2>3, <1>9, <1>0, ThreadStep DEF Write, Domains, tables, past
  <1>10. CASE Publish(t)
    <2>1. Domains' /\ Facts(t)'
      BY <1>10, <1>0 DEF Publish, Domains, tables, RowOps
    <2> QED
      BY <2>1, <1>10, <1>0, ThreadStep DEF Publish, Domains, tables
  <1>11. CASE AddVersion(t)
    <2>1. Domains' /\ Facts(t)'
      BY <1>11, <1>0 DEF AddVersion, CanAdd, Domains, tables, RowOps
    <2>2. Free(t, RefKey(PkOf(t), t)) /\ locks'[t] = locks[t] \cup {RefKey(PkOf(t), t)}
      BY <1>11, <1>0 DEF AddVersion, CanAdd, Domains
    <2> QED
      BY <2>1, <2>2, <1>11, <1>0, ThreadStep DEF AddVersion, Domains, tables
  <1> QED
    BY <1>1, <1>3, <1>4, <1>5, <1>6, <1>7, <1>8, <1>9, <1>10, <1>11

\* A commit to a user: its authority, if any, was granted.
LEMMA CommittedAuthority ==
  ASSUME IInv, NEW t \in Threads, pc[t] = "commit", req[t].op \in UserOps,
         is_super_admin(UserAfter(t)), ~who[t].super
  PROVE  req[t].user \in granted
  <1> DEFINE u == req[t].user
  <1>0. Facts(t) /\ req[t] \in Requests /\ u \in Users
    BY PlaneAssumption DEF IInv, Facts, Position, UserRequest
  <1>1. is_super_admin(users[u]) => u \in granted
    BY <1>0 DEF IInv, AuthorityTraceable
  <1>2. req[t].op \in {"create_user", "update_user"} => req[t].role \notin Platform
    BY <1>0 DEF Facts, Modest
  <1>3. req[t].op # "create_user"
    BY <1>2 DEF UserAfter, is_super_admin
  <1>4. ~(req[t].op = "delete_user" /\ StillThere(t))
    BY DEF UserAfter, is_super_admin, NoUser
  <1>5. CASE req[t].op = "update_user" /\ StillThere(t)
    <2>1. /\ UserAfter(t).superuser = users[u].superuser
          /\ UserAfter(t).roles = IF SetsRole(t) THEN newRoles[t] ELSE users[u].roles
      BY <1>5, <1>0 DEF UserAfter, IInv, Shaped
    <2>2. SetsRole(t) => newRoles[t] \subseteq users[u].roles \cup {req[t].role}
      BY <1>0 DEF Facts, Replaces
    <2>3. is_super_admin(users[u])
      BY <2>1, <2>2, <1>2, <1>5 DEF is_super_admin
    <2> QED
      BY <2>3, <1>1
  <1>6. CASE ~(req[t].op = "update_user" /\ StillThere(t))
    BY <1>1, <1>3, <1>4, <1>6 DEF UserAfter
  <1> QED
    BY <1>5, <1>6

\* A commit leaves the facts of the other requests alone: what they hold, it
\* cannot have changed.
LEMMA CommitKeepsOthers ==
  ASSUME IInv, NEW t \in Threads, Commit(t), NEW s \in Threads \ {t}
  PROVE  Facts(s)'
  <1>0. /\ Facts(s) /\ Facts(t) /\ Domains
        /\ locks[s] \cap locks[t] = {}
        /\ pc[t] = "commit" /\ req[t] \in Requests
    BY DEF IInv, Exclusive, Commit, CommitUser, CommitTenant, CommitRow, Facts,
           Position
  <1>1. /\ pc'[s] = pc[s] /\ req'[s] = req[s] /\ who'[s] = who[s]
        /\ locks'[s] = locks[s] /\ newRoles'[s] = newRoles[s]
        /\ seenUser'[s] = seenUser[s]
    BY <1>0 DEF Commit, Domains
  <1>2. CASE users' = users
    BY <1>0, <1>1, <1>2 DEF Facts, Position, Modest, HoldsRoles, Creates, Replaces,
                            SetsRole, StillThere, RolesKey
  <1>3. CASE users' # users
    <2> DEFINE u == req[t].user
               v == req[s].user
    <2>1. /\ req[t].op \in UserOps /\ u \in Users
          /\ users' = [users EXCEPT ![u] = UserAfter(t)]
      BY <1>3, <1>0, PlaneAssumption
         DEF Commit, CommitUser, CommitTenant, CommitRow, UserRequest
    <2>2. Position(s)' /\ Modest(s)' /\ HoldsRoles(s)'
      BY <1>0, <1>1 DEF Facts, Position, Modest, HoldsRoles, SetsRole, RolesKey
    <2>3. CASE v # u
      BY <2>1, <2>2, <2>3, <1>0, <1>1
         DEF Facts, Creates, Replaces, SetsRole, StillThere, Domains
    <2>4. CASE v = u
      <3>1. users'[u] = UserAfter(t)
        BY <2>1, <1>0 DEF Domains
      <3>2. Creates(s)'
        <4> SUFFICES ASSUME pc[s] = "commit", req[s].op = "create_user"
                     PROVE  ~users'[u].present
          BY <1>0, <1>1, <2>4 DEF Facts, Creates
        <4>1. ~users[u].present /\ <<"user", u>> \in locks[s]
          BY <1>0, <2>4 DEF Facts, Creates
        <4>2. req[t].op # "create_user"
          BY <4>1, <1>0 DEF Facts, Creates
        <4> QED
          BY <3>1, <4>1, <4>2 DEF UserAfter, NoUser, StillThere
      <3>3. Replaces(s)'
        <4> SUFFICES ASSUME pc[s] \in {"write", "commit"}, SetsRole(s)
                     PROVE  /\ users'[u].present /\ users'[u].id = users[u].id
                            /\ users'[u].roles = users[u].roles
          BY <1>0, <1>1, <2>4 DEF Facts, Replaces, SetsRole, StillThere
        <4>1. StillThere(s) /\ RolesKey(s) \in locks[s]
          BY <1>0 DEF Facts, Replaces, HoldsRoles
        <4>2. req[t].op # "create_user"
          BY <4>1, <1>0, <2>4 DEF Facts, Creates, StillThere
        <4>3. StillThere(t) => RolesKey(t) = RolesKey(s)
          BY <4>1, <2>4 DEF StillThere, RolesKey
        <4>4. ~(req[t].op = "delete_user" /\ StillThere(t)) /\ ~SetsRole(t)
          BY <4>1, <4>3, <1>0 DEF Facts, HoldsRoles, Replaces
        <4> QED
          BY <3>1, <4>1, <4>2, <4>4, <2>1, <2>4 DEF UserAfter, IInv, Shaped, StillThere
      <3> QED
        BY <2>2, <3>2, <3>3 DEF Facts
    <2> QED
      BY <2>3, <2>4
  <1> QED
    BY <1>2, <1>3

\* Commits.
LEMMA CommitStep ==
  ASSUME IInv, NEW t \in Threads, Commit(t)
  PROVE  IInv'
  <1>0. Domains /\ Facts(t) /\ pc[t] = "commit"
    BY DEF IInv, Commit, CommitUser, CommitTenant, CommitRow
  <1>1. Domains'
    BY <1>0 DEF Commit, CommitUser, CommitTenant, CommitRow, Domains
  <1>2. Exclusive'
    BY <1>0 DEF IInv, Exclusive, Commit, Domains
  <1>3. Facts(t)'
    BY <1>0 DEF Commit, Domains, Facts, Position, Modest, HoldsRoles, Creates,
                Replaces, SetsRole
  <1>4. Shaped' /\ AuthorityTraceable'
    <2>1. CASE CommitUser(t)
      <3> DEFINE u == req[t].user
      <3>0. u \in Users
        BY <2>1, <1>0, PlaneAssumption DEF CommitUser, Facts, Position, UserRequest
      <3>1. \A x \in Users : users'[x] = IF x = u THEN UserAfter(t) ELSE users[x]
        BY <2>1, <1>0 DEF CommitUser, Domains
      <3>2. UserAfter(t) =
              [present |-> UserAfter(t).present, id |-> UserAfter(t).id,
               tenant |-> UserAfter(t).tenant, roles |-> UserAfter(t).roles,
               active |-> UserAfter(t).active, superuser |-> UserAfter(t).superuser]
        BY <3>0 DEF UserAfter, NoUser, IInv, Shaped
      <3>3. Shaped'
        BY <3>1, <3>2 DEF IInv, Shaped
      <3>4. is_super_admin(UserAfter(t)) => u \in granted'
        BY <2>1, <1>0, CommittedAuthority DEF CommitUser
      <3>5. \A x \in Users \ {u} : x \in granted => x \in granted'
        BY <2>1 DEF CommitUser
      <3>6. AuthorityTraceable'
        BY <3>1, <3>4, <3>5 DEF IInv, AuthorityTraceable, is_super_admin
      <3> QED
        BY <3>3, <3>6
    <2>2. CASE CommitTenant(t) \/ CommitRow(t)
      BY <2>2 DEF CommitTenant, CommitRow, past, IInv, Shaped, AuthorityTraceable,
                  is_super_admin
    <2> QED
      BY <2>1, <2>2 DEF Commit
  <1> QED
    BY <1>1, <1>2, <1>3, <1>4, CommitKeepsOthers DEF IInv

\* Every step keeps the invariant.
LEMMA PlaneNext ==
  ASSUME IInv, [Next]_vars PROVE IInv'
  <1>1. CASE Next
    BY <1>1, LocalSteps, CommitStep DEF Next, Step
  <1>2. CASE UNCHANGED vars
    BY <1>2 DEF vars, tables, local, past, IInv, Domains, Shaped, Exclusive,
                AuthorityTraceable, is_super_admin, Facts, Position, Modest, HoldsRoles,
                Creates, Replaces, SetsRole, StillThere, RolesKey
  <1>3. QED BY <1>1, <1>2

\* The inductive invariant holds in every reachable state.
THEOREM PlaneInvariant == Spec => []IInv
  <1>1. Init => IInv
    <2> SUFFICES ASSUME Init PROVE IInv
      OBVIOUS
    <2>1. Domains /\ Exclusive
      BY PlaneAssumption DEF Init, Domains, Exclusive
    <2>2. Shaped /\ AuthorityTraceable
      BY PlaneAssumption DEF Init, Shaped, AuthorityTraceable, UserRecords
    <2>3. \A t \in Threads : Facts(t)
      BY DEF Init, Facts, Position, Modest, HoldsRoles, Creates, Replaces
    <2> QED
      BY <2>1, <2>2, <2>3 DEF IInv
  <1>2. IInv /\ [Next]_vars => IInv'
    BY PlaneNext
  <1> QED
    BY <1>1, <1>2, PTL DEF Spec

\* User.is_super_admin: whoever is a super admin was made one by a super admin,
\* for any number of concurrent role changes, deletions and re-creations.
THEOREM AuthorityStaysTraceable == Spec => []AuthorityTraceable
  <1>1. IInv => AuthorityTraceable
    BY DEF IInv
  <1> QED
    BY <1>1, PlaneInvariant, PTL
-----------------------------------------------------------------------------
(* Types. *)

\* The caller a request authenticated.
CallerOK(t) ==
  pc[t] \notin {"idle", "done"} =>
    /\ who[t].id = req[t].by /\ who[t].id \in Users
    /\ who[t].tenant \in Tenants \cup {Absent}

TInv == /\ TypeOK /\ DOMAIN last = Pks /\ DOMAIN seenRoles = Threads
        /\ \A t \in Threads : CallerOK(t)

LEMMA RunningRequest ==
  ASSUME IInv, NEW t \in Threads, pc[t] \notin {"idle", "done"}
  PROVE  /\ req[t] \in Requests /\ req[t].by \in Users
         /\ req[t].op \in UserOps \cup TenantOps \cup RowOps
         /\ req[t].op \in UserOps => UserRequest(req[t])
         /\ req[t].op \in TenantOps => req[t].tenant \in Tenants /\ req[t].status \in Statuses
         /\ req[t].op \in RowOps => RowRequest(req[t]) /\ PkOf(t) \in Pks
  <1>1. req[t] \in Requests
    BY DEF IInv, Facts, Position
  <1>2. req[t].op \in RowOps => RowRequest(req[t])
    BY <1>1, PlaneAssumption
  <1>3. req[t].op \in RowOps => PkOf(t) \in Pks
    BY <1>2 DEF RowRequest, PkOf, Pks
  <1>4. QED BY <1>1, <1>2, <1>3, PlaneAssumption

LEMMA OwnerType ==
  ASSUME IInv, TInv, NEW t \in Threads, pc[t] \notin {"idle", "done"}, req[t].op = "create"
  PROVE  OwnerOf(t) \in Tenants \cup {Absent}
  <1>1. RowRequest(req[t]) /\ who[t].tenant \in Tenants \cup {Absent}
    BY RunningRequest DEF RowOps, TInv, CallerOK
  <1>2. Context(t) \in Tenants \cup {Absent}
    BY <1>1 DEF Context, RowRequest
  <1>3. req[t].kind \in Kinds /\ req[t].tenant \in Tenants \cup {Absent}
    BY <1>1 DEF RowRequest
  <1>4. QED BY <1>2, <1>3 DEF OwnerOf, Kinds

\* What a write makes of a row is a row.
LEMMA WrittenType ==
  ASSUME IInv, TInv, NEW t \in Threads, pc[t] \notin {"idle", "done"}, req[t].op \in RowOps
  PROVE  Written(t) \in RowRecords
  <1> DEFINE p == PkOf(t)
  <1>1. /\ req[t] \in Requests /\ RowRequest(req[t]) /\ p \in Pks /\ rows[p] \in RowRecords
        /\ who[t].id \in Users
    BY RunningRequest DEF TInv, TypeOK, CallerOK
  <1>2. CASE req[t].op = "create"
    <2>1. req[t].id \in Ids
      BY <1>1, <1>2 DEF Ids
    <2>2. Created(t) \in RowRecords
      BY <1>1, <1>2, <2>1, OwnerType DEF Created, RowRecords, RowRequest
    <2>3. QED BY <1>2, <2>2 DEF Written, Lifecycle
  <1>3. CASE req[t].op = "update"
    <2>1. Net(req[t].version, seenRow[t].version, rows[p].version) \in Nat
      BY <1>1, <1>3 DEF Net, RowRequest, RowRecords
    <2>2. Net(who[t].id, seenRow[t].by, rows[p].by) \in Users \cup {Absent}
      BY <1>1 DEF Net, RowRecords
    <2>3. (IF req[t].edits THEN t ELSE rows[p].content) \in Threads \cup {Absent}
      BY <1>1 DEF RowRecords
    <2>4. Updated(t) \in RowRecords
      BY <1>1, <2>1, <2>2, <2>3 DEF Updated, RowRecords
    <2>5. QED BY <1>3, <2>4 DEF Written, Lifecycle
  <1>4. CASE req[t].op = "delete"
    <2>1. NoRow \in RowRecords
      BY DEF NoRow, RowRecords, Kinds, Ids
    <2>2. QED BY <1>4, <2>1 DEF Written, Lifecycle
  <1>5. CASE Lifecycle(t)
    <2>1. /\ Net(Enables(t), seenRow[t].enabled, rows[p].enabled) \in BOOLEAN
          /\ Net(who[t].id, seenRow[t].by, rows[p].by) \in Users \cup {Absent}
      BY <1>1 DEF Net, Enables, RowRecords
    <2>2. Switched(t) \in RowRecords
      BY <1>1, <2>1 DEF Switched, RowRecords
    <2>3. QED BY <1>5, <2>2 DEF Written, Lifecycle
  <1>6. CASE req[t].op = "add_version"
    BY <1>1, <1>6 DEF Written, Lifecycle
  <1>7. QED BY <1>2, <1>3, <1>4, <1>5, <1>6 DEF RowOps, Lifecycle

\* What a commit makes of a user is a user.
LEMMA UserAfterType ==
  ASSUME IInv, TInv, NEW t \in Threads, pc[t] = "commit", req[t].op \in UserOps
  PROVE  req[t].user \in Users /\ UserAfter(t) \in UserRecords
  <1> DEFINE u == req[t].user
  <1>1. /\ UserRequest(req[t]) /\ u \in Users /\ users[u] \in UserRecords
        /\ who[t].tenant \in Tenants \cup {Absent} /\ newRoles[t] \subseteq Roles
    BY RunningRequest DEF TInv, TypeOK, CallerOK, UserRequest
  <1>2. CASE req[t].op = "create_user"
    BY <1>1, <1>2 DEF UserAfter, UserRecords, UserRequest
  <1>3. CASE req[t].op = "delete_user" /\ StillThere(t)
    BY <1>1, <1>3 DEF UserAfter, UserRecords, NoUser
  <1>4. CASE req[t].op = "update_user" /\ StillThere(t)
    <2> DEFINE rs == IF SetsRole(t) THEN newRoles[t] ELSE users[u].roles
               ac == Net(req[t].active, seenUser[t].active, users[u].active)
               tn == Net(req[t].tenant, seenUser[t].tenant, users[u].tenant)
    <2>1. /\ rs \subseteq Roles /\ ac \in BOOLEAN /\ tn \in Tenants \cup {Absent}
      BY <1>1, <1>4 DEF Net, UserRequest, UserRecords
    <2>2. UserAfter(t) = [users[u] EXCEPT !.roles = rs, !.active = ac, !.tenant = tn]
      BY <1>1, <1>4 DEF UserAfter, UserRecords
    <2> HIDE DEF rs, ac, tn
    <2>3. QED BY <1>1, <2>1, <2>2 DEF UserRecords
  <1>5. CASE /\ req[t].op # "create_user" /\ ~(req[t].op = "delete_user" /\ StillThere(t))
             /\ ~(req[t].op = "update_user" /\ StillThere(t))
    BY <1>1, <1>5 DEF UserAfter
  <1>6. QED BY <1>1, <1>2, <1>3, <1>4, <1>5

StepOf(t) == (\E r \in Requests : Begin(t, r)) \/ Refuse(t) \/ Step(t)

\* A request changes nothing another one has in hand.
LEMMA OthersKeep ==
  ASSUME IInv, TInv, NEW t \in Threads, StepOf(t), NEW s \in Threads, s # t
  PROVE  /\ pc'[s] = pc[s] /\ req'[s] = req[s] /\ who'[s] = who[s]
         /\ locks'[s] = locks[s] /\ newRoles'[s] = newRoles[s]
         /\ seenUser'[s] = seenUser[s] /\ seenRow'[s] = seenRow[s]
         /\ newRow'[s] = newRow[s] /\ stamp'[s] = stamp[s]
         /\ pc[s] # "blocked" => seenRoles'[s] = seenRoles[s]
  <1>1. /\ DOMAIN pc = Threads /\ DOMAIN req = Threads /\ DOMAIN who = Threads
        /\ DOMAIN locks = Threads /\ DOMAIN newRoles = Threads
        /\ DOMAIN seenUser = Threads /\ DOMAIN seenRow = Threads
        /\ DOMAIN seenRoles = Threads /\ DOMAIN newRow = Threads
        /\ DOMAIN stamp = Threads
    BY DEF IInv, Domains, TInv, TypeOK
  <1>2. CASE \E r \in Requests : Begin(t, r)
    BY <1>1, <1>2 DEF Begin
  <1>3. ASSUME Fail(t) PROVE
          /\ pc'[s] = pc[s] /\ req'[s] = req[s] /\ who'[s] = who[s]
          /\ locks'[s] = locks[s] /\ newRoles'[s] = newRoles[s]
          /\ seenUser'[s] = seenUser[s] /\ seenRow'[s] = seenRow[s]
          /\ newRow'[s] = newRow[s] /\ stamp'[s] = stamp[s]
          /\ pc[s] # "blocked" => seenRoles'[s] = seenRoles[s]
    BY <1>1, <1>3 DEF Fail
  <1>4. CASE Refuse(t) \/ RefuseLoad(t) \/ WriteFails(t) \/ AddVersionFails(t) \/ CommitFails(t)
    BY <1>3, <1>4 DEF Refuse, RefuseLoad, WriteFails, AddVersionFails, CommitFails
  <1>5. CASE LoadUser(t)
    BY <1>1, <1>5 DEF LoadUser
  <1>6. CASE LoadRow(t)
    BY <1>1, <1>6 DEF LoadRow
  <1>7. CASE ClearRoles(t)
    BY <1>1, <1>7 DEF ClearRoles
  <1>8. CASE Unblock(t)
    BY <1>1, <1>8 DEF Unblock
  <1>9. CASE AssignRole(t)
    BY <1>1, <1>3, <1>9 DEF AssignRole
  <1>10. CASE Write(t)
    BY <1>1, <1>10 DEF Write
  <1>11. CASE Publish(t)
    BY <1>1, <1>11 DEF Publish
  <1>12. CASE Commit(t)
    <2>1. pc[s] # "blocked" => seenRoles'[s] = seenRoles[s]
      BY <1>1, <1>12 DEF Commit, CommitUser, CommitTenant, CommitRow, Reinserts
    <2>2. QED BY <1>1, <1>12, <2>1 DEF Commit
  <1>13. CASE AddVersion(t)
    BY <1>1, <1>13 DEF AddVersion
  <1>14. QED
    BY <1>2, <1>4, <1>5, <1>6, <1>7, <1>8, <1>9, <1>10, <1>11, <1>12, <1>13 DEF StepOf, Step

\* Only a commit changes the tables, and only CommitRow the rows.
LEMMA TablesKeep ==
  ASSUME NEW t \in Threads, StepOf(t)
  PROVE  Commit(t) \/ (UNCHANGED <<users, tenants, rows, newest, audit>> /\
                       UNCHANGED <<granted, moved>>)
  <1>1. CASE \E r \in Requests : Begin(t, r)
    BY <1>1 DEF Begin, tables, past
  <1>2. CASE Refuse(t) \/ RefuseLoad(t) \/ WriteFails(t) \/ AddVersionFails(t) \/ CommitFails(t)
    BY <1>2 DEF Refuse, RefuseLoad, WriteFails, AddVersionFails, CommitFails, Fail, tables, past
  <1>3. CASE LoadUser(t) \/ LoadRow(t)
    BY <1>3 DEF LoadUser, LoadRow, tables, past
  <1>4. CASE ClearRoles(t) \/ Unblock(t) \/ AssignRole(t)
    BY <1>4 DEF ClearRoles, Unblock, AssignRole, Fail, tables, past
  <1>5. CASE Write(t) \/ AddVersion(t) \/ Publish(t)
    BY <1>5 DEF Write, AddVersion, Publish, tables, past
  <1>6. QED BY <1>1, <1>2, <1>3, <1>4, <1>5 DEF StepOf, Step

\* The caller and the request stay the same once the request has begun.
LEMMA RequestKeeps ==
  ASSUME IInv, NEW t \in Threads, StepOf(t)
  PROVE  \/ \E r \in Requests : Begin(t, r)
         \/ req'[t] = req[t] /\ who'[t] = who[t] /\ (pc[t] = "idle" => pc'[t] = "done")
  <1>1. DOMAIN pc = Threads
    BY DEF IInv, Domains
  <1>2. CASE Refuse(t) \/ RefuseLoad(t) \/ WriteFails(t) \/ AddVersionFails(t) \/ CommitFails(t)
    BY <1>1, <1>2 DEF Refuse, RefuseLoad, WriteFails, AddVersionFails, CommitFails, Fail
  <1>3. CASE LoadUser(t) \/ LoadRow(t)
    BY <1>3 DEF LoadUser, LoadRow
  <1>4. CASE ClearRoles(t) \/ Unblock(t) \/ AssignRole(t)
    BY <1>4 DEF ClearRoles, Unblock, AssignRole, Fail
  <1>5. CASE Write(t) \/ AddVersion(t) \/ Publish(t)
    BY <1>5 DEF Write, CanWrite, AddVersion, CanAdd, Publish
  <1>6. CASE Commit(t)
    BY <1>6 DEF Commit, CommitUser, CommitTenant, CommitRow
  <1>7. QED BY <1>2, <1>3, <1>4, <1>5, <1>6 DEF StepOf, Step

LEMMA VersionRowType ==
  ASSUME IInv, TInv, NEW t \in Threads, pc[t] = "commit", req[t].op \in RowOps
  PROVE  VersionRow(t) \in VersionRecords
  <1>1. newRow[t] \in RowRecords /\ RowRequest(req[t]) /\ stamp[t] \in Nat
    BY RunningRequest DEF TInv, TypeOK
  <1>2. (IF req[t].op = "add_version" THEN req[t].version ELSE newRow[t].version) \in Nat
    BY <1>1 DEF RowRecords, RowRequest
  <1>3. (IF req[t].op = "add_version" THEN t ELSE newRow[t].content) \in Threads \cup {Absent}
    BY <1>1 DEF RowRecords
  <1>4. QED BY <1>1, <1>2, <1>3 DEF VersionRow, VersionRecords

LEMMA TypesStep ==
  ASSUME IInv, TInv, IInv', NEW t \in Threads, StepOf(t)
  PROVE  TInv'
  <1>1. /\ users' \in [Users -> UserRecords]
        /\ tenants' \in [Tenants -> Statuses \cup {Absent}]
        /\ rows' \in [Pks -> RowRecords] /\ newest' \in [Pks -> VersionRecords]
        /\ audit' \subseteq Threads /\ granted' \subseteq Users /\ moved' \subseteq Users
    <2>1. CASE UNCHANGED <<users, tenants, rows, newest, audit>> /\ UNCHANGED <<granted, moved>>
      BY <2>1 DEF TInv, TypeOK
    <2>2. CASE Commit(t) /\ CommitUser(t)
      <3>1. /\ users' = [users EXCEPT ![req[t].user] = UserAfter(t)]
            /\ UNCHANGED <<tenants, rows, newest>> /\ audit' = audit \cup {t}
            /\ granted' \subseteq granted \cup {req[t].user}
            /\ moved' \subseteq moved \cup {req[t].user}
            /\ req[t].user \in Users /\ UserAfter(t) \in UserRecords
        BY <2>2, UserAfterType DEF Commit, CommitUser
      <3>2. QED BY <3>1 DEF TInv, TypeOK
    <2>3. CASE Commit(t) /\ CommitTenant(t)
      <3>1. /\ tenants' = [tenants EXCEPT ![req[t].tenant] = req[t].status]
            /\ UNCHANGED <<users, rows, newest, granted, moved>> /\ audit' = audit \cup {t}
            /\ req[t].status \in Statuses
        BY <2>3, RunningRequest DEF Commit, CommitTenant, past
      <3>2. QED BY <3>1 DEF TInv, TypeOK
    <2>4. CASE Commit(t) /\ CommitRow(t)
      <3>1. /\ PkOf(t) \in Pks /\ newRow[t] \in RowRecords
            /\ VersionRow(t) \in VersionRecords
        BY <2>4, RunningRequest, VersionRowType DEF CommitRow, TInv, TypeOK
      <3>2. UNCHANGED <<users, tenants, granted, moved>> /\ audit' = audit \cup {t}
        BY <2>4 DEF Commit, CommitRow, past
      <3>3. rows' \in [Pks -> RowRecords]
        BY <2>4, <3>1 DEF CommitRow, TInv, TypeOK
      <3>4. newest' \in [Pks -> VersionRecords]
        <4>1. newest \in [Pks -> VersionRecords] /\ NoVersion \in VersionRecords
          BY DEF TInv, TypeOK, NoVersion, VersionRecords
        <4>2. \/ newest' = [newest EXCEPT ![PkOf(t)] = NoVersion]
              \/ newest' = [newest EXCEPT ![PkOf(t)] = VersionRow(t)]
              \/ newest' = newest
          BY <2>4 DEF CommitRow
        <4>3. QED BY <3>1, <4>1, <4>2
      <3>5. QED BY <3>2, <3>3, <3>4 DEF TInv, TypeOK
    <2>5. QED BY <2>1, <2>2, <2>3, <2>4, TablesKeep DEF Commit
  <1>2. CallerOK(t)'
    <2>1. CASE \E r \in Requests : Begin(t, r)
      <3>1. PICK r \in Requests : Begin(t, r)
        BY <2>1
      <3>2. r.by \in Users /\ users[r.by] \in UserRecords
        BY PlaneAssumption DEF TInv, TypeOK
      <3>3. req'[t] = r /\ who'[t].id = r.by /\ who'[t].tenant = users[r.by].tenant
        BY <3>1 DEF Begin, IInv, Domains
      <3>4. QED BY <3>2, <3>3 DEF CallerOK, UserRecords
    <2>2. CASE /\ req'[t] = req[t] /\ who'[t] = who[t]
               /\ pc[t] = "idle" => pc'[t] = "done"
      <3>1. pc[t] = "done" => pc'[t] \in {"idle", "done"}
        BY <2>2 DEF StepOf, Step, Refuse, RefuseLoad, WriteFails, CommitFails, LoadUser,
             LoadRow, ClearRoles, Unblock, AssignRole, Write, CanWrite, AddVersion,
             AddVersionFails, CanAdd, Publish, Commit, CommitUser, CommitTenant, CommitRow,
             Begin
      <3>2. QED BY <2>2, <3>1 DEF TInv, CallerOK
    <2>3. QED BY <2>1, <2>2, RequestKeeps
  <1>3. \A s \in Threads : CallerOK(s)'
    <2> SUFFICES ASSUME NEW s \in Threads, s # t PROVE CallerOK(s)'
      BY <1>2
    <2>1. CallerOK(s)
      BY DEF TInv
    <2>2. QED BY <2>1, OthersKeep DEF CallerOK
  <1>4. /\ seenRow' \in [Threads -> RowRecords] /\ newRow' \in [Threads -> RowRecords]
        /\ pc' \in [Threads -> {"idle", "load", "roles", "blocked", "assign", "write",
                                "version", "publish", "commit", "done"}]
        /\ newRoles' \in [Threads -> SUBSET Roles]
        /\ overlapped' \subseteq Users /\ unsettled' \subseteq Pks /\ raced' \subseteq Pks
        /\ made' \in [Pks -> Nat] /\ stamp' \in [Threads -> Nat]
        /\ DOMAIN last' = Pks /\ DOMAIN seenRoles' = Threads
    <2>0. /\ seenRow \in [Threads -> RowRecords] /\ newRow \in [Threads -> RowRecords]
          /\ pc \in [Threads -> {"idle", "load", "roles", "blocked", "assign", "write",
                                 "version", "publish", "commit", "done"}]
          /\ newRoles \in [Threads -> SUBSET Roles]
          /\ overlapped \subseteq Users /\ unsettled \subseteq Pks /\ raced \subseteq Pks
          /\ made \in [Pks -> Nat] /\ stamp \in [Threads -> Nat]
          /\ DOMAIN last = Pks /\ DOMAIN seenRoles = Threads
      BY DEF TInv, TypeOK
    <2>1. CASE \E r \in Requests : Begin(t, r)
      BY <2>0, <2>1 DEF Begin, past
    <2>2. CASE Refuse(t) \/ RefuseLoad(t) \/ WriteFails(t) \/ AddVersionFails(t)
      BY <2>0, <2>2 DEF Refuse, RefuseLoad, WriteFails, AddVersionFails, Fail, past
    <2>3. CASE CommitFails(t)
      <3>1. req[t].op \in RowOps => PkOf(t) \in Pks
        BY <2>3, RunningRequest DEF CommitFails
      <3>2. QED BY <2>0, <2>3, <3>1 DEF CommitFails, Fail
    <2>4. CASE LoadUser(t)
      BY <2>0, <2>4 DEF LoadUser, past
    <2>5. CASE LoadRow(t)
      <3>1. PkOf(t) \in Pks /\ rows[PkOf(t)] \in RowRecords
        BY <2>5, RunningRequest DEF LoadRow, TInv, TypeOK
      <3>2. QED BY <2>0, <2>5, <3>1 DEF LoadRow, past
    <2>6. CASE ClearRoles(t)
      <3>1. req[t].user \in Users
        BY <2>6, RunningRequest DEF ClearRoles, IInv, Facts, Position, SetsRole, UserOps,
                                    UserRequest
      <3>2. QED BY <2>0, <2>6, <3>1 DEF ClearRoles
    <2>7. CASE Unblock(t)
      BY <2>0, <2>7 DEF Unblock, past
    <2>8. CASE AssignRole(t)
      <3>1. CASE Fail(t)
        BY <2>0, <2>8, <3>1 DEF AssignRole, Fail, past
      <3>2. CASE ~Fail(t)
        <4>1. SetsRole(t) /\ UserRequest(req[t])
          BY <2>8, RunningRequest DEF AssignRole, IInv, Facts, Position, SetsRole, UserOps
        <4>2. req[t].role \in Roles /\ users[req[t].user].roles \subseteq Roles
          BY <4>1 DEF SetsRole, UserRequest, TInv, TypeOK, UserRecords
        <4>3. QED BY <2>0, <2>8, <3>2, <4>2 DEF AssignRole, past
      <3>3. QED BY <3>1, <3>2
    <2>9. CASE Write(t)
      <3>1. req[t].op \in RowOps => Written(t) \in RowRecords
        BY <2>9, WrittenType DEF Write, CanWrite
      <3>2. QED BY <2>0, <2>9, <3>1 DEF Write, past
    <2>10. CASE Publish(t)
      <3>1. PkOf(t) \in Pks
        BY <2>10, RunningRequest DEF Publish, IInv, Facts, Position
      <3>2. QED BY <2>0, <2>10, <3>1 DEF Publish
    <2>11. CASE Commit(t)
      BY <2>0, <2>11 DEF Commit, CommitUser, CommitTenant, CommitRow, past
    <2>12. CASE AddVersion(t)
      <3>1. PkOf(t) \in Pks
        BY <2>12, RunningRequest DEF AddVersion, CanAdd, IInv, Facts, Position
      <3>2. made[PkOf(t)] + 1 \in Nat
        BY <2>0, <3>1
      <3>3. made' \in [Pks -> Nat] /\ stamp' \in [Threads -> Nat]
        BY <2>0, <2>12, <3>1, <3>2 DEF AddVersion
      <3>4. QED BY <2>0, <2>12, <3>1, <3>3 DEF AddVersion
    <2>13. QED
      BY <2>1, <2>2, <2>3, <2>4, <2>5, <2>6, <2>7, <2>8, <2>9, <2>10, <2>11, <2>12
      DEF StepOf, Step
  <1>5. QED BY <1>1, <1>3, <1>4 DEF TInv, TypeOK
-----------------------------------------------------------------------------
(* One role per user. *)

\* An id is that of a request that has ended.
Ended(id) == id \in Threads => pc[id] = "done"
IdsEnded == /\ \A u \in Users : Ended(users[u].id)
            /\ \A t \in Threads : Ended(seenUser[t].id)

\* A role change that did not overlap another one found all the role rows
\* there are, and leaves its own only.
RoleFacts(t) ==
  LET u == req[t].user
  IN  /\ pc[t] = "blocked" => u \in overlapped
      /\ pc[t] = "assign" /\ StillThere(t) /\ u \notin overlapped =>
           users[u].roles \subseteq seenRoles[t]
      /\ pc[t] \in {"write", "commit"} /\ SetsRole(t) /\ u \notin overlapped =>
           newRoles[t] \subseteq {req[t].role}

OneRole == \A u \in Users : u \notin overlapped => \A x, y \in users[u].roles : x = y

RInv == IdsEnded /\ OneRole /\ \A t \in Threads : RoleFacts(t)

\* A request that has ended does nothing more.
LEMMA DoneStays ==
  ASSUME IInv, TInv, NEW t \in Threads, StepOf(t)
  PROVE  pc[t] # "done" /\ \A s \in Threads : pc[s] = "done" => pc'[s] = "done"
  <1>1. pc[t] # "done"
    BY DEF StepOf, Step, Refuse, RefuseLoad, WriteFails, CommitFails, LoadUser, LoadRow,
           ClearRoles, Unblock, AssignRole, Write, CanWrite, AddVersion, AddVersionFails,
           CanAdd, Publish, Commit, CommitUser, CommitTenant, CommitRow, Begin
  <1>2. QED BY <1>1, OthersKeep

\* What a commit does to the user it is about.
LEMMA CommittedUser ==
  ASSUME IInv, TInv, NEW t \in Threads, Commit(t)
  PROVE  \/ users' = users
         \/ /\ req[t].op \in UserOps /\ req[t].user \in Users
            /\ users' = [users EXCEPT ![req[t].user] = UserAfter(t)]
            /\ DOMAIN users = Users
            /\ \/ /\ req[t].op = "create_user" /\ ~users[req[t].user].present
                  /\ UserAfter(t).id = t /\ UserAfter(t).roles = {req[t].role}
                  /\ UserAfter(t).tenant = IF who[t].super THEN req[t].tenant
                                           ELSE who[t].tenant
               \/ req[t].op = "delete_user" /\ StillThere(t) /\ UserAfter(t) = NoUser
               \/ /\ req[t].op = "update_user" /\ StillThere(t)
                  /\ UserAfter(t).present /\ UserAfter(t).id = users[req[t].user].id
                  /\ UserAfter(t).roles = IF SetsRole(t) THEN newRoles[t]
                                          ELSE users[req[t].user].roles
                  /\ UserAfter(t).tenant = Net(req[t].tenant, seenUser[t].tenant,
                                               users[req[t].user].tenant)
  <1> DEFINE u == req[t].user
  <1>1. pc[t] = "commit" /\ (users' = users \/ CommitUser(t))
    BY DEF Commit, CommitUser, CommitTenant, CommitRow
  <1>2. CASE CommitUser(t)
    <2>1. /\ req[t].op \in UserOps /\ u \in Users /\ DOMAIN users = Users
          /\ users' = [users EXCEPT ![u] = UserAfter(t)] /\ users[u] \in UserRecords
      BY <1>1, <1>2, UserAfterType DEF CommitUser, TInv, TypeOK
    <2>2. CASE req[t].op = "create_user"
      <3>1. ~users[u].present
        BY <1>1, <2>2 DEF IInv, Facts, Creates
      <3>2. QED BY <2>1, <2>2, <3>1 DEF UserAfter
    <2>3. CASE req[t].op = "delete_user" /\ StillThere(t)
      BY <2>1, <2>3 DEF UserAfter
    <2>4. CASE req[t].op = "update_user" /\ StillThere(t)
      BY <2>1, <2>4 DEF UserAfter, UserRecords, StillThere
    <2>5. CASE /\ req[t].op # "create_user" /\ ~(req[t].op = "delete_user" /\ StillThere(t))
               /\ ~(req[t].op = "update_user" /\ StillThere(t))
      <3>1. UserAfter(t) = users[u]
        BY <2>5 DEF UserAfter
      <3>2. QED BY <2>1, <3>1 DEF TInv, TypeOK
    <2>6. QED BY <2>2, <2>3, <2>4, <2>5
  <1>3. QED BY <1>1, <1>2

LEMMA IdsStep ==
  ASSUME IInv, TInv, RInv, NEW t \in Threads, StepOf(t)
  PROVE  IdsEnded'
  <1>1. /\ \A s \in Threads : pc[s] = "done" => pc'[s] = "done"
        /\ \A u \in Users : users[u].id \in Threads => pc[users[u].id] = "done"
        /\ \A s \in Threads : seenUser[s].id \in Threads => pc[seenUser[s].id] = "done"
    BY DoneStays DEF RInv, IdsEnded, Ended
  <1>2. ASSUME NEW u \in Users PROVE users'[u].id \in Threads => pc'[users'[u].id] = "done"
    <2>1. CASE users' = users
      BY <1>1, <2>1
    <2>2. CASE users' # users
      <3>1. Commit(t)
        BY <2>2, TablesKeep
      <3>2. CASE u # req[t].user
        BY <1>1, <2>2, <3>1, <3>2, CommittedUser
      <3>3. CASE u = req[t].user
        <4>1. users'[u] = UserAfter(t)
          BY <2>2, <3>1, <3>3, CommittedUser
        <4>2. pc'[t] = "done"
          BY <3>1 DEF Commit, IInv, Domains
        <4>3. UserAfter(t).id \in {t, Absent, users[u].id}
          BY <2>2, <3>1, <3>3, CommittedUser DEF NoUser
        <4>4. QED BY <1>1, <4>1, <4>2, <4>3, PlaneAssumption
      <3>4. QED BY <3>2, <3>3
    <2>3. QED BY <2>1, <2>2
  <1>3. ASSUME NEW s \in Threads
        PROVE  seenUser'[s].id \in Threads => pc'[seenUser'[s].id] = "done"
    <2>1. CASE seenUser'[s] = seenUser[s]
      BY <1>1, <2>1
    <2>2. CASE seenUser'[s] # seenUser[s]
      <3>1. s = t /\ LoadUser(t)
        <4>1. s = t
          BY <2>2, OthersKeep
        <4>2. QED
          BY <2>2, <4>1 DEF StepOf, Step, Refuse, RefuseLoad, WriteFails, CommitFails, Fail,
             LoadRow, ClearRoles, Unblock, AssignRole, Write, AddVersion, AddVersionFails,
             Publish, Commit, Begin
      <3>2. req[t].op \in UserOps /\ seenUser'[t] = users[req[t].user]
        BY <2>2, <3>1 DEF LoadUser, IInv, Domains
      <3>3. req[t].user \in Users
        BY <3>1, <3>2, RunningRequest DEF LoadUser, UserRequest
      <3>4. QED BY <1>1, <3>1, <3>2, <3>3
    <2>3. QED BY <2>1, <2>2
  <1>4. QED BY <1>2, <1>3 DEF IdsEnded, Ended

LEMMA RolesStep ==
  ASSUME IInv, TInv, RInv, NEW t \in Threads, StepOf(t)
  PROVE  RInv'
  <1>1. overlapped \subseteq overlapped'
    BY DEF StepOf, Step, Refuse, RefuseLoad, WriteFails, CommitFails, LoadUser, LoadRow,
           ClearRoles, Unblock, AssignRole, Write, AddVersion, AddVersionFails, Publish,
           Commit, CommitUser, CommitTenant, CommitRow, Begin, past
  <1>2. CASE Commit(t)
    <2> DEFINE u == req[t].user
    <2>1. pc[t] = "commit" /\ pc'[t] = "done" /\ overlapped' = overlapped
      BY <1>2 DEF Commit, CommitUser, CommitTenant, CommitRow, past, IInv, Domains
    <2>2. OneRole'
      <3> SUFFICES ASSUME NEW v \in Users, v \notin overlapped,
                          NEW x \in users'[v].roles, NEW y \in users'[v].roles
                   PROVE  x = y
        BY <2>1 DEF OneRole
      <3>1. CASE users'[v] = users[v]
        BY <3>1 DEF RInv, OneRole
      <3>2. CASE users'[v] # users[v]
        <4>1. v = u /\ users'[v] = UserAfter(t)
          BY <1>2, <3>2, CommittedUser
        <4>2. SetsRole(t) => newRoles[t] \subseteq {req[t].role}
          BY <2>1, <4>1 DEF RInv, RoleFacts
        <4>3. \/ UserAfter(t).roles = {} \/ UserAfter(t).roles \subseteq {req[t].role}
              \/ UserAfter(t).roles = users[v].roles
          BY <1>2, <3>2, <4>1, <4>2, CommittedUser DEF NoUser
        <4>4. QED BY <4>1, <4>3 DEF RInv, OneRole
      <3>3. QED BY <3>1, <3>2
    <2>3. RoleFacts(t)'
      BY <2>1 DEF RoleFacts
    <2>4. ASSUME NEW s \in Threads, s # t PROVE RoleFacts(s)'
      <3>0. /\ pc'[s] = pc[s] /\ req'[s] = req[s] /\ newRoles'[s] = newRoles[s]
            /\ seenUser'[s] = seenUser[s]
            /\ pc[s] # "blocked" => seenRoles'[s] = seenRoles[s]
        BY <2>4, OthersKeep
      <3>1. RoleFacts(s)
        BY DEF RInv
      <3>2. ASSUME pc[s] = "assign", req[s].user \notin overlapped,
                   users'[req[s].user].present, users'[req[s].user].id = seenUser[s].id
            PROVE  users'[req[s].user].roles \subseteq seenRoles[s]
        <4>1. CASE users'[req[s].user] = users[req[s].user]
          BY <3>1, <3>2, <4>1 DEF RoleFacts, StillThere
        <4>2. CASE users'[req[s].user] # users[req[s].user]
          <5>1. req[s].user = u /\ users'[u] = UserAfter(t)
            <6>1. req[s].user \in Users
              BY <3>2, RunningRequest
              DEF IInv, Facts, Position, SetsRole, UserOps, UserRequest
            <6>2. QED BY <1>2, <4>2, <6>1, CommittedUser
          <5>2. seenUser[s].id # t
            BY <2>1 DEF RInv, IdsEnded, Ended
          <5>3. /\ req[t].op = "update_user" /\ StillThere(t)
                /\ UserAfter(t).id = users[u].id
                /\ UserAfter(t).roles = IF SetsRole(t) THEN newRoles[t] ELSE users[u].roles
            <6>1. UserAfter(t).id # t /\ UserAfter(t).present
              BY <3>2, <5>1, <5>2
            <6>2. UserAfter(t) # NoUser
              BY <6>1 DEF NoUser
            <6>3. users' # users
              BY <4>2
            <6>4. QED BY <1>2, <6>1, <6>2, <6>3, CommittedUser
          <5>4. StillThere(s) /\ RolesKey(s) = RolesKey(t)
            BY <3>2, <5>1, <5>3 DEF StillThere, RolesKey
          <5>5. RolesKey(s) \in locks[s] /\ locks[s] \cap locks[t] = {}
            BY <2>4, <3>2 DEF IInv, Facts, HoldsRoles, Exclusive
          <5>6. ~SetsRole(t)
            BY <2>1, <5>4, <5>5 DEF IInv, Facts, HoldsRoles
          <5>7. QED BY <3>1, <3>2, <5>1, <5>3, <5>4, <5>6 DEF RoleFacts
        <4>3. QED BY <4>1, <4>2
      <3>3. QED BY <2>1, <3>0, <3>1, <3>2 DEF RoleFacts, StillThere, SetsRole
    <2>5. QED BY <2>2, <2>3, <2>4, IdsStep DEF RInv
  <1>3. CASE users' = users
    <2>1. OneRole'
      BY <1>1, <1>3 DEF RInv, OneRole
    <2>2. ASSUME NEW s \in Threads, s # t PROVE RoleFacts(s)'
      <3>1. RoleFacts(s)
        BY DEF RInv
      <3>2. QED BY <1>1, <1>3, <2>2, <3>1, OthersKeep DEF RoleFacts, StillThere, SetsRole
    <2>3. RoleFacts(t)'
      <3>0. /\ RoleFacts(t) /\ DOMAIN pc = Threads /\ DOMAIN newRoles = Threads
            /\ DOMAIN seenRoles = Threads
        BY DEF RInv, IInv, Domains, TInv
      <3>1. CASE \E r \in Requests : Begin(t, r)
        BY <3>0, <3>1 DEF Begin, RoleFacts
      <3>2. ASSUME Fail(t) PROVE RoleFacts(t)'
        BY <3>0, <3>2 DEF Fail, RoleFacts
      <3>3. CASE Refuse(t) \/ RefuseLoad(t) \/ WriteFails(t) \/ AddVersionFails(t) \/ CommitFails(t)
        BY <3>2, <3>3 DEF Refuse, RefuseLoad, WriteFails, AddVersionFails, CommitFails
      <3>4. CASE LoadUser(t)
        BY <3>0, <3>4 DEF LoadUser, RoleFacts, SetsRole
      <3>5. CASE LoadRow(t)
        BY <3>0, <3>5 DEF LoadRow, RoleFacts, SetsRole, RowOps
      <3>6. CASE ClearRoles(t)
        BY <1>3, <3>0, <3>6 DEF ClearRoles, RoleFacts, StillThere
      <3>7. CASE Unblock(t)
        BY <3>0, <3>7 DEF Unblock, RoleFacts, past
      <3>8. CASE AssignRole(t)
        <4>1. CASE Fail(t)
          BY <3>2, <4>1
        <4>2. CASE ~Fail(t)
          BY <3>0, <3>8, <4>2 DEF AssignRole, RoleFacts, past
        <4>3. QED BY <4>1, <4>2
      <3>9. CASE Write(t)
        BY <3>0, <3>9 DEF Write, CanWrite, RoleFacts, SetsRole, past
      <3>10. CASE Publish(t)
        BY <3>0, <3>10 DEF Publish, RoleFacts, SetsRole, IInv, Facts, Position, RowOps
      <3>11. CASE Commit(t)
        BY <3>0, <3>11 DEF Commit, RoleFacts
      <3>12. CASE AddVersion(t)
        BY <3>0, <3>12 DEF AddVersion, CanAdd, RoleFacts
      <3>13. QED
        BY <3>1, <3>3, <3>4, <3>5, <3>6, <3>7, <3>8, <3>9, <3>10, <3>11, <3>12 DEF StepOf, Step
    <2>4. QED BY <2>1, <2>2, <2>3, IdsStep DEF RInv
  <1>4. QED BY <1>2, <1>3, TablesKeep

\* Every step keeps the types and the roles.
LEMMA RolesNext ==
  ASSUME IInv, TInv, RInv, [Next]_vars PROVE TInv' /\ RInv'
  <1>1. CASE Next
    <2>1. PICK t \in Threads : StepOf(t)
      BY <1>1 DEF Next, StepOf
    <2>2. QED BY <2>1, PlaneNext, TypesStep, RolesStep
  <1>2. CASE UNCHANGED vars
    <2>1. TInv'
      BY <1>2 DEF vars, tables, local, past, TInv, TypeOK, CallerOK
    <2>2. RInv'
      BY <1>2 DEF vars, tables, local, past, RInv, IdsEnded, Ended, OneRole, RoleFacts,
                  StillThere, SetsRole
    <2>3. QED BY <2>1, <2>2
  <1>3. QED BY <1>1, <1>2

LEMMA RolesInit ==
  ASSUME Init PROVE TInv /\ RInv
  <1>1. NoRow \in RowRecords
    BY DEF NoRow, RowRecords, Kinds, Ids
  <1>2. rows \in [Pks -> RowRecords] /\ newest \in [Pks -> VersionRecords]
    <2>1. NoVersion \in VersionRecords
      BY DEF NoVersion, VersionRecords
    <2>2. \A p \in InitialPks :
            [version |-> InitialRows[p].version, content |-> InitialRows[p].content,
             at |-> 0] \in VersionRecords
      BY PlaneAssumption DEF RowRecords, VersionRecords
    <2>3. QED BY <1>1, <2>1, <2>2, PlaneAssumption DEF Init, Pks
  <1>3. TInv
    BY <1>1, <1>2, PlaneAssumption DEF Init, TInv, TypeOK, CallerOK
  <1>4. RInv
    <2>1. \A u \in Users : users[u].id = Absent /\ \A x, y \in users[u].roles : x = y
      BY PlaneAssumption DEF Init
    <2>2. \A t \in Threads : seenUser[t].id = Absent /\ pc[t] = "idle"
      BY DEF Init, NoUser
    <2>3. QED BY <2>1, <2>2, PlaneAssumption DEF RInv, IdsEnded, Ended, OneRole, RoleFacts
  <1>5. QED BY <1>3, <1>4

\* The inductive invariant of the role changes: what a request found and will
\* leave, while no other role change of the user overlaps it.
THEOREM RolesInvariant == Spec => [](TInv /\ RInv)
  <1>1. Init => TInv /\ RInv
    BY RolesInit
  <1>2. IInv /\ (TInv /\ RInv) /\ [Next]_vars => (TInv /\ RInv)'
    BY RolesNext
  <1>3. QED BY <1>1, <1>2, PlaneInvariant, PTL DEF Spec

\* M6's tables and what its requests hold in hand are well typed.
THEOREM PlaneTypes == Spec => []TypeOK
  <1>1. TInv /\ RInv => TypeOK
    BY DEF TInv
  <1>2. QED BY <1>1, RolesInvariant, PTL

\* UserRepository.clear_roles and assign_role: a user has more than one role
\* only if two role changes of it ran at the same time.
THEOREM RolesAreExplained == Spec => []RolesExplained
  <1>1. TInv /\ RInv => RolesExplained
    <2> SUFFICES ASSUME TInv, RInv, NEW u \in Users, u \notin overlapped
                 PROVE  ~(Cardinality(users[u].roles) > 1)
      BY DEF RolesExplained
    <2>1. \A x, y \in users[u].roles : x = y
      BY DEF RInv, OneRole
    <2>2. CASE users[u].roles = {}
      BY <2>2, FS_EmptySet
    <2>3. CASE users[u].roles # {}
      <3>1. PICK x \in users[u].roles : users[u].roles = {x}
        BY <2>1, <2>3
      <3>2. Cardinality({x}) = 1
        BY FS_Singleton
      <3>3. QED BY <3>1, <3>2
    <2>4. QED BY <2>2, <2>3
  <1>2. QED BY <1>1, RolesInvariant, PTL
-----------------------------------------------------------------------------
(* Rows. *)

\* A primary key exists from the commit of the request that creates the row.
Born(p) == p \in InitialPks \/ pc[p] = "done"

\* The request changes the row when it commits.
Owns(t) == req[t].op # "add_version" /\ Touches(t)

RowLoaded(t) == /\ pc[t] \in {"write", "version", "publish", "commit"}
                /\ req[t].op \in RowOps

\* Past its checks a request has a row of its kind; past its write it holds
\* the lock, so what it wrote is still what it would write.
RowFacts(t) ==
  RowLoaded(t) =>
    /\ req[t].op = "create" => rows[t] = NoRow
    /\ req[t].op # "create" =>
         /\ Born(PkOf(t))
         /\ rows[PkOf(t)].present => rows[PkOf(t)].kind = req[t].kind
    /\ pc[t] # "write" /\ Owns(t) =>
         /\ newRow[t] = Written(t)
         /\ req[t].op # "create" => <<"row", PkOf(t)>> \in locks[t]
         /\ req[t].op \notin {"create", "delete"} => rows[PkOf(t)].present

NoGhosts == \A p \in Pks : /\ rows[p] = NoRow \/ rows[p].present
                           /\ ~Born(p) => rows[p] = NoRow

RowInv == NoGhosts /\ \A t \in Threads : RowFacts(t)

\* What a request would write depends on what it has in hand and on its row.
LEMMA WrittenKeeps ==
  ASSUME NEW s \in Threads, req'[s] = req[s], who'[s] = who[s], seenRow'[s] = seenRow[s]
  PROVE  /\ PkOf(s)' = PkOf(s) /\ (Touches(s)' <=> Touches(s)) /\ (Owns(s)' <=> Owns(s))
         /\ rows'[PkOf(s)] = rows[PkOf(s)] => Written(s)' = Written(s)
  <1>1. PkOf(s)' = PkOf(s) /\ (Lifecycle(s)' <=> Lifecycle(s)) /\ Enables(s)' = Enables(s)
    BY DEF PkOf, Lifecycle, Enables
  <1>2. Touches(s)' <=> Touches(s)
    BY <1>1 DEF Touches
  <1>3. Context(s)' = Context(s)
    BY DEF Context
  <1>4. OwnerOf(s)' = OwnerOf(s)
    BY <1>3 DEF OwnerOf
  <1>5. Created(s)' = Created(s)
    BY <1>4 DEF Created
  <1>6. ASSUME rows'[PkOf(s)] = rows[PkOf(s)] PROVE Written(s)' = Written(s)
    <2>1. rows'[PkOf(s)'] = rows[PkOf(s)]
      BY <1>1, <1>6
    <2>2. Updated(s)' = Updated(s)
      BY <2>1 DEF Updated, Net
    <2>3. Switched(s)' = Switched(s)
      BY <1>1, <2>1 DEF Switched, Net
    <2>4. QED BY <1>1, <1>5, <2>1, <2>2, <2>3 DEF Written
  <1>7. QED BY <1>1, <1>2, <1>6 DEF Owns

\* What a write leaves of the row's columns.
LEMMA WrittenRow ==
  ASSUME IInv, TInv, NEW t \in Threads, pc[t] \notin {"idle", "done"}, req[t].op \in RowOps
  PROVE  /\ req[t].op = "create" =>
              /\ Written(t).present /\ Written(t).kind = req[t].kind
              /\ Written(t).tenant = OwnerOf(t)
         /\ req[t].op = "delete" => Written(t) = NoRow
         /\ req[t].op \notin {"create", "delete"} =>
              /\ Written(t).present = rows[PkOf(t)].present
              /\ Written(t).kind = rows[PkOf(t)].kind
              /\ Written(t).tenant = rows[PkOf(t)].tenant
         /\ Lifecycle(t) =>
              /\ Written(t).version = rows[PkOf(t)].version
              /\ Written(t).content = rows[PkOf(t)].content
  <1>1. rows[PkOf(t)] \in RowRecords
    BY RunningRequest DEF TInv, TypeOK
  <1>2. CASE req[t].op = "create"
    <2>1. Written(t) = Created(t)
      BY <1>2 DEF Written, Lifecycle
    <2>2. QED BY <1>2, <2>1 DEF Created, Lifecycle
  <1>3. CASE req[t].op = "delete"
    BY <1>3 DEF Written, Lifecycle
  <1>4. CASE req[t].op = "update"
    <2>1. Written(t) = Updated(t)
      BY <1>4 DEF Written, Lifecycle
    <2>2. QED BY <1>1, <1>4, <2>1 DEF Updated, Lifecycle, RowRecords
  <1>5. CASE Lifecycle(t)
    <2>1. Written(t) = Switched(t)
      BY <1>5 DEF Written, Lifecycle
    <2>2. QED BY <1>1, <1>5, <2>1 DEF Switched, Lifecycle, RowRecords
  <1>6. CASE req[t].op = "add_version"
    BY <1>6 DEF Written, Lifecycle
  <1>7. QED BY <1>2, <1>3, <1>4, <1>5, <1>6 DEF RowOps, Lifecycle

\* Two requests that own the same row never write it at the same time.
LEMMA RowConflict ==
  ASSUME IInv, RowInv, NEW s \in Threads, NEW t \in Threads, s # t,
         RowLoaded(s), RowLoaded(t), PkOf(s) = PkOf(t)
  PROVE  /\ req[s].op # "create" /\ req[t].op # "create"
         /\ ~(pc[s] # "write" /\ Owns(s) /\ pc[t] # "write" /\ Owns(t))
  <1>1. RowFacts(s) /\ RowFacts(t)
    BY DEF RowInv
  <1>2. req[s].op # "create"
    BY <1>1, PlaneAssumption DEF RowFacts, RowLoaded, PkOf, Born
  <1>3. req[t].op # "create"
    BY <1>1, PlaneAssumption DEF RowFacts, RowLoaded, PkOf, Born
  <1>4. QED BY <1>1, <1>2, <1>3 DEF RowFacts, IInv, Exclusive

\* Every step but CommitRow leaves the rows and their versions alone.
LEMMA RowsKeep ==
  ASSUME NEW t \in Threads, StepOf(t)
  PROVE  (Commit(t) /\ CommitRow(t)) \/ UNCHANGED <<rows, newest>>
  BY TablesKeep DEF Commit, CommitUser, CommitTenant

\* A request that neither begins nor ends nor loads keeps what it knows of
\* its row, if the row stays.
LEMMA RowFactsKeep ==
  ASSUME RowInv, NEW s \in Threads, RowLoaded(s),
         pc'[s] = pc[s] \/ pc[s] \in {"version", "publish"},
         req'[s] = req[s], who'[s] = who[s], seenRow'[s] = seenRow[s],
         newRow'[s] = newRow[s], locks[s] \subseteq locks'[s],
         rows'[PkOf(s)] = rows[PkOf(s)],
         \A u \in Threads : pc[u] = "done" => pc'[u] = "done",
         PkOf(s) \in Pks
  PROVE  RowFacts(s)'
  <1>1. RowFacts(s)
    BY DEF RowInv
  <1>2. /\ PkOf(s)' = PkOf(s) /\ (Owns(s)' <=> Owns(s)) /\ Written(s)' = Written(s)
    BY WrittenKeeps
  <1>3. Born(PkOf(s)) => Born(PkOf(s))'
    BY <1>2 DEF Born, Pks
  <1>4. req[s].op = "create" => PkOf(s) = s
    BY DEF PkOf
  <1>5. QED BY <1>1, <1>2, <1>3, <1>4 DEF RowFacts, RowLoaded

\* The committing request's row facts, read off.
LEMMA CommittedRow ==
  ASSUME IInv, TInv, RowInv, NEW t \in Threads, Commit(t), CommitRow(t)
  PROVE  /\ pc[t] = "commit" /\ pc'[t] = "done" /\ RowLoaded(t) /\ PkOf(t) \in Pks
         /\ RowRequest(req[t])
         /\ \A p \in Pks : p # PkOf(t) => rows'[p] = rows[p] /\ newest'[p] = newest[p]
         /\ rows'[PkOf(t)] = IF Owns(t) THEN Written(t) ELSE rows[PkOf(t)]
         /\ newest'[PkOf(t)] = IF req[t].op = "delete" THEN NoVersion
                               ELSE IF AddsVersion(t) /\ stamp[t] > newest[PkOf(t)].at
                               THEN VersionRow(t) ELSE newest[PkOf(t)]
  <1>1. /\ pc[t] = "commit" /\ pc'[t] = "done" /\ req[t].op \in RowOps
    BY DEF CommitRow, Commit, IInv, Domains
  <1>2. RowLoaded(t) /\ PkOf(t) \in Pks /\ RowRequest(req[t])
    BY <1>1, RunningRequest DEF RowLoaded
  <1>3. DOMAIN rows = Pks /\ DOMAIN newest = Pks
    BY DEF TInv, TypeOK
  <1>4. rows' = IF Owns(t) THEN [rows EXCEPT ![PkOf(t)] = newRow[t]] ELSE rows
    BY DEF CommitRow, Owns
  <1>5. Owns(t) => newRow[t] = Written(t)
    BY <1>1, <1>2 DEF RowInv, RowFacts
  <1>6. newest' = IF req[t].op = "delete" THEN [newest EXCEPT ![PkOf(t)] = NoVersion]
                  ELSE IF AddsVersion(t) /\ stamp[t] > newest[PkOf(t)].at
                  THEN [newest EXCEPT ![PkOf(t)] = VersionRow(t)] ELSE newest
    BY DEF CommitRow
  <1>7. /\ \A p \in Pks : p # PkOf(t) => rows'[p] = rows[p]
        /\ rows'[PkOf(t)] = IF Owns(t) THEN Written(t) ELSE rows[PkOf(t)]
    BY <1>2, <1>3, <1>4, <1>5
  <1>8. /\ \A p \in Pks : p # PkOf(t) => newest'[p] = newest[p]
        /\ newest'[PkOf(t)] = IF req[t].op = "delete" THEN NoVersion
                              ELSE IF AddsVersion(t) /\ stamp[t] > newest[PkOf(t)].at
                              THEN VersionRow(t) ELSE newest[PkOf(t)]
    BY <1>2, <1>3, <1>6
  <1>9. QED BY <1>1, <1>2, <1>7, <1>8

\* A commit keeps what the other requests know of their rows.
LEMMA CommitKeepsRowFacts ==
  ASSUME IInv, TInv, RowInv, NEW t \in Threads, StepOf(t), Commit(t), CommitRow(t),
         NEW s \in Threads, s # t
  PROVE  RowFacts(s)'
  <1>1. /\ pc'[s] = pc[s] /\ req'[s] = req[s] /\ who'[s] = who[s] /\ locks'[s] = locks[s]
        /\ seenRow'[s] = seenRow[s] /\ newRow'[s] = newRow[s]
        /\ \A u \in Threads : pc[u] = "done" => pc'[u] = "done"
    BY OthersKeep, DoneStays
  <1>2. CASE ~RowLoaded(s)
    BY <1>1, <1>2 DEF RowFacts, RowLoaded
  <1>3. CASE RowLoaded(s)
    <2>1. PkOf(s) \in Pks
      BY <1>3, RunningRequest DEF RowLoaded
    <2>2. CASE PkOf(s) # PkOf(t)
      BY <1>1, <1>3, <2>1, <2>2, CommittedRow, RowFactsKeep
    <2>3. CASE PkOf(s) = PkOf(t)
      <3>1. /\ req[s].op # "create" /\ req[t].op # "create" /\ RowLoaded(t) /\ pc[t] = "commit"
            /\ ~(pc[s] # "write" /\ Owns(s) /\ Owns(t)) /\ req[t].op \in RowOps
        BY <1>3, <2>3, CommittedRow, RowConflict DEF RowLoaded
      <3>2. RowFacts(s) /\ RowFacts(t)
        BY DEF RowInv
      <3>3. /\ PkOf(s)' = PkOf(s) /\ (Owns(s)' <=> Owns(s))
            /\ rows'[PkOf(s)] = rows[PkOf(s)] => Written(s)' = Written(s)
        BY <1>1, WrittenKeeps
      <3>4. Born(PkOf(s)) => Born(PkOf(s))'
        BY <1>1, <2>1, <3>3 DEF Born, Pks
      <3>5. CASE Owns(t)
        <4>1. rows'[PkOf(s)] = Written(t)
          BY <2>3, <3>5, CommittedRow
        <4>2. Written(t).present => Written(t).kind = rows[PkOf(t)].kind /\ rows[PkOf(t)].present
          BY <3>1, WrittenRow DEF NoRow
        <4>3. QED BY <1>1, <1>3, <2>3, <3>1, <3>2, <3>3, <3>4, <3>5, <4>1, <4>2
                  DEF RowFacts, RowLoaded
      <3>6. CASE ~Owns(t)
        <4>1. rows'[PkOf(s)] = rows[PkOf(s)]
          BY <2>3, <3>6, CommittedRow
        <4>2. QED BY <1>1, <1>3, <3>1, <3>2, <3>3, <3>4, <4>1 DEF RowFacts, RowLoaded
      <3>7. QED BY <3>5, <3>6
    <2>4. QED BY <2>2, <2>3
  <1>4. QED BY <1>2, <1>3

LEMMA RowsStep ==
  ASSUME IInv, TInv, RowInv, NEW t \in Threads, StepOf(t)
  PROVE  RowInv'
  <1>0. /\ \A u \in Threads : pc[u] = "done" => pc'[u] = "done"
        /\ \A p \in Pks : Born(p) => Born(p)'
    BY DoneStays DEF Born, Pks
  <1>1. CASE Commit(t) /\ CommitRow(t)
    <2>1. NoGhosts'
      <3> SUFFICES ASSUME NEW p \in Pks
                   PROVE  /\ rows'[p] = NoRow \/ rows'[p].present
                          /\ ~Born(p)' => rows'[p] = NoRow
        BY DEF NoGhosts
      <3>0. /\ rows[p] = NoRow \/ rows[p].present
            /\ ~Born(p) => rows[p] = NoRow
        BY DEF RowInv, NoGhosts
      <3>1. CASE p # PkOf(t)
        BY <1>0, <1>1, <3>0, <3>1, CommittedRow
      <3>2. CASE p = PkOf(t)
        <4>1. /\ pc[t] = "commit" /\ pc'[t] = "done" /\ req[t].op \in RowOps /\ RowFacts(t)
              /\ RowLoaded(t)
          BY <1>1, CommittedRow DEF RowLoaded, RowInv
        <4>2. Born(p)'
          BY <1>0, <3>2, <4>1 DEF RowFacts, PkOf, Born
        <4>3. CASE Owns(t)
          <5>1. rows'[p] = Written(t)
            BY <1>1, <3>2, <4>3, CommittedRow
          <5>2. Written(t) = NoRow \/ Written(t).present
            BY <4>1, <4>3, WrittenRow DEF RowFacts
          <5>3. QED BY <4>2, <5>1, <5>2
        <4>4. CASE ~Owns(t)
          BY <1>1, <3>0, <3>2, <4>2, <4>4, CommittedRow
        <4>5. QED BY <4>3, <4>4
      <3>3. QED BY <3>1, <3>2
    <2>2. RowFacts(t)'
      BY <1>1, CommittedRow DEF RowFacts, RowLoaded
    <2>3. QED BY <1>1, <2>1, <2>2, CommitKeepsRowFacts DEF RowInv
  <1>2. CASE UNCHANGED <<rows, newest>>
    <2>1. NoGhosts'
      BY <1>0, <1>2 DEF RowInv, NoGhosts
    <2>3. ASSUME NEW s \in Threads, s # t PROVE RowFacts(s)'
      <3>1. /\ pc'[s] = pc[s] /\ req'[s] = req[s] /\ who'[s] = who[s] /\ locks'[s] = locks[s]
            /\ seenRow'[s] = seenRow[s] /\ newRow'[s] = newRow[s]
        BY <2>3, OthersKeep
      <3>2. CASE ~RowLoaded(s)
        BY <3>1, <3>2 DEF RowFacts, RowLoaded
      <3>3. CASE RowLoaded(s)
        <4>1. PkOf(s) \in Pks
          BY <3>3, RunningRequest DEF RowLoaded
        <4>2. QED BY <1>0, <1>2, <3>1, <3>3, <4>1, RowFactsKeep
      <3>4. QED BY <3>2, <3>3
    <2>4. RowFacts(t)'
      <3>0. DOMAIN pc = Threads /\ Domains
        BY DEF IInv, Domains
      <3>1. CASE pc'[t] \in {"idle", "load", "done", "roles", "blocked", "assign"}
        BY <3>1 DEF RowFacts, RowLoaded
      <3>2. CASE LoadUser(t)
        <4>1. req'[t].op \notin RowOps
          BY <3>2 DEF LoadUser, UserOps, TenantOps, RowOps
        <4>2. QED BY <4>1 DEF RowFacts, RowLoaded
      <3>3. CASE AssignRole(t) /\ ~Fail(t)
        <4>1. req'[t].op \notin RowOps
          BY <3>3 DEF AssignRole, IInv, Facts, Position, SetsRole, RowOps
        <4>2. QED BY <4>1 DEF RowFacts, RowLoaded
      <3>4. CASE LoadRow(t)
        <4>1. /\ pc[t] = "load" /\ pc'[t] = "write" /\ req[t].op \in RowOps /\ MayLoadRow(t)
              /\ req'[t] = req[t] /\ PkOf(t)' = PkOf(t)
          BY <3>0, <3>4 DEF LoadRow, PkOf
        <4>2. PkOf(t) \in Pks /\ RowRequest(req[t]) /\ t \in Pks
          BY <4>1, RunningRequest DEF Pks
        <4>3. req[t].op = "create" => rows[t] = NoRow
          <5>1. ~Born(t)
            BY <4>1, PlaneAssumption DEF Born
          <5>2. QED BY <4>2, <5>1 DEF RowInv, NoGhosts
        <4>4. req[t].op # "create" => Born(PkOf(t)) /\ rows[PkOf(t)].kind = req[t].kind
          <5> SUFFICES ASSUME req[t].op # "create"
                       PROVE  Born(PkOf(t)) /\ rows[PkOf(t)].kind = req[t].kind
            OBVIOUS
          <5>1. rows[PkOf(t)].present /\ rows[PkOf(t)].kind = req[t].kind
            BY <4>1, <4>2 DEF MayLoadRow, MayAddVersion, MayChange, InScope, RowRequest, PkOf
          <5>2. rows[PkOf(t)] # NoRow
            BY <5>1 DEF NoRow
          <5>3. QED BY <4>2, <5>1, <5>2 DEF RowInv, NoGhosts
        <4>5. Born(PkOf(t)) => Born(PkOf(t))'
          BY <1>0, <4>1, <4>2 DEF Born, Pks
        <4>6. QED BY <1>2, <4>1, <4>3, <4>4, <4>5 DEF RowFacts, RowLoaded
      <3>5. CASE Write(t)
        <4>1. /\ pc[t] = "write" /\ req'[t] = req[t] /\ who'[t] = who[t]
              /\ seenRow'[t] = seenRow[t] /\ locks'[t] = locks[t] \cup Keys(t) /\ ~Violates(t)
              /\ req[t].op \in RowOps => /\ newRow'[t] = Written(t)
                                         /\ pc'[t] \in {"version", "publish"}
          BY <3>0, <3>5 DEF Write, CanWrite, Domains, TInv, TypeOK
        <4>2. /\ PkOf(t)' = PkOf(t) /\ (Owns(t)' <=> Owns(t)) /\ Written(t)' = Written(t)
          BY <1>2, <4>1, WrittenKeeps
        <4>3. CASE req[t].op \in RowOps
          <5>1. RowFacts(t) /\ RowLoaded(t) /\ PkOf(t) \in Pks
            BY <4>1, <4>3, RunningRequest DEF RowInv, RowLoaded
          <5>2. Owns(t) /\ req[t].op # "create" => <<"row", PkOf(t)>> \in Keys(t)
            BY <4>3 DEF Keys, Lock, Owns, PkOf
          <5>3. Owns(t) /\ req[t].op \notin {"create", "delete"} => rows[PkOf(t)].present
            BY <4>1, <4>3 DEF Violates, Owns, PkOf, Lifecycle, RowOps
          <5>4. Born(PkOf(t)) => Born(PkOf(t))'
            BY <1>0, <4>2, <5>1 DEF Born, Pks
          <5>5. req[t].op = "create" => PkOf(t) = t
            BY DEF PkOf
          <5>6. QED BY <1>2, <4>1, <4>2, <4>3, <5>1, <5>2, <5>3, <5>4, <5>5
                    DEF RowFacts, RowLoaded
        <4>4. CASE req[t].op \notin RowOps
          BY <4>1, <4>4 DEF RowFacts, RowLoaded
        <4>5. QED BY <4>3, <4>4
      <3>6. CASE Publish(t)
        <4>1. /\ pc[t] = "publish" /\ req'[t] = req[t] /\ who'[t] = who[t]
              /\ seenRow'[t] = seenRow[t] /\ locks'[t] = locks[t] /\ newRow'[t] = newRow[t]
              /\ req[t].op \in RowOps /\ PkOf(t) \in Pks
          BY <3>6, RunningRequest DEF Publish, IInv, Facts, Position
        <4>2. RowLoaded(t)
          BY <4>1 DEF RowLoaded
        <4>3. QED BY <1>0, <1>2, <4>1, <4>2, RowFactsKeep
      <3>7. pc'[t] = "done" \/ ~(Refuse(t) \/ RefuseLoad(t) \/ WriteFails(t) \/ AddVersionFails(t)
                                 \/ CommitFails(t) \/ Commit(t) \/ Fail(t))
        BY <3>0 DEF Refuse, RefuseLoad, WriteFails, AddVersionFails, CommitFails, Commit, Fail
      <3>8. /\ (\E r \in Requests : Begin(t, r)) => pc'[t] = "load"
            /\ ClearRoles(t) \/ Unblock(t) => pc'[t] \in {"blocked", "assign"}
        BY <3>0 DEF Begin, ClearRoles, Unblock
      <3>9. CASE AddVersion(t)
        <4>1. /\ pc[t] = "version" /\ req'[t] = req[t] /\ who'[t] = who[t]
              /\ seenRow'[t] = seenRow[t] /\ newRow'[t] = newRow[t]
              /\ req[t].op \in RowOps /\ PkOf(t) \in Pks
          BY <3>9, RunningRequest DEF AddVersion, CanAdd, IInv, Facts, Position
        <4>2. locks[t] \subseteq locks'[t]
          BY <3>0, <3>9 DEF AddVersion, Domains
        <4>3. RowLoaded(t)
          BY <4>1 DEF RowLoaded
        <4>4. QED BY <1>0, <1>2, <4>1, <4>2, <4>3, RowFactsKeep
      <3>10. QED
        BY <3>1, <3>2, <3>3, <3>4, <3>5, <3>6, <3>7, <3>8, <3>9 DEF StepOf, Step
    <2>5. QED BY <2>1, <2>3, <2>4 DEF RowInv
  <1>3. QED BY <1>1, <1>2, RowsKeep

LEMMA RowsNext ==
  ASSUME IInv, TInv, RowInv, [Next]_vars PROVE RowInv'
  <1>1. CASE Next
    <2>1. PICK t \in Threads : StepOf(t)
      BY <1>1 DEF Next, StepOf
    <2>2. QED BY <2>1, RowsStep
  <1>2. CASE UNCHANGED vars
    <2>1. NoGhosts'
      BY <1>2 DEF vars, tables, local, past, RowInv, NoGhosts, Born
    <2>2. ASSUME NEW s \in Threads PROVE RowFacts(s)'
      <3>1. /\ pc'[s] = pc[s] /\ req'[s] = req[s] /\ who'[s] = who[s] /\ locks'[s] = locks[s]
            /\ seenRow'[s] = seenRow[s] /\ newRow'[s] = newRow[s]
            /\ UNCHANGED <<rows, pc>>
        BY <1>2 DEF vars, tables, local
      <3>2. CASE ~RowLoaded(s)
        BY <3>1, <3>2 DEF RowFacts, RowLoaded
      <3>3. CASE RowLoaded(s)
        <4>1. PkOf(s) \in Pks
          BY <3>3, RunningRequest DEF RowLoaded
        <4>2. QED BY <3>1, <3>3, <4>1, RowFactsKeep
      <3>4. QED BY <3>2, <3>3
    <2>3. QED BY <2>1, <2>2 DEF RowInv
  <1>3. QED BY <1>1, <1>2

LEMMA RowsInit ==
  ASSUME Init PROVE RowInv
  <1>1. ASSUME NEW p \in Pks
        PROVE  /\ p \in InitialPks => rows[p] = InitialRows[p]
               /\ p \notin InitialPks => rows[p] = NoRow
    BY DEF Init
  <1>2. NoGhosts
    BY <1>1, PlaneAssumption DEF NoGhosts, Born
  <1>3. \A t \in Threads : RowFacts(t)
    BY DEF Init, RowFacts, RowLoaded
  <1>4. QED BY <1>2, <1>3 DEF RowInv

\* The inductive invariant of the registries: what a request past its checks,
\* and past its write, knows of its row.
THEOREM RowsInvariant == Spec => []RowInv
  <1>1. Init => RowInv
    BY RowsInit
  <1>2. IInv /\ (TInv /\ RInv) /\ RowInv /\ [Next]_vars => RowInv'
    BY RowsNext
  <1>3. QED BY <1>1, <1>2, PlaneInvariant, RolesInvariant, PTL DEF Spec
-----------------------------------------------------------------------------
(* The version rows. *)

\* The request has inserted its version row.
Inserted(t, p) ==
  /\ pc[t] \in {"publish", "commit"} /\ req[t].op \in RowOps /\ AddsVersion(t)
  /\ PkOf(t) = p

Versioned(p) == rows[p].present /\ rows[p].kind \in {"policy", "mapping"}

\* created_at grows.
Stamps(p) == /\ newest[p].at <= made[p]
             /\ \A t \in Threads : Inserted(t, p) => stamp[t] <= made[p]

\* The newest version row is the row.  One that is still to be committed is
\* older, or says the same, or belongs to the request that holds the row and
\* is the newest of all.
Dated(p) ==
  p \notin raced =>
    /\ Versioned(p) => /\ newest[p].version = rows[p].version
                       /\ newest[p].content = rows[p].content
    /\ \A t \in Threads : Inserted(t, p) /\ ~Owns(t) /\ Versioned(p) =>
         \/ stamp[t] <= newest[p].at
         \/ newRow[t].version = rows[p].version /\ newRow[t].content = rows[p].content
    /\ \A t \in Threads : Inserted(t, p) /\ Owns(t) =>
         /\ newest[p].at < stamp[t]
         /\ \A s \in Threads : Inserted(s, p) /\ s # t => stamp[s] < stamp[t]

HInv == \A p \in Pks : Stamps(p) /\ Dated(p)

\* Next to the request that holds the row there are updates without an UPDATE
\* only.
LEMMA OnlyIdle ==
  ASSUME IInv, TInv, RowInv, NEW s \in Threads, NEW t \in Threads, s # t,
         RowLoaded(s), pc[s] # "write", AddsVersion(s),
         RowLoaded(t), pc[t] # "write", AddsVersion(t), Owns(t), PkOf(s) = PkOf(t)
  PROVE  /\ req[s].op = "update" /\ ~Touches(s) /\ ~Owns(s)
         /\ <<"row", PkOf(t)>> \in locks[t]
  <1>1. req[s].op # "create" /\ req[t].op # "create" /\ ~Owns(s)
    BY RowConflict
  <1>2. RowFacts(s) /\ RowFacts(t) /\ RowRequest(req[s]) /\ RowRequest(req[t])
    BY RunningRequest DEF RowInv, RowLoaded
  <1>3. req[t].op = "update"
    BY <1>1 DEF AddsVersion, Owns
  <1>4. /\ rows[PkOf(t)].present /\ <<"row", PkOf(t)>> \in locks[t]
        /\ rows[PkOf(t)].kind = req[t].kind
    BY <1>1, <1>2, <1>3 DEF RowFacts
  <1>5. rows[PkOf(t)].kind = req[s].kind
    BY <1>1, <1>2, <1>4 DEF RowFacts
  <1>6. req[s].op # "add_version"
    BY <1>2, <1>3, <1>4, <1>5 DEF RowRequest
  <1>7. QED BY <1>1, <1>4, <1>6 DEF AddsVersion, Owns

\* A version row for a schema is none of a policy or mapping.
LEMMA SchemaVersion ==
  ASSUME IInv, RowInv, NEW t \in Threads, RowLoaded(t), req[t].op = "add_version"
  PROVE  ~Versioned(PkOf(t))
  <1>1. RowFacts(t) /\ RowRequest(req[t])
    BY RunningRequest DEF RowInv, RowLoaded
  <1>2. QED BY <1>1 DEF RowFacts, RowRequest, Versioned

\* What another request inserted stays as it is.
LEMMA InsertedKeeps ==
  ASSUME IInv, TInv, NEW t \in Threads, StepOf(t), NEW s \in Threads, s # t, NEW p \in Pks
  PROVE  /\ (Inserted(s, p)' <=> Inserted(s, p)) /\ (Owns(s)' <=> Owns(s))
         /\ stamp'[s] = stamp[s] /\ newRow'[s] = newRow[s]
  <1>1. /\ pc'[s] = pc[s] /\ req'[s] = req[s] /\ who'[s] = who[s]
        /\ seenRow'[s] = seenRow[s] /\ newRow'[s] = newRow[s] /\ stamp'[s] = stamp[s]
    BY OthersKeep
  <1>2. PkOf(s)' = PkOf(s) /\ (Owns(s)' <=> Owns(s))
    BY <1>1, WrittenKeeps
  <1>3. QED BY <1>1, <1>2 DEF Inserted, AddsVersion

\* Only the insertion and the commit matter to the version rows.
LEMMA StillSteps ==
  ASSUME IInv, TInv, NEW t \in Threads, StepOf(t), ~AddVersion(t), ~(Commit(t) /\ CommitRow(t)),
         NEW p \in Pks
  PROVE  /\ UNCHANGED <<rows, newest, made, raced>>
         /\ Inserted(t, p)' => /\ Inserted(t, p) /\ (Owns(t)' <=> Owns(t))
                               /\ stamp'[t] = stamp[t] /\ newRow'[t] = newRow[t]
  <1>0. DOMAIN pc = Threads
    BY DEF IInv, Domains
  <1>1. UNCHANGED <<rows, newest>>
    BY RowsKeep
  <1>2. CASE \E r \in Requests : Begin(t, r)
    BY <1>0, <1>1, <1>2 DEF Begin, past, Inserted
  <1>3. CASE Refuse(t) \/ RefuseLoad(t) \/ WriteFails(t) \/ AddVersionFails(t) \/ CommitFails(t)
    BY <1>0, <1>1, <1>3 DEF Refuse, RefuseLoad, WriteFails, AddVersionFails, CommitFails, Fail,
                            past, Inserted
  <1>4. CASE LoadUser(t) \/ LoadRow(t)
    BY <1>0, <1>1, <1>4 DEF LoadUser, LoadRow, past, Inserted
  <1>5. CASE ClearRoles(t)
    BY <1>0, <1>1, <1>5 DEF ClearRoles, Inserted
  <1>6. CASE Unblock(t)
    BY <1>0, <1>1, <1>6 DEF Unblock, past, Inserted
  <1>7. CASE AssignRole(t)
    BY <1>0, <1>1, <1>7 DEF AssignRole, Fail, past, Inserted
  <1>8. CASE Write(t)
    <2>1. AddsVersion(t) => pc'[t] \in {"version", "commit"}
      BY <1>0, <1>8 DEF Write
    <2>2. req[t].op \in RowOps /\ AddsVersion(t) => pc'[t] = "version"
      BY <1>0, <1>8 DEF Write
    <2>3. ~Inserted(t, p)'
      BY <1>8, <2>2 DEF Write, Inserted, AddsVersion
    <2>4. QED BY <1>1, <1>8, <2>3 DEF Write, past
  <1>9. CASE Publish(t)
    <2>1. /\ pc[t] = "publish" /\ UNCHANGED <<req, who, seenRow, newRow, stamp, made, raced>>
      BY <1>9 DEF Publish
    <2>2. PkOf(t)' = PkOf(t) /\ (Owns(t)' <=> Owns(t))
      BY <2>1, WrittenKeeps
    <2>3. QED BY <1>1, <2>1, <2>2 DEF Inserted, AddsVersion
  <1>10. CASE Commit(t)
    BY <1>0, <1>1, <1>10 DEF Commit, CommitUser, CommitTenant, past, Inserted
  <1>11. QED
    BY <1>2, <1>3, <1>4, <1>5, <1>6, <1>7, <1>8, <1>9, <1>10 DEF StepOf, Step

\* The request that inserts a version row: it holds the row, or nobody does and
\* it says what the row says.
LEMMA AddVersionStep ==
  ASSUME IInv, TInv, RowInv, HInv, NEW t \in Threads, StepOf(t), AddVersion(t), NEW p \in Pks
  PROVE  Stamps(p)' /\ Dated(p)'
  <1>0. /\ UNCHANGED <<rows, newest, req, who, seenRow, newRow>>
        /\ pc[t] = "version" /\ pc'[t] = "publish" /\ req[t].op \in RowOps
        /\ PkOf(t) \in Pks /\ RowLoaded(t) /\ RowFacts(t)
        /\ stamp'[t] = made[PkOf(t)] + 1 /\ made' = [made EXCEPT ![PkOf(t)] = made[PkOf(t)] + 1]
        /\ raced' = IF Overtaken(t) THEN raced \cup {PkOf(t)} ELSE raced
    BY RunningRequest DEF AddVersion, CanAdd, tables, IInv, Domains, Facts, Position, TInv,
                          TypeOK, RowLoaded, RowInv
  <1>1. Stamps(p) /\ Dated(p)
    BY DEF HInv
  <1>2. \A s \in Threads : s # t =>
          /\ (Inserted(s, p)' <=> Inserted(s, p)) /\ (Owns(s)' <=> Owns(s))
          /\ stamp'[s] = stamp[s] /\ newRow'[s] = newRow[s]
    BY InsertedKeeps
  <1>3. PkOf(t)' = PkOf(t) /\ (Owns(t)' <=> Owns(t)) /\ (Versioned(p)' <=> Versioned(p))
    BY <1>0, WrittenKeeps DEF Versioned
  <1>4. /\ made[p] \in Nat /\ made'[p] \in Nat /\ newest[p].at \in Nat
        /\ \A s \in Threads : stamp[s] \in Nat
    BY TypesStep, PlaneNext DEF TInv, TypeOK, VersionRecords, Next, StepOf
  <1>5. CASE PkOf(t) # p
    <2>1. ~Inserted(t, p)' /\ ~Inserted(t, p)
      BY <1>3, <1>5 DEF Inserted
    <2>2. made'[p] = made[p] /\ (p \in raced' <=> p \in raced)
      BY <1>0, <1>5 DEF TInv, TypeOK
    <2>3. Stamps(p)'
      BY <1>0, <1>1, <1>2, <2>1, <2>2 DEF Stamps
    <2>4. Dated(p)'
      BY <1>0, <1>1, <1>2, <1>3, <2>1, <2>2 DEF Dated
    <2>5. QED BY <2>3, <2>4
  <1>6. CASE PkOf(t) = p
    <2>1. made'[p] = made[p] + 1 /\ stamp'[t] = made[p] + 1 /\ (p \in raced => p \in raced')
      BY <1>0, <1>6 DEF TInv, TypeOK
    <2>2. Stamps(p)'
      <3>1. newest'[p].at <= made'[p]
        BY <1>0, <1>1, <1>4, <2>1 DEF Stamps
      <3>2. ASSUME NEW s \in Threads, Inserted(s, p)' PROVE stamp'[s] <= made'[p]
        <4>1. CASE s = t
          BY <1>4, <2>1, <4>1
        <4>2. CASE s # t
          <5>1. stamp[s] <= made[p] /\ stamp'[s] = stamp[s]
            BY <1>1, <1>2, <3>2, <4>2 DEF Stamps
          <5>2. QED BY <1>4, <2>1, <5>1
        <4>3. QED BY <4>1, <4>2
      <3>3. QED BY <3>1, <3>2 DEF Stamps
    <2>3. Dated(p)'
      <3> SUFFICES ASSUME p \notin raced'
                   PROVE  /\ Versioned(p) => /\ newest[p].version = rows[p].version
                                             /\ newest[p].content = rows[p].content
                          /\ \A s \in Threads : Inserted(s, p)' /\ ~Owns(s)' /\ Versioned(p) =>
                               \/ stamp'[s] <= newest[p].at
                               \/ /\ newRow'[s].version = rows[p].version
                                  /\ newRow'[s].content = rows[p].content
                          /\ \A u \in Threads : Inserted(u, p)' /\ Owns(u)' =>
                               /\ newest[p].at < stamp'[u]
                               /\ \A s \in Threads : Inserted(s, p)' /\ s # u =>
                                    stamp'[s] < stamp'[u]
        BY <1>0, <1>3 DEF Dated
      <3>1. p \notin raced /\ ~Overtaken(t)
        BY <1>0, <1>6, <2>1
      <3>2. Versioned(p) => /\ newest[p].version = rows[p].version
                            /\ newest[p].content = rows[p].content
        BY <1>1, <3>1 DEF Dated
      <3>3. ASSUME NEW s \in Threads, Inserted(s, p)', ~Owns(s)', Versioned(p)
            PROVE  \/ stamp'[s] <= newest[p].at
                   \/ /\ newRow'[s].version = rows[p].version
                      /\ newRow'[s].content = rows[p].content
        <4>1. CASE s # t
          BY <1>1, <1>2, <3>1, <3>3, <4>1 DEF Dated
        <4>2. CASE s = t
          <5>1. req[t].op # "add_version"
            BY <1>0, <1>6, <3>3, SchemaVersion
          <5>2. ~Touches(t)
            BY <1>3, <3>3, <4>2, <5>1 DEF Owns
          <5>3. QED BY <1>0, <1>6, <3>1, <4>2, <5>2 DEF Overtaken
        <4>3. QED BY <4>1, <4>2
      <3>4. ASSUME NEW u \in Threads, Inserted(u, p)', Owns(u)',
                   NEW s \in Threads, Inserted(s, p)', s # u
            PROVE  stamp'[s] < stamp'[u]
        <4>0. (AddsVersion(t) /\ pc[t] # "write") \/ (s # t /\ u # t)
          <5>1. s = t \/ u = t => AddsVersion(t)'
            BY <3>4 DEF Inserted
          <5>2. QED BY <1>0, <5>1 DEF AddsVersion
        <4>1. CASE u = t
          <5>1. stamp[s] <= made[p] /\ stamp'[s] = stamp[s]
            BY <1>1, <1>2, <3>4, <4>1 DEF Stamps
          <5>2. QED BY <1>4, <2>1, <4>1, <5>1
        <4>2. CASE s = t
          <5>1. /\ RowLoaded(u) /\ pc[u] # "write" /\ AddsVersion(u) /\ Owns(u) /\ PkOf(u) = p
            BY <1>2, <3>4, <4>2 DEF Inserted, RowLoaded
          <5>2. ~Touches(t) /\ <<"row", p>> \in locks[u]
            BY <1>0, <1>6, <3>4, <4>0, <4>2, <5>1, OnlyIdle
          <5>3. Free(t, <<"row", p>>)
            BY <1>6, <3>1, <5>2 DEF Overtaken
          <5>4. QED BY <3>4, <4>2, <5>2, <5>3 DEF Free
        <4>3. CASE s # t /\ u # t
          BY <1>1, <1>2, <3>1, <3>4, <4>3 DEF Dated
        <4>4. QED BY <4>1, <4>2, <4>3
      <3>5. ASSUME NEW u \in Threads, Inserted(u, p)', Owns(u)'
            PROVE  newest[p].at < stamp'[u]
        <4>1. CASE u = t
          <5>1. newest[p].at <= made[p]
            BY <1>1 DEF Stamps
          <5>2. QED BY <1>4, <2>1, <4>1, <5>1
        <4>2. CASE u # t
          BY <1>1, <1>2, <3>1, <3>5, <4>2 DEF Dated
        <4>3. QED BY <4>1, <4>2
      <3>6. QED BY <3>2, <3>3, <3>4, <3>5
    <2>4. QED BY <2>2, <2>3
  <1>7. QED BY <1>5, <1>6

\* The commit of a request on the row.
LEMMA CommitVersionStep ==
  ASSUME IInv, TInv, RowInv, HInv, NEW t \in Threads, StepOf(t), Commit(t), CommitRow(t),
         NEW p \in Pks
  PROVE  Stamps(p)' /\ Dated(p)'
  <1>0. /\ pc[t] = "commit" /\ pc'[t] = "done" /\ RowLoaded(t) /\ RowFacts(t)
        /\ RowRequest(req[t]) /\ req[t].op \in RowOps /\ PkOf(t) \in Pks
        /\ UNCHANGED <<made, raced, stamp, newRow>>
    BY CommittedRow DEF Commit, CommitRow, past, RowInv, RowLoaded
  <1>1. Stamps(p) /\ Dated(p)
    BY DEF HInv
  <1>2. \A s \in Threads : s # t =>
          (Inserted(s, p)' <=> Inserted(s, p)) /\ (Owns(s)' <=> Owns(s))
    BY InsertedKeeps
  <1>3. ~Inserted(t, p)'
    BY <1>0 DEF Inserted
  <1>4. /\ made[p] \in Nat /\ newest[p].at \in Nat /\ newest'[p].at \in Nat
        /\ \A s \in Threads : stamp[s] \in Nat
    BY TypesStep, PlaneNext DEF TInv, TypeOK, VersionRecords, Next, StepOf
  <1>5. CASE PkOf(t) # p
    <2>1. rows'[p] = rows[p] /\ newest'[p] = newest[p] /\ (Versioned(p)' <=> Versioned(p))
      BY <1>5, CommittedRow DEF Versioned
    <2>2. Stamps(p)'
      BY <1>0, <1>1, <1>2, <1>3, <2>1 DEF Stamps
    <2>3. Dated(p)'
      BY <1>0, <1>1, <1>2, <1>3, <2>1 DEF Dated
    <2>4. QED BY <2>2, <2>3
  <1>6. CASE PkOf(t) = p
    <2>1. /\ rows'[p] = IF Owns(t) THEN Written(t) ELSE rows[p]
          /\ newest'[p] = IF req[t].op = "delete" THEN NoVersion
                          ELSE IF AddsVersion(t) /\ stamp[t] > newest[p].at
                          THEN VersionRow(t) ELSE newest[p]
          /\ AddsVersion(t) => Inserted(t, p)
          /\ VersionRow(t).at = stamp[t] /\ NoVersion.at = 0
      BY <1>0, <1>6, CommittedRow DEF Inserted, VersionRow, NoVersion
    <2>2. Stamps(p)'
      <3>1. newest'[p].at <= made[p]
        <4>1. newest'[p].at \in {0, stamp[t], newest[p].at}
          BY <2>1
        <4>2. AddsVersion(t) => stamp[t] <= made[p]
          BY <1>1, <2>1 DEF Stamps
        <4>3. newest[p].at <= made[p]
          BY <1>1 DEF Stamps
        <4>4. CASE req[t].op = "delete"
          BY <1>4, <2>1, <4>4
        <4>5. CASE req[t].op # "delete" /\ AddsVersion(t) /\ stamp[t] > newest[p].at
          BY <2>1, <4>2, <4>5
        <4>6. CASE req[t].op # "delete" /\ ~(AddsVersion(t) /\ stamp[t] > newest[p].at)
          BY <2>1, <4>3, <4>6
        <4>7. QED BY <4>4, <4>5, <4>6
      <3>2. QED BY <1>0, <1>1, <1>2, <1>3, <3>1 DEF Stamps
    <2> SUFFICES ASSUME p \notin raced PROVE Dated(p)'
      BY <1>0, <2>2 DEF Dated
    <2>3. /\ Versioned(p) => /\ newest[p].version = rows[p].version
                             /\ newest[p].content = rows[p].content
          /\ \A s \in Threads : Inserted(s, p) /\ ~Owns(s) /\ Versioned(p) =>
               \/ stamp[s] <= newest[p].at
               \/ newRow[s].version = rows[p].version /\ newRow[s].content = rows[p].content
          /\ \A u \in Threads : Inserted(u, p) /\ Owns(u) =>
               /\ newest[p].at < stamp[u]
               /\ \A s \in Threads : Inserted(s, p) /\ s # u => stamp[s] < stamp[u]
      BY <1>1 DEF Dated
    <2>4. ASSUME Versioned(p)' => /\ newest'[p].version = rows'[p].version
                                  /\ newest'[p].content = rows'[p].content,
                 \A s \in Threads : s # t /\ Inserted(s, p) /\ ~Owns(s) /\ Versioned(p)' =>
                   \/ stamp[s] <= newest'[p].at
                   \/ newRow[s].version = rows'[p].version /\ newRow[s].content = rows'[p].content,
                 \A u \in Threads : u # t /\ Inserted(u, p) /\ Owns(u) =>
                   newest'[p].at < stamp[u]
          PROVE  Dated(p)'
      BY <1>0, <1>2, <1>3, <2>3, <2>4 DEF Dated
    <2>5. ASSUME NEW u \in Threads, u # t, Inserted(u, p), Owns(u)
          PROVE  /\ newest'[p].at < stamp[u] /\ req[t].op # "delete"
                 /\ AddsVersion(t) => ~Owns(t)
      <3>1. RowLoaded(u) /\ pc[u] # "write" /\ AddsVersion(u) /\ PkOf(u) = p
        BY <2>5 DEF Inserted, RowLoaded
      <3>2. ~Owns(t)
        BY <1>0, <1>6, <2>5, <3>1, RowConflict
      <3>3. req[t].op # "delete"
        BY <3>2 DEF Owns, Touches, Lifecycle
      <3>4. newest[p].at < stamp[u] /\ (AddsVersion(t) => stamp[t] < stamp[u])
        BY <2>1, <2>3, <2>5
      <3>5. newest'[p].at < stamp[u]
        <4>1. CASE AddsVersion(t) /\ stamp[t] > newest[p].at
          BY <2>1, <3>3, <3>4, <4>1
        <4>2. CASE ~(AddsVersion(t) /\ stamp[t] > newest[p].at)
          BY <2>1, <3>3, <3>4, <4>2
        <4>3. QED BY <4>1, <4>2
      <3>6. QED BY <3>2, <3>3, <3>5
    <2>6. CASE req[t].op = "delete"
      <3>1. Owns(t) /\ rows'[p] = NoRow
        BY <1>0, <2>1, <2>6, WrittenRow DEF Owns, Touches, Lifecycle
      <3>2. ~Versioned(p)'
        BY <3>1 DEF Versioned, NoRow
      <3>3. QED BY <2>4, <2>5, <3>2
    <2>7. CASE Lifecycle(t)
      <3>1. ~AddsVersion(t) /\ newest'[p] = newest[p]
        BY <2>1, <2>7 DEF AddsVersion, Lifecycle
      <3>2. /\ rows'[p].present = rows[p].present /\ rows'[p].kind = rows[p].kind
            /\ rows'[p].version = rows[p].version /\ rows'[p].content = rows[p].content
        BY <1>0, <1>6, <2>1, <2>7, WrittenRow DEF Lifecycle
      <3>3. Versioned(p)' <=> Versioned(p)
        BY <3>2 DEF Versioned
      <3>4. QED BY <2>3, <2>4, <2>5, <3>1, <3>2, <3>3
    <2>8. CASE req[t].op = "add_version"
      <3>1. ~Versioned(p) /\ rows'[p] = rows[p]
        BY <1>0, <1>6, <2>1, <2>8, SchemaVersion DEF Owns
      <3>2. ~Versioned(p)'
        BY <3>1 DEF Versioned
      <3>3. QED BY <2>4, <2>5, <3>2
    <2>9. CASE req[t].op \in {"create", "update"} /\ Owns(t)
      <3>1. rows'[p] = newRow[t] /\ newRow[t] = Written(t)
        BY <1>0, <2>1, <2>9 DEF RowFacts
      <3>2. rows'[p].present => rows'[p].kind = req[t].kind
        BY <1>0, <1>6, <2>9, <3>1, WrittenRow DEF RowFacts
      <3>3. CASE req[t].kind = "source"
        <4>1. ~Versioned(p)'
          BY <3>2, <3>3 DEF Versioned
        <4>2. QED BY <2>4, <2>5, <4>1
      <3>4. CASE req[t].kind # "source"
        <4>1. AddsVersion(t) /\ req[t].op # "delete" /\ Inserted(t, p)
          BY <2>1, <2>9, <3>4 DEF AddsVersion
        <4>2. /\ newest[p].at < stamp[t]
              /\ \A s \in Threads : Inserted(s, p) /\ s # t => stamp[s] < stamp[t]
          BY <2>3, <2>9, <4>1
        <4>3. newest'[p] = VersionRow(t)
          BY <1>4, <2>1, <4>1, <4>2
        <4>4. newest'[p].version = newRow[t].version /\ newest'[p].content = newRow[t].content
          BY <2>9, <4>3 DEF VersionRow
        <4>5. \A s \in Threads : Inserted(s, p) /\ s # t => stamp[s] <= newest'[p].at
          BY <1>4, <2>1, <4>2, <4>3
        <4>6. QED BY <2>4, <2>5, <3>1, <4>4, <4>5
      <3>5. QED BY <3>3, <3>4
    <2>10. CASE req[t].op \in {"create", "update"} /\ ~Owns(t)
      <3>1. rows'[p] = rows[p] /\ req[t].op # "delete" /\ req[t].op # "add_version"
        BY <2>1, <2>10
      <3>2. Versioned(p)' <=> Versioned(p)
        BY <3>1 DEF Versioned
      <3>3. CASE AddsVersion(t) /\ stamp[t] > newest[p].at
        <4>1. newest'[p] = VersionRow(t) /\ newest'[p].at = stamp[t] /\ Inserted(t, p)
          BY <2>1, <3>1, <3>3
        <4>2. Versioned(p) => /\ newRow[t].version = rows[p].version
                              /\ newRow[t].content = rows[p].content
          BY <1>4, <2>3, <2>10, <3>3, <4>1
        <4>3. newest'[p].version = newRow[t].version /\ newest'[p].content = newRow[t].content
          BY <3>1, <4>1 DEF VersionRow
        <4>4. \A s \in Threads : stamp[s] <= newest[p].at => stamp[s] <= newest'[p].at
          BY <1>4, <3>3, <4>1
        <4>5. QED BY <2>3, <2>4, <2>5, <3>1, <3>2, <4>2, <4>3, <4>4
      <3>4. CASE ~(AddsVersion(t) /\ stamp[t] > newest[p].at)
        <4>1. newest'[p] = newest[p]
          BY <2>1, <3>1, <3>4
        <4>2. QED BY <2>3, <2>4, <2>5, <3>1, <3>2, <4>1
      <3>5. QED BY <3>3, <3>4
    <2>11. QED BY <1>0, <2>6, <2>7, <2>8, <2>9, <2>10 DEF RowOps, Lifecycle
  <1>7. QED BY <1>5, <1>6

LEMMA HistoryStep ==
  ASSUME IInv, TInv, RowInv, HInv, NEW t \in Threads, StepOf(t), NEW p \in Pks
  PROVE  Stamps(p)' /\ Dated(p)'
  <1>1. CASE AddVersion(t)
    BY <1>1, AddVersionStep
  <1>2. CASE Commit(t) /\ CommitRow(t)
    BY <1>2, CommitVersionStep
  <1>3. CASE ~AddVersion(t) /\ ~(Commit(t) /\ CommitRow(t))
    <2>1. Stamps(p) /\ Dated(p)
      BY DEF HInv
    <2>2. /\ UNCHANGED <<rows, newest, made, raced>>
          /\ Inserted(t, p)' => /\ Inserted(t, p) /\ (Owns(t)' <=> Owns(t))
                                /\ stamp'[t] = stamp[t] /\ newRow'[t] = newRow[t]
      BY <1>3, StillSteps
    <2>3. \A s \in Threads : Inserted(s, p)' =>
            /\ Inserted(s, p) /\ (Owns(s)' <=> Owns(s))
            /\ stamp'[s] = stamp[s] /\ newRow'[s] = newRow[s]
      BY <2>2, InsertedKeeps
    <2>4. Versioned(p)' <=> Versioned(p)
      BY <2>2 DEF Versioned
    <2>5. QED BY <2>1, <2>2, <2>3, <2>4 DEF Stamps, Dated
  <1>4. QED BY <1>1, <1>2, <1>3

LEMMA HistoryNext ==
  ASSUME IInv, TInv, RowInv, HInv, [Next]_vars PROVE HInv'
  <1>1. CASE Next
    <2>1. PICK t \in Threads : StepOf(t)
      BY <1>1 DEF Next, StepOf
    <2>2. QED BY <2>1, HistoryStep DEF HInv
  <1>2. CASE UNCHANGED vars
    <2>1. UNCHANGED <<pc, req, who, seenRow, newRow, stamp, rows, newest, made, raced>>
      BY <1>2 DEF vars, tables, local, past
    <2>2. ASSUME NEW s \in Threads, NEW p \in Pks
          PROVE  (Inserted(s, p)' <=> Inserted(s, p)) /\ (Owns(s)' <=> Owns(s))
      <3>1. PkOf(s)' = PkOf(s) /\ (Owns(s)' <=> Owns(s))
        BY <2>1, WrittenKeeps
      <3>2. QED BY <2>1, <3>1 DEF Inserted, AddsVersion
    <2>3. ASSUME NEW p \in Pks PROVE Stamps(p)' /\ Dated(p)'
      BY <2>1, <2>2, <2>3 DEF HInv, Stamps, Dated, Versioned
    <2>4. QED BY <2>3 DEF HInv
  <1>3. QED BY <1>1, <1>2

LEMMA HistoryInit ==
  ASSUME Init PROVE HInv
  <1> SUFFICES ASSUME NEW p \in Pks PROVE Stamps(p) /\ Dated(p)
    BY DEF HInv
  <1>1. \A t \in Threads : ~Inserted(t, p)
    BY DEF Init, Inserted
  <1>2. newest[p].at = 0 /\ made[p] = 0
    BY DEF Init, NoVersion
  <1>3. Versioned(p) => newest[p].version = rows[p].version /\ newest[p].content = rows[p].content
    BY DEF Init, Versioned, NoRow
  <1>4. QED BY <1>1, <1>2, <1>3 DEF Stamps, Dated

\* The inductive invariant of the version rows: which of those that are still
\* to be committed will be the newest.
THEOREM HistoryInvariant == Spec => []HInv
  <1>1. Init => HInv
    BY HistoryInit
  <1>2. IInv /\ (TInv /\ RInv) /\ RowInv /\ HInv /\ [Next]_vars => HInv'
    BY HistoryNext
  <1>3. QED BY <1>1, <1>2, PlaneInvariant, RolesInvariant, RowsInvariant, PTL DEF Spec

\* PolicyService and MappingService.update: the version row created last is
\* what the policy or mapping says, however the requests interleave, unless an
\* update that changed nothing inserted what it had read while or after another
\* request changed the row.
THEOREM HistoryStaysCurrent == Spec => []HistoryCurrent
  <1>1. HInv => HistoryCurrent
    BY DEF HInv, Dated, Versioned, HistoryCurrent
  <1>2. QED BY <1>1, HistoryInvariant, PTL
-----------------------------------------------------------------------------
(* What is published. *)

\* The request is about to commit a change of the row.
Owner(t, p) == pc[t] = "commit" /\ req[t].op \in RowOps /\ PkOf(t) = p /\ Owns(t)

\* The last event is what the row is about to be or, with nobody about to
\* change it, what it is.
Announced(p) ==
  p \notin unsettled /\ last[p] # NoEvent /\ last[p].op # "add_version" =>
    /\ \A t \in Threads : Owner(t, p) => last[p].row = newRow[t]
    /\ (\A t \in Threads : ~Owner(t, p)) => last[p].row = rows[p]

PInv == \A p \in Pks : Announced(p)

\* Whether another request is about to commit stays as it is.
LEMMA OwnersKeep ==
  ASSUME IInv, TInv, NEW t \in Threads, StepOf(t), NEW s \in Threads, s # t, NEW p \in Pks
  PROVE  (Owner(s, p)' <=> Owner(s, p)) /\ newRow'[s] = newRow[s]
  <1>1. /\ pc'[s] = pc[s] /\ req'[s] = req[s] /\ who'[s] = who[s]
        /\ seenRow'[s] = seenRow[s] /\ newRow'[s] = newRow[s]
    BY OthersKeep
  <1>2. PkOf(s)' = PkOf(s) /\ (Owns(s)' <=> Owns(s))
    BY <1>1, WrittenKeeps
  <1>3. QED BY <1>1, <1>2 DEF Owner

\* A row has one owner, and nobody else is past its write with the row.
LEMMA OneOwner ==
  ASSUME IInv, RowInv, NEW t \in Threads, NEW s \in Threads, s # t, NEW p \in Pks,
         Owner(s, p), pc[t] \in {"publish", "commit"}, req[t].op \in RowOps, PkOf(t) = p
  PROVE  ~Owns(t) /\ <<"row", p>> \in locks[s]
  <1>1. /\ RowLoaded(s) /\ RowLoaded(t) /\ RowFacts(s) /\ Owns(s) /\ PkOf(s) = p
        /\ pc[s] = "commit"
    BY DEF Owner, RowLoaded, RowInv
  <1>2. QED BY <1>1, RowConflict DEF RowFacts

\* Only the publication, the commit and its failure matter to the events.
LEMMA QuietSteps ==
  ASSUME IInv, TInv, NEW t \in Threads, StepOf(t),
         ~Publish(t), ~Commit(t), ~CommitFails(t)
  PROVE  /\ UNCHANGED <<last, rows, unsettled>> /\ pc[t] # "commit"
         /\ pc'[t] = "commit" => req'[t].op \notin RowOps
  <1>0. DOMAIN pc = Threads
    BY DEF IInv, Domains
  <1>1. CASE \E r \in Requests : Begin(t, r)
    BY <1>0, <1>1 DEF Begin, tables, past
  <1>2. CASE Refuse(t) \/ RefuseLoad(t) \/ WriteFails(t) \/ AddVersionFails(t)
    BY <1>0, <1>2 DEF Refuse, RefuseLoad, WriteFails, CanWrite, AddVersionFails, CanAdd,
                      Fail, tables, past
  <1>3. CASE LoadUser(t) \/ LoadRow(t)
    BY <1>0, <1>3 DEF LoadUser, LoadRow, tables, past
  <1>4. CASE ClearRoles(t)
    BY <1>0, <1>4 DEF ClearRoles, tables
  <1>5. CASE Unblock(t)
    BY <1>0, <1>5 DEF Unblock, tables, past
  <1>6. CASE AssignRole(t)
    BY <1>0, <1>6 DEF AssignRole, Fail, tables, past
  <1>7. CASE Write(t)
    BY <1>0, <1>7 DEF Write, CanWrite, tables, past
  <1>8. CASE AddVersion(t)
    BY <1>0, <1>8 DEF AddVersion, CanAdd, tables
  <1>9. QED BY <1>1, <1>2, <1>3, <1>4, <1>5, <1>6, <1>7, <1>8 DEF StepOf, Step

\* _snapshot of an object that was current when it was published.
LEMMA SnapshotIsCurrent ==
  ASSUME IInv, TInv, RowInv, NEW t \in Threads, pc[t] = "publish", req[t].op \in RowOps,
         req[t].op # "add_version", ~Outdated(t)
  PROVE  Snapshot(t) = IF Owns(t) THEN newRow[t] ELSE rows[PkOf(t)]
  <1> DEFINE p == PkOf(t)
  <1>1. /\ p \in Pks /\ rows[p] \in RowRecords /\ seenRow[t] \in RowRecords
        /\ who[t].id \in Users /\ RowFacts(t) /\ RowLoaded(t)
    BY RunningRequest DEF TInv, TypeOK, CallerOK, RowInv, RowLoaded
  <1>2. CASE ~Lifecycle(t)
    <2>1. ~Owns(t) => newRow[t] = rows[p]
      BY <1>2 DEF Owns, Outdated
    <2>2. QED BY <1>2, <2>1 DEF Snapshot
  <1>3. CASE Lifecycle(t)
    <2>1. rows[p] = seenRow[t] /\ Snapshot(t) = Loaded(t)
      BY <1>3 DEF Outdated, Snapshot
    <2>2. CASE Owns(t)
      <3>1. newRow[t] = Switched(t)
        BY <1>1, <1>3, <2>2 DEF RowFacts, Written, Lifecycle
      <3>2. Enables(t) # Absent /\ who[t].id # Absent
        BY <1>1, PlaneAssumption DEF Enables
      <3>3. Switched(t) = Loaded(t)
        BY <1>1, <2>1, <3>2 DEF Switched, Loaded, Net, RowRecords
      <3>4. QED BY <2>1, <2>2, <3>1, <3>3
    <2>3. CASE ~Owns(t)
      <3>1. seenRow[t].enabled = Enables(t) /\ seenRow[t].by = who[t].id
        BY <1>3, <2>3 DEF Owns, Touches, Lifecycle
      <3>2. Loaded(t) = seenRow[t]
        BY <1>1, <3>1 DEF Loaded, RowRecords
      <3>3. QED BY <2>1, <2>3, <3>2
    <2>4. QED BY <2>2, <2>3
  <1>4. QED BY <1>2, <1>3

LEMMA PublishStep ==
  ASSUME IInv, TInv, RowInv, PInv, NEW t \in Threads, StepOf(t), NEW p \in Pks
  PROVE  Announced(p)'
  <1>0. DOMAIN pc = Threads /\ DOMAIN last = Pks /\ Announced(p)
    BY DEF IInv, Domains, TInv, PInv
  <1>1. \A s \in Threads : s # t =>
          (Owner(s, p)' <=> Owner(s, p)) /\ newRow'[s] = newRow[s]
    BY OwnersKeep
  <1>2. ASSUME ~Owner(t, p), ~Owner(t, p)', last'[p] = last[p], rows'[p] = rows[p],
               unsettled \subseteq unsettled'
        PROVE  Announced(p)'
    BY <1>0, <1>1, <1>2 DEF Announced
  <1>3. CASE Publish(t)
    <2>1. /\ pc[t] = "publish" /\ pc'[t] = "commit" /\ UNCHANGED <<rows, newRow, req, who, seenRow>>
          /\ req[t].op \in RowOps /\ unsettled \subseteq unsettled'
          /\ \/ /\ last' = [last EXCEPT ![PkOf(t)] = [op |-> req[t].op, row |-> Snapshot(t)]]
                /\ Outdated(t) => PkOf(t) \in unsettled'
             \/ last' = last /\ PkOf(t) \in unsettled'
      BY <1>0, <1>3 DEF Publish, IInv, Facts, Position, tables
    <2>2. PkOf(t)' = PkOf(t) /\ (Owns(t)' <=> Owns(t)) /\ ~Owner(t, p)
      BY <2>1, WrittenKeeps DEF Owner
    <2>3. CASE PkOf(t) # p
      BY <1>0, <1>2, <2>1, <2>2, <2>3 DEF Owner
    <2>4. CASE PkOf(t) = p
      <3> SUFFICES ASSUME p \notin unsettled', last'[p].op # "add_version"
                   PROVE  /\ \A s \in Threads : Owner(s, p)' => last'[p].row = newRow'[s]
                          /\ (\A s \in Threads : ~Owner(s, p)') => last'[p].row = rows'[p]
        BY DEF Announced
      <3>1. ~Outdated(t) /\ last'[p] = [op |-> req[t].op, row |-> Snapshot(t)]
        BY <1>0, <2>1, <2>4
      <3>2. req[t].op # "add_version" /\ last'[p].row = Snapshot(t)
        BY <3>1
      <3>3. Snapshot(t) = IF Owns(t) THEN newRow[t] ELSE rows[p]
        BY <2>1, <2>4, <3>1, <3>2, SnapshotIsCurrent
      <3>4. Owner(t, p)' <=> Owns(t)
        BY <2>1, <2>2, <2>4 DEF Owner
      <3>5. ASSUME NEW s \in Threads, s # t PROVE ~Owner(s, p)
        <4> SUFFICES ASSUME Owner(s, p) PROVE FALSE
          OBVIOUS
        <4>1. ~Owns(t) /\ <<"row", p>> \in locks[s]
          BY <2>1, <2>4, <3>5, OneOwner
        <4>2. ~Touches(t)
          BY <3>2, <4>1 DEF Owns
        <4>3. Free(t, <<"row", p>>)
          BY <2>4, <3>1, <4>2 DEF Outdated
        <4>4. QED BY <3>5, <4>1, <4>3 DEF Free
      <3>6. QED BY <1>1, <2>1, <3>2, <3>3, <3>4, <3>5
    <2>5. QED BY <2>3, <2>4
  <1>4. CASE Commit(t)
    <2>1. /\ pc[t] = "commit" /\ pc'[t] = "done" /\ UNCHANGED <<last, unsettled, newRow>>
      BY <1>0, <1>4 DEF Commit, CommitUser, CommitTenant, CommitRow, past
    <2>2. ~Owner(t, p)'
      BY <2>1 DEF Owner
    <2>3. CASE Owner(t, p)
      <3>1. CommitRow(t) /\ Owns(t) /\ PkOf(t) = p /\ req[t].op \in RowOps
        BY <1>4, <2>3 DEF Owner, Commit, CommitUser, CommitTenant, UserOps, TenantOps, RowOps
      <3>2. rows'[p] = newRow[t]
        BY <3>1 DEF CommitRow, Owns, TInv, TypeOK
      <3>3. \A s \in Threads : s # t => ~Owner(s, p)
        BY <2>1, <3>1, OneOwner
      <3>4. QED BY <1>0, <1>1, <2>1, <2>2, <2>3, <3>2, <3>3 DEF Announced
    <2>4. CASE ~Owner(t, p)
      <3>1. rows'[p] = rows[p]
        <4>1. CASE rows' = rows
          BY <4>1
        <4>2. CASE rows' # rows
          <5>1. CommitRow(t)
            BY <1>4, <4>2 DEF Commit, CommitUser, CommitTenant
          <5>2. Owns(t) /\ PkOf(t) # p
            BY <2>1, <2>4, <4>2, <5>1 DEF CommitRow, Owns, Owner
          <5>3. QED BY <1>4, <5>1, <5>2, CommittedRow
        <4>3. QED BY <4>1, <4>2
      <3>2. QED BY <1>2, <2>1, <2>2, <2>4, <3>1
    <2>5. QED BY <2>3, <2>4
  <1>5. CASE CommitFails(t)
    <2>1. /\ pc[t] = "commit" /\ pc'[t] = "done" /\ UNCHANGED <<last, rows>>
          /\ unsettled \subseteq unsettled'
          /\ req[t].op \in RowOps => PkOf(t) \in unsettled'
      BY <1>0, <1>5 DEF CommitFails, Fail, tables
    <2>2. ~Owner(t, p)' /\ (Owner(t, p) => p \in unsettled')
      BY <2>1 DEF Owner
    <2>3. CASE Owner(t, p)
      BY <2>2, <2>3 DEF Announced
    <2>4. CASE ~Owner(t, p)
      BY <1>2, <2>1, <2>2, <2>4
    <2>5. QED BY <2>3, <2>4
  <1>6. CASE ~Publish(t) /\ ~Commit(t) /\ ~CommitFails(t)
    <2>1. UNCHANGED <<last, rows, unsettled>> /\ ~Owner(t, p) /\ ~Owner(t, p)'
      BY <1>6, QuietSteps DEF Owner
    <2>2. QED BY <1>2, <2>1
  <1>7. QED BY <1>3, <1>4, <1>5, <1>6

LEMMA PublishNext ==
  ASSUME IInv, TInv, RowInv, PInv, [Next]_vars PROVE PInv'
  <1>1. CASE Next
    <2>1. PICK t \in Threads : StepOf(t)
      BY <1>1 DEF Next, StepOf
    <2>2. QED BY <2>1, PublishStep DEF PInv
  <1>2. CASE UNCHANGED vars
    <2>1. ASSUME NEW s \in Threads, NEW p \in Pks PROVE Owner(s, p)' <=> Owner(s, p)
      <3>1. UNCHANGED <<pc, req, who, seenRow>>
        BY <1>2 DEF vars, local
      <3>2. PkOf(s)' = PkOf(s) /\ (Owns(s)' <=> Owns(s))
        BY <3>1, WrittenKeeps
      <3>3. QED BY <3>1, <3>2 DEF Owner
    <2>2. QED BY <1>2, <2>1 DEF vars, tables, local, past, PInv, Announced
  <1>3. QED BY <1>1, <1>2

\* The inductive invariant of what is published.
THEOREM PublishedInvariant == Spec => []PInv
  <1>1. Init => PInv
    <2> SUFFICES ASSUME Init, NEW p \in Pks PROVE Announced(p)
      BY DEF PInv
    <2>1. last[p] # NoEvent => last[p].row = rows[p]
      BY DEF Init
    <2>2. QED BY <2>1 DEF Init, Announced, Owner
  <1>2. IInv /\ (TInv /\ RInv) /\ RowInv /\ PInv /\ [Next]_vars => PInv'
    BY PublishNext
  <1>3. QED BY <1>1, <1>2, PlaneInvariant, RolesInvariant, RowsInvariant, PTL DEF Spec

\* trigger_propagation before the commit: with nobody about to commit, the last
\* event about a row is the row, unless an event was not sent, a commit failed
\* or a request that is no update of the row published an object it no longer
\* knew.
THEOREM PublishedStaysCurrent == Spec => []PublishedCurrent
  <1>1. PInv => PublishedCurrent
    BY DEF PInv, Announced, Owner, PublishedCurrent
  <1>2. QED BY <1>1, PublishedInvariant, PTL
-----------------------------------------------------------------------------
(* Tenants. *)

\* The request changes a source or a policy that was there.
ChangesOwned(t) == req[t].op \in RowOps \ {"create"} /\ req[t].kind \in {"source", "policy"}

\* What a request of a tenant's user is about belongs to the tenant, from its
\* checks to its commit.
Bounds(t) ==
  pc[t] \notin {"idle", "done"} /\ ~who[t].super =>
    /\ req[t].op \notin TenantOps
    /\ Scoped(req[t]) => who[t].tenant # Absent
    /\ pc[t] # "load" =>
         /\ req[t].op \in {"update_user", "delete_user"} /\ StillThere(t)
            /\ req[t].user \notin moved => users[req[t].user].tenant = who[t].tenant
         /\ req[t].op = "update_user" => req[t].tenant = Absent
         /\ ChangesOwned(t) /\ rows[req[t].pk] # NoRow =>
              rows[req[t].pk].tenant = who[t].tenant

BInv == \A t \in Threads : Bounds(t)

LEMMA BoundsKeep ==
  ASSUME BInv, NEW s \in Threads, req'[s] = req[s], who'[s] = who[s],
         seenUser'[s] = seenUser[s], UNCHANGED <<users, rows, moved>>,
         pc'[s] \in {"done", pc[s]} \/ pc[s] \notin {"idle", "load", "done"}
  PROVE  Bounds(s)'
  <1>1. /\ Bounds(s) /\ (Scoped(req[s])' <=> Scoped(req[s]))
        /\ (StillThere(s)' <=> StillThere(s)) /\ (ChangesOwned(s)' <=> ChangesOwned(s))
    BY DEF BInv, Scoped, StillThere, ChangesOwned
  <1>2. QED BY <1>1 DEF Bounds

\* A commit keeps what the other requests are about in their tenants.
LEMMA CommitKeepsBounds ==
  ASSUME IInv, TInv, RInv, RowInv, BInv, NEW t \in Threads, StepOf(t), Commit(t),
         NEW s \in Threads, s # t
  PROVE  Bounds(s)'
  <1>1. /\ pc'[s] = pc[s] /\ req'[s] = req[s] /\ who'[s] = who[s] /\ seenUser'[s] = seenUser[s]
        /\ Bounds(s)
    BY OthersKeep DEF BInv
  <1>2. (Scoped(req[s])' <=> Scoped(req[s])) /\ (ChangesOwned(s)' <=> ChangesOwned(s))
    BY <1>1 DEF Scoped, ChangesOwned
  <1> SUFFICES ASSUME pc[s] \notin {"idle", "load", "done"}, ~who[s].super
               PROVE  /\ req[s].op \in {"update_user", "delete_user"} /\ StillThere(s)'
                         /\ req[s].user \notin moved' =>
                           users'[req[s].user].tenant = who[s].tenant
                      /\ ChangesOwned(s) /\ rows'[req[s].pk] # NoRow =>
                           rows'[req[s].pk].tenant = who[s].tenant
    BY <1>1, <1>2 DEF Bounds
  <1>3. pc[t] = "commit"
    BY DEF Commit, CommitUser, CommitTenant, CommitRow
  <1>4. ASSUME req[s].op \in {"update_user", "delete_user"}, StillThere(s)',
               req[s].user \notin moved'
        PROVE  users'[req[s].user].tenant = who[s].tenant
    <2> DEFINE u == req[s].user
    <2>1. u \in Users /\ users'[u].present /\ users'[u].id = seenUser[s].id
      BY <1>1, <1>4, RunningRequest DEF UserRequest, UserOps, StillThere
    <2>2. u \notin moved
      BY <1>4 DEF Commit, CommitUser, CommitTenant, CommitRow, past
    <2>3. CASE users'[u] = users[u]
      BY <1>1, <1>4, <2>1, <2>2, <2>3 DEF Bounds, StillThere
    <2>4. CASE users'[u] # users[u]
      <3>1. /\ u = req[t].user /\ users'[u] = UserAfter(t) /\ CommitUser(t)
        BY <2>1, <2>4, CommittedUser DEF Commit, CommitTenant, CommitRow
      <3>2. req[t].op # "create_user"
        <4>1. req[t].op = "create_user" => users'[u].id = t
          BY <3>1 DEF UserAfter
        <4>2. seenUser[s].id # t
          BY <1>3 DEF RInv, IdsEnded, Ended
        <4>3. QED BY <2>1, <4>1, <4>2
      <3>3. req[t].op = "update_user" /\ StillThere(t) /\ users'[u].id = users[u].id
        BY <2>1, <2>4, <3>1, <3>2, CommittedUser DEF NoUser
      <3>4. users[u].present /\ StillThere(s)
        BY <2>1, <3>1, <3>3 DEF StillThere
      <3>5. users'[u].tenant = users[u].tenant
        BY <1>4, <3>1, <3>4 DEF CommitUser
      <3>6. QED BY <1>1, <1>4, <2>2, <3>4, <3>5 DEF Bounds
    <2>5. QED BY <2>3, <2>4
  <1>5. ASSUME ChangesOwned(s), rows'[req[s].pk] # NoRow
        PROVE  rows'[req[s].pk].tenant = who[s].tenant
    <2> DEFINE p == req[s].pk
    <2>1. p \in Pks /\ PkOf(s) = p /\ req[s].op \in RowOps
      BY <1>5, RunningRequest DEF ChangesOwned, PkOf
    <2>2. CASE rows'[p] = rows[p]
      BY <1>1, <1>5, <2>2 DEF Bounds
    <2>3. CASE rows'[p] # rows[p]
      <3>1. CommitRow(t)
        BY <2>3, RowsKeep DEF Commit, CommitUser, CommitTenant
      <3>2. /\ PkOf(t) = p /\ Owns(t) /\ rows'[p] = Written(t) /\ RowLoaded(t) /\ RowFacts(t)
            /\ req[t].op \in RowOps
        BY <2>1, <2>3, <3>1, CommittedRow DEF RowInv, RowLoaded
      <3>3. RowLoaded(s)
        BY <2>1 DEF RowLoaded, TInv, TypeOK, IInv, Facts, Position, SetsRole, RowOps
      <3>4. req[t].op \notin {"create", "delete"}
        BY <1>3, <1>5, <2>1, <3>2, <3>3, RowConflict, WrittenRow
      <3>5. rows[p].present /\ rows'[p].tenant = rows[p].tenant
        BY <1>3, <3>2, <3>4, WrittenRow DEF RowFacts
      <3>6. rows[p] # NoRow
        BY <3>5 DEF NoRow
      <3>7. QED BY <1>1, <1>5, <3>5, <3>6 DEF Bounds
    <2>4. QED BY <2>2, <2>3
  <1>6. QED BY <1>4, <1>5

\* What the checks of a request let through.
LEMMA LoadedBounds ==
  ASSUME IInv, TInv, BInv, NEW t \in Threads, LoadUser(t) \/ LoadRow(t)
  PROVE  Bounds(t)'
  <1>0. DOMAIN pc = Threads /\ DOMAIN seenUser = Threads /\ Bounds(t)
    BY DEF IInv, Domains, BInv
  <1>1. /\ pc[t] = "load" /\ UNCHANGED <<users, rows, moved, req, who>>
        /\ req[t] \in Requests
    BY RunningRequest DEF LoadUser, LoadRow, tables, past
  <1>2. (Scoped(req[t])' <=> Scoped(req[t])) /\ (ChangesOwned(t)' <=> ChangesOwned(t))
    BY <1>1 DEF Scoped, ChangesOwned
  <1> SUFFICES ASSUME ~who[t].super
               PROVE  /\ req[t].op \in {"update_user", "delete_user"} =>
                           users[req[t].user].tenant = who[t].tenant
                      /\ req[t].op = "update_user" => req[t].tenant = Absent
                      /\ ChangesOwned(t) => rows[req[t].pk].tenant = who[t].tenant
    BY <1>0, <1>1, <1>2 DEF Bounds
  <1>3. CASE LoadUser(t)
    <2>1. /\ ~ChangesOwned(t)
          /\ req[t].op \in UserOps => MayLoadUser(t)
      BY <1>3 DEF LoadUser, ChangesOwned, UserOps, TenantOps, RowOps
    <2>2. /\ req[t].op = "update_user" => MayUpdateUser(t)
          /\ req[t].op = "delete_user" => MayDeleteUser(t)
      BY <2>1 DEF MayLoadUser, UserOps
    <2>3. QED BY <2>1, <2>2 DEF MayUpdateUser, MayDeleteUser
  <1>4. CASE LoadRow(t)
    <2>1. req[t].op \in RowOps /\ MayLoadRow(t)
      BY <1>4 DEF LoadRow
    <2>2. ASSUME ChangesOwned(t) PROVE rows[req[t].pk].tenant = who[t].tenant
      <3>1. MayChange(t) /\ Scoped(req[t])
        BY <2>1, <2>2 DEF MayLoadRow, ChangesOwned, Scoped
      <3>2. Context(t) = who[t].tenant /\ who[t].tenant # Absent
        BY <1>0, <1>1, <3>1 DEF Context, Bounds
      <3>3. QED BY <3>1, <3>2 DEF MayChange, InScope
    <2>3. QED BY <2>1, <2>2 DEF RowOps
  <1>5. QED BY <1>3, <1>4

\* What a caller without platform authority may ask for.
LEMMA BegunBounds ==
  ASSUME IInv, NEW t \in Threads, NEW r \in Requests, Begin(t, r)
  PROVE  Bounds(t)'
  <1>1. /\ pc'[t] = "load" /\ req'[t] = r /\ Permitted(r)
        /\ who'[t] = [id |-> r.by, tenant |-> users[r.by].tenant,
                      super |-> is_super_admin(users[r.by]), roles |-> users[r.by].roles]
    BY DEF Begin, IInv, Domains
  <1>2. who'[t].super = is_super_admin(users[r.by]) /\ who'[t].tenant = users[r.by].tenant
    BY <1>1
  <1> SUFFICES ASSUME ~is_super_admin(users[r.by])
               PROVE  r.op \notin TenantOps /\ (Scoped(r) => users[r.by].tenant # Absent)
    BY <1>1, <1>2 DEF Bounds, Scoped
  <1>3. r.op \notin TenantOps
    BY <1>1 DEF Permitted, Required, is_super_admin, TenantOps, UserOps
  <1>4. Scoped(r) => users[r.by].tenant # Absent
    BY <1>1 DEF Permitted, ContextOK
  <1>5. QED BY <1>3, <1>4

LEMMA BoundsStep ==
  ASSUME IInv, TInv, RInv, RowInv, BInv, NEW t \in Threads, StepOf(t)
  PROVE  BInv'
  <1>0. DOMAIN pc = Threads
    BY DEF IInv, Domains
  <1>1. ASSUME NEW s \in Threads, s # t PROVE Bounds(s)'
    <2>1. CASE Commit(t)
      BY <1>1, <2>1, CommitKeepsBounds
    <2>2. CASE ~Commit(t)
      <3>1. UNCHANGED <<users, rows, moved>>
        BY <2>2, TablesKeep
      <3>2. pc'[s] = pc[s] /\ req'[s] = req[s] /\ who'[s] = who[s] /\ seenUser'[s] = seenUser[s]
        BY <1>1, OthersKeep
      <3>3. QED BY <3>1, <3>2, BoundsKeep
    <2>3. QED BY <2>1, <2>2
  <1>2. Bounds(t)'
    <2>1. CASE \E r \in Requests : Begin(t, r)
      BY <2>1, BegunBounds
    <2>2. CASE LoadUser(t) \/ LoadRow(t)
      BY <2>2, LoadedBounds
    <2>3. CASE pc'[t] = "done"
      BY <2>3 DEF Bounds
    <2>4. CASE \/ ClearRoles(t) \/ Unblock(t) \/ (AssignRole(t) /\ ~Fail(t)) \/ Write(t)
               \/ AddVersion(t) \/ Publish(t)
      <3>1. /\ UNCHANGED <<req, who, seenUser, users, rows, moved>>
            /\ pc[t] \notin {"idle", "load", "done"}
        BY <2>4 DEF ClearRoles, Unblock, AssignRole, Write, CanWrite, AddVersion, CanAdd,
                    Publish, tables, past
      <3>2. QED BY <3>1, BoundsKeep
    <2>5. \/ Refuse(t) \/ RefuseLoad(t) \/ WriteFails(t) \/ AddVersionFails(t) \/ CommitFails(t)
          \/ Commit(t) \/ Fail(t)
          => pc'[t] = "done"
      BY <1>0 DEF Refuse, RefuseLoad, WriteFails, AddVersionFails, CommitFails, Commit, Fail
    <2>6. QED BY <2>1, <2>2, <2>3, <2>4, <2>5 DEF StepOf, Step
  <1>3. QED BY <1>1, <1>2 DEF BInv

LEMMA BoundsNext ==
  ASSUME IInv, TInv, RInv, RowInv, BInv, [Next]_vars PROVE BInv'
  <1>1. CASE Next
    <2>1. PICK t \in Threads : StepOf(t)
      BY <1>1 DEF Next, StepOf
    <2>2. QED BY <2>1, BoundsStep
  <1>2. CASE UNCHANGED vars
    <2>1. UNCHANGED <<pc, req, who, seenUser, users, rows, moved>>
      BY <1>2 DEF vars, tables, local, past
    <2>2. QED BY <2>1, BoundsKeep DEF BInv
  <1>3. QED BY <1>1, <1>2

\* The inductive invariant of the tenants.
THEOREM BoundsInvariant == Spec => []BInv
  <1>1. Init => BInv
    BY DEF Init, BInv, Bounds
  <1>2. IInv /\ (TInv /\ RInv) /\ RowInv /\ BInv /\ [Next]_vars => BInv'
    BY BoundsNext
  <1>3. QED BY <1>1, <1>2, PlaneInvariant, RolesInvariant, RowsInvariant, PTL DEF Spec

\* What the commit of a tenant's user changes belongs to its tenant.
LEMMA CommitInBounds ==
  ASSUME IInv, TInv, RInv, RowInv, BInv, NEW t \in Threads, StepOf(t), Commit(t), ~who[t].super
  PROVE  /\ UNCHANGED tenants
         /\ \A u \in Users : users'[u] # users[u] /\ u \notin moved =>
              who[t].tenant \in {users[u].tenant, users'[u].tenant}
         /\ \A p \in Pks : rows'[p] # rows[p] /\ req[t].kind \in {"source", "policy"} =>
              who[t].tenant \in {rows[p].tenant, rows'[p].tenant}
  <1>1. pc[t] = "commit" /\ Bounds(t)
    BY DEF Commit, CommitUser, CommitTenant, CommitRow, BInv
  <1>2. UNCHANGED tenants
    BY <1>1 DEF Bounds, Commit, CommitUser, CommitTenant, CommitRow
  <1>3. ASSUME NEW u \in Users, users'[u] # users[u], u \notin moved
        PROVE  who[t].tenant \in {users[u].tenant, users'[u].tenant}
    <2>1. u = req[t].user /\ users'[u] = UserAfter(t)
      BY <1>3, CommittedUser
    <2>2. CASE req[t].op = "create_user"
      BY <2>1, <2>2 DEF UserAfter
    <2>3. CASE req[t].op # "create_user"
      <3>1. req[t].op \in {"update_user", "delete_user"} /\ StillThere(t)
        BY <1>3, <2>3, CommittedUser
      <3>2. QED BY <1>1, <1>3, <2>1, <3>1 DEF Bounds
    <2>4. QED BY <2>2, <2>3
  <1>4. ASSUME NEW p \in Pks, rows'[p] # rows[p], req[t].kind \in {"source", "policy"}
        PROVE  who[t].tenant \in {rows[p].tenant, rows'[p].tenant}
    <2>1. CommitRow(t)
      BY <1>4 DEF Commit, CommitUser, CommitTenant
    <2>2. /\ PkOf(t) = p /\ Owns(t) /\ rows'[p] = Written(t) /\ RowLoaded(t) /\ RowFacts(t)
          /\ req[t].op \in RowOps
      BY <1>4, <2>1, CommittedRow DEF RowInv, RowLoaded
    <2>3. CASE req[t].op = "create"
      <3>1. OwnerOf(t) = who[t].tenant
        BY <1>4 DEF OwnerOf, Context
      <3>2. QED BY <1>1, <2>2, <2>3, <3>1, WrittenRow
    <2>4. CASE req[t].op # "create"
      <3>1. ChangesOwned(t) /\ req[t].pk = p
        BY <1>4, <2>2, <2>4 DEF ChangesOwned, PkOf
      <3>2. rows[p] # NoRow
        <4>1. CASE req[t].op = "delete"
          BY <1>1, <1>4, <2>2, <4>1, WrittenRow
        <4>2. CASE req[t].op # "delete"
          BY <1>1, <2>2, <2>4, <4>2 DEF RowFacts, NoRow
        <4>3. QED BY <4>1, <4>2
      <3>3. QED BY <1>1, <3>1, <3>2 DEF Bounds
    <2>5. QED BY <2>3, <2>4
  <1>5. QED BY <1>2, <1>3, <1>4

\* dep_tenant_context and the scoped lookups: a request of a tenant's user
\* commits changes to its own tenant only, whatever happened to the caller or
\* the object since it was checked.
THEOREM TenantsStayApart == Spec => TenantBoundary
  <1> DEFINE Kept ==
        \A t \in Threads : audit' = audit \cup {t} /\ t \notin audit /\ ~who[t].super =>
          /\ UNCHANGED tenants
          /\ \A u \in Users : users'[u] # users[u] /\ u \notin moved =>
               who[t].tenant \in {users[u].tenant, users'[u].tenant}
          /\ \A p \in Pks : rows'[p] # rows[p] /\ req[t].kind \in {"source", "policy"}
               => who[t].tenant \in {rows[p].tenant, rows'[p].tenant}
  <1>1. IInv /\ (TInv /\ RInv) /\ RowInv /\ BInv /\ [Next]_vars => [Kept]_vars
    <2> SUFFICES ASSUME IInv, TInv, RInv, RowInv, BInv, Next, NEW t \in Threads,
                        audit' = audit \cup {t}, t \notin audit, ~who[t].super
                 PROVE  /\ UNCHANGED tenants
                        /\ \A u \in Users : users'[u] # users[u] /\ u \notin moved =>
                             who[t].tenant \in {users[u].tenant, users'[u].tenant}
                        /\ \A p \in Pks :
                             rows'[p] # rows[p] /\ req[t].kind \in {"source", "policy"}
                             => who[t].tenant \in {rows[p].tenant, rows'[p].tenant}
      OBVIOUS
    <2>1. PICK s \in Threads : StepOf(s)
      BY DEF Next, StepOf
    <2>2. Commit(s)
      BY <2>1, TablesKeep
    <2>3. s = t
      BY <2>2 DEF Commit
    <2>4. QED BY <2>1, <2>2, <2>3, CommitInBounds
  <1>2. QED
    BY <1>1, PlaneInvariant, RolesInvariant, RowsInvariant, BoundsInvariant, PTL
       DEF Spec, TenantBoundary
=============================================================================
