---------------------------- MODULE ControlPlane -----------------------------
(***************************************************************************)
(* M6: users, tenants and the registries of sources, policies, mappings    *)
(* and schemas.  A request authenticates its caller, loads what it is      *)
(* about, writes, publishes the change and commits: one database           *)
(* transaction (READ COMMITTED), with an await between any two of these.   *)
(* The database, as alembic migrates it, is external: a write waits for    *)
(* the locks on what it touches, which are held until the commit, and a    *)
(* unique or foreign key that is violated fails the request.               *)
(*                                                                         *)
(* A token only names the user; what the user may do is read from the      *)
(* database for every request.                                             *)
(***************************************************************************)
EXTENDS Naturals, FiniteSets

CONSTANTS
  Absent,       \* Python's None
  Tenants, Users, Roles,
  Threads,      \* requests in progress
  Requests,     \* requests a client may send
  InitialPks,   \* rows there are to begin with
  InitialUsers, InitialTenants, InitialRows

Platform == {"SUPER_ADMIN", "ADMINISTRATOR"}
UserOps == {"create_user", "update_user", "delete_user", "login"}
TenantOps == {"create_tenant", "update_tenant"}
RowOps == {"create", "update", "delete", "enable", "disable", "add_version"}
Pks == InitialPks \cup Threads
Statuses == {"ACTIVE", "SUSPENDED", "DISABLED"}

NoUser == [present |-> FALSE, id |-> Absent, tenant |-> Absent,
           roles |-> {}, active |-> FALSE, superuser |-> FALSE]
NoRow == [present |-> FALSE, kind |-> "source", id |-> Absent,
          tenant |-> Absent, version |-> 0, content |-> Absent,
          enabled |-> FALSE, by |-> Absent]
NoEvent == [op |-> "NONE", row |-> NoRow]
Nobody == [id |-> Absent, tenant |-> Absent, super |-> FALSE, roles |-> {}]

\* A user is known by its name; its id is the request that created it (or
\* Absent, for the users there are to begin with).
UserRecords == [present : BOOLEAN, id : Threads \cup {Absent},
                tenant : Tenants \cup {Absent}, roles : SUBSET Roles,
                active : BOOLEAN, superuser : BOOLEAN]

Kinds == {"source", "policy", "mapping", "schema"}
Ids == {InitialRows[p].id : p \in InitialPks} \cup {Absent}
       \cup {r.id : r \in {q \in Requests : q.op = "create"}}
RowRecords == [present : BOOLEAN, kind : Kinds, id : Ids,
               tenant : Tenants \cup {Absent}, version : Nat,
               content : Threads \cup {Absent}, enabled : BOOLEAN,
               by : Users \cup {Absent}]

\* A version row; at is its place in the order of created_at.
VersionRecords == [version : Nat, content : Threads \cup {Absent}, at : Nat]
NoVersion == [version |-> 0, content |-> Absent, at |-> 0]

\* The bodies the endpoints accept.  An update edits columns, or sends none
\* that differ (r.edits); schemas are given versions only.
UserRequest(r) ==
  /\ r.user \in Users
  /\ r.op = "create_user" => r.role \in Roles /\ r.tenant \in Tenants \cup {Absent}
  /\ r.op = "update_user" => /\ r.role \in Roles \cup {Absent}
                             /\ r.tenant \in Tenants \cup {Absent}
                             /\ r.active \in BOOLEAN \cup {Absent}
RowRequest(r) ==
  /\ r.kind \in Kinds /\ r.scope \in Tenants \cup {Absent}
  /\ r.op = "add_version" => r.kind = "schema"
  /\ r.kind = "schema" => r.op = "add_version"
  /\ r.op = "create" => r.version \in Nat /\ r.tenant \in Tenants \cup {Absent}
  /\ r.op # "create" => r.pk \in Pks
  /\ r.op = "update" => r.version \in Nat \cup {Absent} /\ r.edits \in BOOLEAN
  /\ r.op = "add_version" => r.version \in Nat

\* The rows there are to begin with were written by this program: a user has
\* one role.
ASSUME PlaneAssumption ==
  /\ Platform \subseteq Roles /\ InitialPks \cap Threads = {}
  /\ Absent \notin Users /\ Absent \notin Tenants /\ Absent \notin Roles
  /\ Absent \notin BOOLEAN /\ Absent \notin Nat /\ Absent \notin Threads
  /\ InitialUsers \in [Users -> UserRecords]
  /\ \A u \in Users : /\ InitialUsers[u].id = Absent
                       /\ \A x, y \in InitialUsers[u].roles : x = y
  /\ InitialTenants \in [Tenants -> Statuses \cup {Absent}]
  /\ InitialRows \in [InitialPks -> RowRecords]
  /\ \A p \in InitialPks : InitialRows[p].present
  /\ \A r \in Requests :
       /\ r.op \in UserOps \cup TenantOps \cup RowOps /\ r.by \in Users
       /\ r.op \in UserOps => UserRequest(r)
       /\ r.op \in TenantOps => r.tenant \in Tenants /\ r.status \in Statuses
       /\ r.op \in RowOps => RowRequest(r)

VARIABLES
  users, tenants, rows,  \* the tables
  newest,     \* newest[pk]: the newest committed version row of the row
  audit,      \* requests whose audit record is committed
  last,       \* last[pk]: the last event published about the row
  pc, req,
  who,        \* who[t]: the caller as authenticated
  seenUser, seenRow, seenRoles,   \* what the request loaded
  newRoles,   \* newRoles[t]: the role rows its transaction leaves
  newRow,     \* newRow[t]: the row its transaction leaves
  stamp,      \* stamp[t]: created_at of the version row it inserted
  locks,      \* locks[t]: what its transaction has locked
  granted,    \* users whose platform authority a super admin granted
  overlapped, \* users whose role was being changed by two requests at once
  moved,      \* users that were reassigned to another tenant
  unsettled,  \* rows about which something else than their changes, in the
              \* order of their commits, was published
  made,       \* made[pk]: how many version rows were inserted for the row
  raced       \* rows of which an update that changed nothing inserted what
              \* it had read, while or after another request changed them

tables == <<users, tenants, rows, newest, audit>>
local == <<pc, req, who, seenUser, seenRow, seenRoles, newRoles, newRow, stamp,
           locks>>
past == <<granted, overlapped, moved, unsettled, made, raced>>
vars == <<tables, last, local, past>>
-----------------------------------------------------------------------------
(* Authentication and authorisation. *)

\* User.is_super_admin; is_superuser is set by the seed script only.
is_super_admin(u) == u.superuser \/ u.roles \cap Platform # {}

Exists(x) == tenants[x] # Absent

\* dep_current_user: the user exists, is active, and so is its tenant.
Authenticated(u) ==
  /\ users[u].present /\ users[u].active
  /\ users[u].tenant # Absent => tenants[users[u].tenant] = "ACTIVE"

\* require_roles: what an endpoint asks for; a super admin passes them all.
Required(r) ==
  IF r.op \in UserOps THEN Platform \cup {"TENANT_ADMIN"}
  ELSE IF r.op \in TenantOps THEN Platform
  ELSE IF r.kind = "mapping" THEN Platform \cup {"TENANT_ADMIN", "PARSER_DEVELOPER"}
  ELSE IF r.kind = "schema" THEN Platform \cup {"PARSER_DEVELOPER"}
  ELSE Platform \cup {"TENANT_ADMIN"}

Scoped(r) == \/ r.op \in {"update_user", "delete_user"}
             \/ r.op \in RowOps /\ r.kind # "schema"

\* dep_tenant_context: a super admin may name an existing tenant, everybody
\* else has one and may name no other.
ContextOK(r) ==
  LET u == users[r.by]
  IN  Scoped(r) => IF is_super_admin(u)
                   THEN r.scope # Absent => Exists(r.scope)
                   ELSE u.tenant # Absent /\ r.scope \in {Absent, u.tenant}

Permitted(r) ==
  LET u == users[r.by]
  IN  /\ Authenticated(r.by)
      /\ \/ r.op = "login" \/ is_super_admin(u)
         \/ u.roles \cap Required(r) # {}
      /\ ContextOK(r)

\* TenantContext.tenant_id.
Context(t) == IF who[t].super /\ req[t].scope # Absent THEN req[t].scope
              ELSE who[t].tenant
-----------------------------------------------------------------------------
(* The transaction of a request. *)

Init ==
  /\ users = InitialUsers /\ tenants = InitialTenants
  /\ rows = [p \in Pks |-> IF p \in InitialPks THEN InitialRows[p] ELSE NoRow]
  /\ newest = [p \in Pks |-> IF p \in InitialPks
                             THEN [version |-> InitialRows[p].version,
                                   content |-> InitialRows[p].content, at |-> 0]
                             ELSE NoVersion]
  /\ audit = {}
  /\ last = [p \in Pks |-> IF p \in InitialPks
                           THEN [op |-> "CREATE", row |-> InitialRows[p]]
                           ELSE NoEvent]
  /\ pc = [t \in Threads |-> "idle"]
  /\ req = [t \in Threads |-> [op |-> "none"]]
  /\ who = [t \in Threads |-> Nobody]
  /\ seenUser = [t \in Threads |-> NoUser]
  /\ seenRow = [t \in Threads |-> NoRow]
  /\ seenRoles = [t \in Threads |-> {}]
  /\ newRoles = [t \in Threads |-> {}]
  /\ newRow = [t \in Threads |-> NoRow]
  /\ stamp = [t \in Threads |-> 0]
  /\ locks = [t \in Threads |-> {}]
  /\ granted = {u \in Users : is_super_admin(InitialUsers[u])}
  /\ overlapped = {} /\ moved = {} /\ unsettled = {}
  /\ made = [p \in Pks |-> 0] /\ raced = {}

\* dep_current_user, require_roles and dep_tenant_context.
Begin(t, r) ==
  /\ pc[t] = "idle" /\ Permitted(r)
  /\ pc' = [pc EXCEPT ![t] = "load"]
  /\ req' = [req EXCEPT ![t] = r]
  /\ who' = [who EXCEPT ![t] = [id |-> r.by, tenant |-> users[r.by].tenant,
                                super |-> is_super_admin(users[r.by]),
                                roles |-> users[r.by].roles]]
  /\ UNCHANGED <<tables, last, seenUser, seenRow, seenRoles, newRoles, newRow,
                 stamp, locks, past>>

\* The request ends with an error: the transaction is rolled back.
Fail(t) ==
  /\ pc' = [pc EXCEPT ![t] = "done"]
  /\ locks' = [locks EXCEPT ![t] = {}]
  /\ UNCHANGED <<tables, last, req, who, seenUser, seenRow, seenRoles,
                 newRoles, newRow, stamp>>

Refuse(t) ==
  /\ pc[t] = "idle" /\ \E r \in Requests : ~Permitted(r)
  /\ Fail(t) /\ UNCHANGED past

Free(t, k) == \A s \in Threads \ {t} : k \notin locks[s]
-----------------------------------------------------------------------------
(* Users and tenants. *)

\* create_user: a tenant admin stays in its tenant and grants no platform
\* role; the name is not taken.
MayCreateUser(t) ==
  LET r == req[t]
  IN  /\ IF who[t].super THEN r.tenant # Absent => Exists(r.tenant)
         ELSE /\ who[t].tenant # Absent
              /\ r.tenant \in {Absent, who[t].tenant}
              /\ r.role \notin Platform
      /\ ~users[r.user].present

\* Mutant: a role change is not checked.
MayUpdateAnyRole(t) ==
  LET r == req[t]
      u == users[r.user]
  IN  /\ u.present /\ (who[t].super \/ u.tenant = who[t].tenant)
      /\ r.tenant # Absent => who[t].super

\* update_user: of one's own tenant; reassignment and platform roles are for
\* super admins.
MayUpdateUser(t) ==
  LET r == req[t]
      u == users[r.user]
  IN  /\ u.present /\ (who[t].super \/ u.tenant = who[t].tenant)
      /\ r.tenant # Absent => who[t].super
      /\ r.role \in Platform => who[t].super

\* Mutant: the user is looked up in every tenant.
MayDeleteAnyUser(t) == users[req[t].user].present /\ req[t].user # who[t].id

\* delete_user: of one's own tenant, and not oneself.
MayDeleteUser(t) ==
  LET u == users[req[t].user]
  IN  /\ u.present /\ (who[t].super \/ u.tenant = who[t].tenant)
      /\ req[t].user # who[t].id

MayLoadUser(t) == CASE req[t].op = "create_user" -> MayCreateUser(t)
                    [] req[t].op = "update_user" -> MayUpdateUser(t)
                    [] req[t].op = "delete_user" -> MayDeleteUser(t)
                    [] req[t].op = "login"       -> TRUE

\* create_tenant and update_tenant.
MayLoadTenant(t) == Exists(req[t].tenant) <=> req[t].op = "update_tenant"

\* The user is still the one that was loaded: one created later under the
\* same name has another id.
StillThere(t) == /\ users[req[t].user].present
                 /\ users[req[t].user].id = seenUser[t].id

SetsRole(t) == req[t].op = "update_user" /\ req[t].role # Absent

\* The checks before the first write.
LoadUser(t) ==
  /\ pc[t] = "load" /\ req[t].op \in UserOps \cup TenantOps
  /\ IF req[t].op \in UserOps THEN MayLoadUser(t) ELSE MayLoadTenant(t)
  /\ seenUser' = IF req[t].op \in UserOps
                 THEN [seenUser EXCEPT ![t] = users[req[t].user]] ELSE seenUser
  /\ pc' = [pc EXCEPT ![t] = IF SetsRole(t) THEN "roles" ELSE "write"]
  /\ UNCHANGED <<tables, last, req, who, seenRow, seenRoles, newRoles, newRow,
                 stamp, locks, past>>

\* The role rows of the user that was loaded.
RolesKey(t) == <<"roles", req[t].user, seenUser[t].id>>

\* clear_roles: DELETE finds the committed role rows, and waits for a request
\* that has deleted them already.
ClearRoles(t) ==
  LET u == req[t].user
      k == RolesKey(t)
  IN  /\ pc[t] = "roles"
      /\ seenRoles' = [seenRoles EXCEPT ![t] = IF StillThere(t) THEN users[u].roles
                                               ELSE {}]
      /\ IF Free(t, k)
         THEN /\ locks' = [locks EXCEPT ![t] = @ \cup {k}]
              /\ pc' = [pc EXCEPT ![t] = "assign"]
              /\ UNCHANGED overlapped
         ELSE /\ pc' = [pc EXCEPT ![t] = "blocked"]
              /\ overlapped' = overlapped \cup {u}
              /\ UNCHANGED locks
      /\ UNCHANGED <<tables, last, req, who, seenUser, seenRow, newRoles,
                     newRow, stamp, granted, moved, unsettled, made, raced>>

Unblock(t) ==
  /\ pc[t] = "blocked" /\ Free(t, RolesKey(t))
  /\ locks' = [locks EXCEPT ![t] = @ \cup {RolesKey(t)}]
  /\ pc' = [pc EXCEPT ![t] = "assign"]
  /\ UNCHANGED <<tables, last, req, who, seenUser, seenRow, seenRoles, newRoles,
                 newRow, stamp, past>>

\* Mutant: the roles the user had are kept.
AssignRoleOnly(t) ==
  LET r == req[t]
  IN  /\ pc[t] = "assign" /\ StillThere(t)
      /\ newRoles' = [newRoles EXCEPT ![t] = users[r.user].roles \cup {r.role}]
      /\ pc' = [pc EXCEPT ![t] = "write"]
      /\ UNCHANGED <<tables, last, req, who, seenUser, seenRow, seenRoles,
                     newRow, stamp, locks, past>>

\* assign_role: rows the DELETE did not find are still there; the same role
\* twice, or a user that is gone, is an error.
AssignRole(t) ==
  LET r == req[t]
      kept == users[r.user].roles \ seenRoles[t]
  IN  /\ pc[t] = "assign"
      /\ \/ /\ StillThere(t) /\ r.role \notin kept
            /\ newRoles' = [newRoles EXCEPT ![t] = kept \cup {r.role}]
            /\ pc' = [pc EXCEPT ![t] = "write"]
            /\ UNCHANGED <<tables, last, req, who, seenUser, seenRow,
                           seenRoles, newRow, stamp, locks>>
         \/ (~StillThere(t) \/ r.role \in kept) /\ Fail(t)
      /\ UNCHANGED past
-----------------------------------------------------------------------------
(* The registries. *)

\* A column is written only if the request changes what it loaded.
Net(given, loaded, now) == IF given \in {Absent, loaded} THEN now ELSE given

\* The tenant of a new row: mappings take the one of the body first.
OwnerOf(t) ==
  CASE req[t].kind = "mapping" -> IF req[t].tenant # Absent THEN req[t].tenant
                                  ELSE Context(t)
    [] req[t].kind # "mapping" -> Context(t)

Same(row, kind, tenant, id) ==
  row.present /\ row.kind = kind /\ row.tenant = tenant /\ row.id = id

Taken(t) == \E p \in Pks : Same(rows[p], req[t].kind, OwnerOf(t), req[t].id)

\* get_by_id_and_tenant, and get_by_id_scoped with the test that tenant users
\* leave the baseline alone.
InScope(row, tenant) == row.present /\ tenant \in {Absent, row.tenant}

\* create of a source or a policy: it needs a tenant (require_tenant_id).
MayCreateOwned(t) == ~Taken(t) /\ Context(t) # Absent

\* create of a mapping, which may belong to the platform.
MayCreateShared(t) == ~Taken(t)

\* add_version of a schema.
MayAddVersion(t) == LET row == rows[req[t].pk]
                    IN  row.present /\ row.kind = "schema"

\* update, delete, enable and disable.
MayChange(t) == LET row == rows[req[t].pk]
                IN  row.kind = req[t].kind /\ InScope(row, Context(t))

MayLoadRow(t) ==
  IF req[t].op = "create"
  THEN IF req[t].kind \in {"source", "policy"} THEN MayCreateOwned(t)
                                               ELSE MayCreateShared(t)
  ELSE IF req[t].kind = "schema" THEN MayAddVersion(t) ELSE MayChange(t)

PkOf(t) == IF req[t].op = "create" THEN t ELSE req[t].pk

LoadRow(t) ==
  /\ pc[t] = "load" /\ req[t].op \in RowOps /\ MayLoadRow(t)
  /\ seenRow' = [seenRow EXCEPT ![t] = rows[PkOf(t)]]
  /\ pc' = [pc EXCEPT ![t] = "write"]
  /\ UNCHANGED <<tables, last, req, who, seenUser, seenRoles, newRoles, newRow,
                 stamp, locks, past>>

\* 400, 403, 404, 409.
RefuseLoad(t) ==
  /\ pc[t] = "load"
  /\ ~ CASE req[t].op \in UserOps   -> MayLoadUser(t)
         [] req[t].op \in TenantOps -> MayLoadTenant(t)
         [] OTHER                   -> MayLoadRow(t)
  /\ Fail(t) /\ UNCHANGED past

Lifecycle(t) == req[t].op \in {"enable", "disable"}
Enables(t) == req[t].op = "enable"

Created(t) ==
  [present |-> TRUE, kind |-> req[t].kind, id |-> req[t].id,
   tenant |-> OwnerOf(t), version |-> req[t].version, content |-> t,
   enabled |-> TRUE, by |-> who[t].id]

Updated(t) ==
  [rows[PkOf(t)] EXCEPT !.version = Net(req[t].version, seenRow[t].version, @),
                        !.content = IF req[t].edits THEN t ELSE @,
                        !.by = Net(who[t].id, seenRow[t].by, @)]

\* enable and disable.
Switched(t) ==
  [rows[PkOf(t)] EXCEPT !.enabled = Net(Enables(t), seenRow[t].enabled, @),
                        !.by = Net(who[t].id, seenRow[t].by, @)]

\* What the row is once the write is done.  After an update the object is
\* refreshed from the database, after a lifecycle change it is not.
Written(t) == CASE req[t].op = "create" -> Created(t)
                [] req[t].op = "update" -> Updated(t)
                [] req[t].op = "delete" -> NoRow
                [] Lifecycle(t)         -> Switched(t)
                [] req[t].op = "add_version" -> rows[PkOf(t)]

\* A request that gives an object the values it was loaded with sends no
\* UPDATE and locks nothing.
Touches(t) ==
  /\ Lifecycle(t) => seenRow[t].enabled # Enables(t) \/ seenRow[t].by # who[t].id
  /\ req[t].op = "update" => \/ req[t].edits
                             \/ req[t].version \notin {Absent, seenRow[t].version}
                             \/ seenRow[t].by # who[t].id

Loaded(t) == [seenRow[t] EXCEPT !.enabled = Enables(t), !.by = who[t].id]

\* Mutant: an update publishes the object as it was loaded.
SnapshotLoaded(t) ==
  IF Lifecycle(t) THEN Loaded(t)
  ELSE [seenRow[t] EXCEPT !.version = newRow[t].version, !.by = who[t].id]

\* _snapshot: after a lifecycle change, the loaded object with its new status.
Snapshot(t) == IF Lifecycle(t) THEN Loaded(t) ELSE newRow[t]

\* add_version: when a policy or mapping is created or updated, and when a
\* version is added to a schema.
AddsVersion(t) == \/ req[t].op \in {"create", "update"} /\ req[t].kind # "source"
                  \/ req[t].op = "add_version"

\* Mutant: add_version before the object is refreshed.
VersionRowStale(t) ==
  [version |-> IF req[t].version = Absent THEN seenRow[t].version
                                          ELSE req[t].version,
   content |-> IF req[t].op = "add_version" THEN t ELSE newRow[t].content,
   at      |-> stamp[t]]

VersionRow(t) ==
  [version |-> IF req[t].op = "add_version" THEN req[t].version
                                            ELSE newRow[t].version,
   content |-> IF req[t].op = "add_version" THEN t ELSE newRow[t].content,
   at      |-> stamp[t]]

\* The unique key of a new row: uq_tenant_source and uq_tenant_policy, but
\* ix_mappings_mapping_id for every tenant's mappings.
KeyOf(t) == <<req[t].kind, req[t].id,
              IF req[t].kind = "mapping" THEN Absent ELSE OwnerOf(t)>>

Clash(t) == \E p \in Pks :
  IF req[t].kind = "mapping"
  THEN rows[p].present /\ rows[p].kind = "mapping" /\ rows[p].id = req[t].id
  ELSE Same(rows[p], req[t].kind, OwnerOf(t), req[t].id)

\* The reference of a version row to its parent, which a deletion waits for.
RefKey(p, t) == <<"ref", p, t>>
-----------------------------------------------------------------------------
(* Writing, publishing and committing. *)

Lock(taken, k) == IF taken THEN {k} ELSE {}

ChangesUserRow(t) ==
  \/ req[t].active \notin {Absent, seenUser[t].active}
  \/ req[t].tenant \notin {Absent, seenUser[t].tenant}

\* The locks the statements of a write take.
Keys(t) ==
  LET r == req[t]
  IN  Lock(\/ r.op \in {"create_user", "delete_user"}
           \/ r.op = "update_user" /\ ChangesUserRow(t), <<"user", r.user>>)
      \cup Lock(r.op = "delete_user", RolesKey(t))
      \cup Lock(r.op \in TenantOps, <<"tenant", r.tenant>>)
      \cup Lock(r.op = "create", KeyOf(t))
      \cup (IF r.op = "delete" THEN {RefKey(r.pk, s) : s \in Threads} ELSE {})
      \cup Lock(r.op \in RowOps \ {"create", "add_version"} /\ Touches(t),
                <<"row", r.pk>>)

\* Unique and foreign keys, and an UPDATE or a refresh that finds no row.
Violates(t) ==
  LET r == req[t]
  IN  \/ r.op = "create_user" /\ users[r.user].present
      \/ r.op = "update_user" /\ (\/ ~StillThere(t)
                                  \/ r.tenant # Absent /\ ~Exists(r.tenant))
      \/ r.op = "create_tenant" /\ Exists(r.tenant)
      \/ r.op = "create" /\ (\/ Clash(t)
                             \/ OwnerOf(t) # Absent /\ ~Exists(OwnerOf(t)))
      \/ r.op = "update" /\ ~rows[r.pk].present
      \/ Lifecycle(t) /\ Touches(t) /\ ~rows[r.pk].present

CanWrite(t) == pc[t] = "write" /\ \A k \in Keys(t) : Free(t, k)

Write(t) ==
  /\ CanWrite(t) /\ ~Violates(t)
  /\ locks' = [locks EXCEPT ![t] = @ \cup Keys(t)]
  /\ newRow' = IF req[t].op \in RowOps
               THEN [newRow EXCEPT ![t] = Written(t)] ELSE newRow
  /\ pc' = [pc EXCEPT ![t] = IF req[t].op \notin RowOps THEN "commit"
                             ELSE IF AddsVersion(t) THEN "version" ELSE "publish"]
  /\ UNCHANGED <<tables, last, req, who, seenUser, seenRow, seenRoles,
                 newRoles, stamp, past>>

WriteFails(t) ==
  CanWrite(t) /\ Violates(t) /\ Fail(t) /\ UNCHANGED past

\* The version row refers to its parent: it waits for a deletion, and fails
\* when the parent is gone.
CanAdd(t) == pc[t] = "version" /\ Free(t, RefKey(PkOf(t), t))
Orphan(t) == req[t].op # "create" /\ ~rows[PkOf(t)].present

\* The object an update refreshed is not the row, or another request is about
\* to change the row.
Overtaken(t) ==
  LET now == rows[PkOf(t)]
  IN  ~Touches(t) /\ (\/ now.version # newRow[t].version
                      \/ now.content # newRow[t].content
                      \/ ~Free(t, <<"row", PkOf(t)>>))

AddVersion(t) ==
  LET p == PkOf(t)
  IN  /\ CanAdd(t) /\ ~Orphan(t)
      /\ made' = [made EXCEPT ![p] = @ + 1]
      /\ stamp' = [stamp EXCEPT ![t] = made[p] + 1]
      /\ locks' = [locks EXCEPT ![t] = @ \cup {RefKey(p, t)}]
      /\ raced' = IF Overtaken(t) THEN raced \cup {p} ELSE raced
      /\ pc' = [pc EXCEPT ![t] = "publish"]
      /\ UNCHANGED <<tables, last, req, who, seenUser, seenRow, seenRoles,
                     newRoles, newRow, granted, overlapped, moved, unsettled>>

AddVersionFails(t) == CanAdd(t) /\ Orphan(t) /\ Fail(t) /\ UNCHANGED past

\* Not the latest state of the row, or before a change still to be committed.
Outdated(t) ==
  LET known == IF Lifecycle(t) THEN seenRow[t] ELSE newRow[t]
  IN  /\ Lifecycle(t) \/ ~Touches(t)
      /\ rows[PkOf(t)] # known \/ ~Free(t, <<"row", PkOf(t)>>)

\* trigger_propagation; a target that cannot be reached is only logged.
Publish(t) ==
  LET p == PkOf(t)
      event == [op |-> req[t].op, row |-> Snapshot(t)]
  IN  /\ pc[t] = "publish"
      /\ pc' = [pc EXCEPT ![t] = "commit"]
      /\ \/ /\ last' = [last EXCEPT ![p] = event]
            /\ unsettled' = IF Outdated(t) THEN unsettled \cup {p}
                                           ELSE unsettled
         \/ UNCHANGED last /\ unsettled' = unsettled \cup {p}
      /\ UNCHANGED <<tables, req, who, seenUser, seenRow, seenRoles, newRoles,
                     newRow, stamp, locks, granted, overlapped, moved, made,
                     raced>>

\* The user row after the commit.
UserAfter(t) ==
  LET r == req[t]
      u == users[r.user]
  IN  IF r.op = "create_user"
      THEN [present |-> TRUE, id |-> t, active |-> TRUE, superuser |-> FALSE,
            roles |-> {r.role},
            tenant |-> IF who[t].super THEN r.tenant ELSE who[t].tenant]
      ELSE IF r.op = "delete_user" /\ StillThere(t) THEN NoUser
      ELSE IF r.op = "update_user" /\ StillThere(t)
      THEN [u EXCEPT !.roles = IF SetsRole(t) THEN newRoles[t] ELSE @,
                     !.active = Net(r.active, seenUser[t].active, @),
                     !.tenant = Net(r.tenant, seenUser[t].tenant, @)]
      ELSE u

\* Role rows that a waiting DELETE saw are gone; the one that was inserted
\* again is none of them.
Reinserts(t, s) ==
  SetsRole(t) /\ StillThere(t) /\ pc[s] = "blocked" /\ RolesKey(s) = RolesKey(t)

CommitUser(t) ==
  LET u == req[t].user
      after == UserAfter(t)
  IN  /\ pc[t] = "commit" /\ req[t].op \in UserOps
      /\ users' = [users EXCEPT ![u] = after]
      /\ granted' = IF ~is_super_admin(after) THEN granted \ {u}
                    ELSE IF who[t].super THEN granted \cup {u} ELSE granted
      /\ moved' = IF after.tenant # users[u].tenant /\ users[u].present
                  THEN moved \cup {u} ELSE moved
      /\ seenRoles' = [s \in Threads |->
                         IF Reinserts(t, s) THEN seenRoles[s] \ {req[t].role}
                                            ELSE seenRoles[s]]
      /\ UNCHANGED <<tenants, rows, newest, overlapped, unsettled, made, raced>>

CommitTenant(t) ==
  /\ pc[t] = "commit" /\ req[t].op \in TenantOps
  /\ tenants' = [tenants EXCEPT ![req[t].tenant] = req[t].status]
  /\ UNCHANGED <<users, rows, newest, seenRoles, past>>

\* A request without an UPDATE leaves the row as it is; version rows are
\* ordered by created_at.
CommitRow(t) ==
  LET p == PkOf(t)
  IN  /\ pc[t] = "commit" /\ req[t].op \in RowOps
      /\ rows' = IF Touches(t) /\ req[t].op # "add_version"
                 THEN [rows EXCEPT ![p] = newRow[t]] ELSE rows
      /\ newest' = IF req[t].op = "delete" THEN [newest EXCEPT ![p] = NoVersion]
                   ELSE IF AddsVersion(t) /\ stamp[t] > newest[p].at
                   THEN [newest EXCEPT ![p] = VersionRow(t)] ELSE newest
      /\ UNCHANGED <<users, tenants, seenRoles, past>>

\* The end of dep_db, with the audit record of the change.
Commit(t) ==
  /\ CommitUser(t) \/ CommitTenant(t) \/ CommitRow(t)
  /\ audit' = audit \cup {t}
  /\ pc' = [pc EXCEPT ![t] = "done"]
  /\ locks' = [locks EXCEPT ![t] = {}]
  /\ UNCHANGED <<last, req, who, seenUser, seenRow, newRoles, newRow, stamp>>

\* The database is lost before the commit.
CommitFails(t) ==
  /\ pc[t] = "commit" /\ Fail(t)
  /\ unsettled' = IF req[t].op \in RowOps THEN unsettled \cup {PkOf(t)}
                                          ELSE unsettled
  /\ UNCHANGED <<granted, overlapped, moved, made, raced>>
-----------------------------------------------------------------------------
Step(t) == \/ LoadUser(t) \/ LoadRow(t) \/ RefuseLoad(t)
           \/ ClearRoles(t) \/ Unblock(t) \/ AssignRole(t)
           \/ Write(t) \/ WriteFails(t)
           \/ AddVersion(t) \/ AddVersionFails(t) \/ Publish(t)
           \/ Commit(t) \/ CommitFails(t)

Next == \E t \in Threads : \/ \E r \in Requests : Begin(t, r)
                           \/ Refuse(t) \/ Step(t)

Spec == Init /\ [][Next]_vars
-----------------------------------------------------------------------------
(* Properties. *)

TypeOK ==
  /\ users \in [Users -> UserRecords]
  /\ tenants \in [Tenants -> Statuses \cup {Absent}]
  /\ rows \in [Pks -> RowRecords] /\ newest \in [Pks -> VersionRecords]
  /\ audit \subseteq Threads
  /\ seenRow \in [Threads -> RowRecords] /\ newRow \in [Threads -> RowRecords]
  /\ pc \in [Threads -> {"idle", "load", "roles", "blocked", "assign", "write",
                         "version", "publish", "commit", "done"}]
  /\ newRoles \in [Threads -> SUBSET Roles]
  /\ granted \subseteq Users /\ overlapped \subseteq Users
  /\ moved \subseteq Users /\ unsettled \subseteq Pks /\ raced \subseteq Pks
  /\ made \in [Pks -> Nat] /\ stamp \in [Threads -> Nat]

\* Platform authority comes from platform authority: whoever is a super admin
\* was made one by a caller who was one when it was authenticated, however the
\* role changes of several requests interleave.
AuthorityTraceable == \A u \in Users : is_super_admin(users[u]) => u \in granted

\* A user has one role; only two role changes at the same time leave more.
RolesExplained ==
  \A u \in Users : Cardinality(users[u].roles) > 1 => u \in overlapped

\* A request of a tenant's user commits changes to its own tenant only, also
\* when the caller or the object changes while the request runs; except for a
\* user that a super admin reassigned meanwhile, and for mappings, which may
\* be created for the tenant named in the body.
TenantBoundary ==
  [][\A t \in Threads : audit' = audit \cup {t} /\ t \notin audit
       /\ ~who[t].super =>
       /\ UNCHANGED tenants
       /\ \A u \in Users : users'[u] # users[u] /\ u \notin moved =>
            who[t].tenant \in {users[u].tenant, users'[u].tenant}
       /\ \A p \in Pks : rows'[p] # rows[p] /\ req[t].kind \in {"source", "policy"}
            => who[t].tenant \in {rows[p].tenant, rows'[p].tenant}]_vars

\* The newest version row of a policy or mapping is what the row says, with
\* updates of different columns running at the same time; except that an update
\* that changes nothing locks nothing, and may insert what it read before, or
\* while, another request changed the row.
HistoryCurrent ==
  \A p \in Pks \ raced :
    rows[p].present /\ rows[p].kind \in {"policy", "mapping"} =>
      /\ newest[p].version = rows[p].version
      /\ newest[p].content = rows[p].content

\* Once no transaction holds a row, the last event published about it is its
\* state: updates are published in the order of their commits.  Otherwise an
\* event was not sent, a commit failed, or a lifecycle change, or an update
\* that changes nothing, published the object as it had read it while another
\* request changed it.
PublishedCurrent ==
  \A p \in Pks :
    /\ p \notin unsettled
    /\ \A t \in Threads : pc[t] = "commit" /\ req[t].op \in RowOps => PkOf(t) # p
    /\ last[p] # NoEvent /\ last[p].op # "add_version"
    => last[p].row = rows[p]

=============================================================================
