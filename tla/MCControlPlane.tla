--------------------------- MODULE MCControlPlane ----------------------------
(***************************************************************************)
(* ControlPlane for TLC: a super admin, two tenants with their admins, a   *)
(* user and a name that is free; a policy, a baseline mapping, a schema.   *)
(***************************************************************************)
EXTENDS ControlPlane, TLC

CONSTANTS p1, m1, s1     \* primary keys

Symmetry == Permutations(Threads)

MCRoles == Platform \cup {"TENANT_ADMIN", "PARSER_DEVELOPER", "VIEWER"}
MCUsers == {"root", "ta", "tb", "ua", "new"}
MCTenants == {"A", "B", "C"}

User(tenant, role) == [present |-> TRUE, id |-> Absent, tenant |-> tenant,
                       roles |-> {role}, active |-> TRUE, superuser |-> FALSE]
MCInitialUsers ==
  [u \in MCUsers |-> CASE u = "root" -> User(Absent, "SUPER_ADMIN")
                       [] u = "ta"   -> User("A", "TENANT_ADMIN")
                       [] u = "tb"   -> User("B", "TENANT_ADMIN")
                       [] u = "ua"   -> User("A", "VIEWER")
                       [] OTHER      -> NoUser]
MCInitialTenants == [x \in MCTenants |-> IF x = "C" THEN Absent ELSE "ACTIVE"]

Row(kind, tenant) == [present |-> TRUE, kind |-> kind, id |-> "x",
                      tenant |-> tenant, version |-> 1, content |-> Absent,
                      enabled |-> TRUE, by |-> "root"]
MCPks == {p1, m1, s1}
MCInitialRows == [p \in MCPks |-> CASE p = p1 -> Row("policy", "A")
                                    [] p = m1 -> Row("mapping", Absent)
                                    [] OTHER  -> Row("schema", Absent)]

UpdateUser(by, user, role, active, tenant) ==
  [op |-> "update_user", by |-> by, user |-> user, role |-> role,
   active |-> active, tenant |-> tenant, scope |-> Absent]
CreateUser(by, user, role, tenant) ==
  [op |-> "create_user", by |-> by, user |-> user, role |-> role,
   tenant |-> tenant]
DeleteUser(by, user) == [op |-> "delete_user", by |-> by, user |-> user,
                         scope |-> Absent]
TenantOp(op, x, status) == [op |-> op, by |-> "root", tenant |-> x,
                            status |-> status]
Create(by, kind, id, scope, tenant) ==
  [op |-> "create", by |-> by, kind |-> kind, id |-> id, version |-> 1,
   scope |-> scope, tenant |-> tenant]
On(op, by, kind, pk, version) ==
  [op |-> op, by |-> by, kind |-> kind, pk |-> pk, version |-> version,
   scope |-> Absent]
Update(by, kind, pk, version, edits) ==
  [op |-> "update", by |-> by, kind |-> kind, pk |-> pk, version |-> version,
   edits |-> edits, scope |-> Absent]

MCRequests ==
  { [op |-> "login", by |-> "ua", user |-> "ua"],
    CreateUser("ta", "new", "VIEWER", Absent),
    CreateUser("root", "new", "SUPER_ADMIN", "A"),
    CreateUser("root", "ua", "VIEWER", "B"),
    UpdateUser("ta", "ua", "PARSER_DEVELOPER", Absent, Absent),
    UpdateUser("root", "ua", "SUPER_ADMIN", Absent, Absent),
    UpdateUser("ta", "ua", "SUPER_ADMIN", Absent, Absent),
    UpdateUser("root", "ua", Absent, Absent, "B"),
    UpdateUser("root", "ta", Absent, FALSE, Absent),
    DeleteUser("ta", "ua"), DeleteUser("ta", "tb"),
    TenantOp("create_tenant", "C", "ACTIVE"),
    TenantOp("update_tenant", "A", "SUSPENDED"),
    Create("ta", "source", "y", Absent, Absent),
    Create("ta", "policy", "y", Absent, Absent),
    Create("root", "policy", "y", "A", Absent),
    Create("ta", "mapping", "x", Absent, "B"),
    Create("ta", "mapping", "y", Absent, "B"),
    Create("root", "mapping", "y", Absent, "C"),
    Update("ta", "policy", p1, 2, TRUE), Update("root", "policy", p1, Absent, TRUE),
    Update("root", "policy", p1, Absent, FALSE), Update("tb", "policy", p1, 2, TRUE),
    Update("ta", "mapping", m1, 2, TRUE), Update("root", "mapping", m1, 2, FALSE),
    On("enable", "ta", "policy", p1, Absent), On("disable", "root", "policy", p1, Absent),
    On("delete", "ta", "policy", p1, Absent),
    On("add_version", "root", "schema", s1, 2) }
=============================================================================
