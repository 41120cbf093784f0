----------------------------- MODULE ConfigSync ------------------------------
(***************************************************************************)
(* The configuration synchronisation worker: apply_configuration and the   *)
(* five per-module handlers.  A handler runs without interruption up to    *)
(* its next HTTP call, so a call is the segments between those awaits:     *)
(* M5 and the unverified paths have none, M1, M3 and M4 await the check of *)
(* the live service, M2 awaits a registration and then the check.          *)
(*                                                                         *)
(* What the worker remembers is in memory; the files it writes stay.       *)
(***************************************************************************)
EXTENDS Integers, Sequences, FiniteSets

CONSTANTS
  Calls,        \* calls of apply_configuration
  Event,        \* Event[c]: the configuration event and arguments of call c
  Modules,      \* {"M1", ..., "M5"}
  Absent,       \* Python's None
  BadTenants,   \* tenant ids with path characters in them
  M4Importable,   \* the worker can import M4's code
  DefaultVersion, \* "1.0.0", the version M4 starts with
  MaxCalls,     \* bound: calls that arrive in a behaviour
  MaxOpen,      \* bound: calls in progress at a time
  MaxRestarts   \* bound: restarts of the worker

ConfigTypes == {"sources", "parsers", "mappings", "enrichment", "policies",
                "other"}
Versions == {Event[c].version : c \in Calls} \cup {DefaultVersion}
Dists == {Event[c].dist : c \in Calls}
Statuses == {"APPLIED", "RESTART_REQUIRED", "RELOAD_REQUIRED", "MATERIALIZED",
             "FAILED"}
DefaultEntities == {"default_sources", "unknown_parser", "custom_mapping",
                    "default"}

ASSUME SyncAssumption ==
  /\ IsFiniteSet(Calls) /\ Modules \subseteq {"M1", "M2", "M3", "M4", "M5"}
  /\ Absent \notin Calls /\ Absent \notin Statuses \cup DefaultEntities
  /\ MaxCalls \in Nat /\ MaxOpen \in Nat /\ MaxRestarts \in Nat
  /\ M4Importable \in BOOLEAN
  /\ \A v \in Versions : v.nums \in Seq(Int)
  /\ \A c \in Calls :
       /\ Event[c].type \in ConfigTypes
       /\ Event[c].target \in Modules \cup {Absent}
       /\ Event[c].payload \in {"good", "missing", "redos", "unroutable"}
       /\ {Event[c].restart, Event[c].reload, Event[c].verify}
            \subseteq BOOLEAN

VARIABLES
  acks,        \* _distributions: recorded status by distribution id
  activeVersions,  \* _active_versions by scope
  files,       \* files[p]: the call that last wrote path p
  configs,     \* M4's ConfigurationManager as imported by the worker
  active,
  pc,          \* pc[c]: "idle", "register", "verify", "done" or "lost"
  answer,      \* answer[c]: the status returned to M6
  restarts,
  overlapped   \* scopes with a call accepted while another was in progress

M4 == INSTANCE ConfigurationManager

memory == <<acks, activeVersions, configs, active>>
vars == <<memory, files, pc, answer, restarts, overlapped>>
-----------------------------------------------------------------------------
(* Versions and scopes. *)

\* parse_semver drops the pre-release tag, reads what is no number as 0 and
\* pads or cuts to three parts.  A part that is no number is negative here.
parse_semver(v) ==
  [i \in 1..3 |-> IF i <= Len(v.nums) /\ v.nums[i] >= 0 THEN v.nums[i] ELSE 0]

Older(a, b) == \/ a[1] < b[1]
               \/ a[1] = b[1] /\ a[2] < b[2]
               \/ a[1] = b[1] /\ a[2] = b[2] /\ a[3] < b[3]

Newer(v, w) == Older(parse_semver(w), parse_semver(v))

Or(x, default) == IF x = Absent THEN default ELSE x

scope_key(module, tenant, entity) ==
  <<module, Or(tenant, "global"), Or(entity, "default")>>

\* The module a configuration type belongs to.
Home(type) == CASE type = "sources"    -> "M1"
                [] type = "parsers"    -> "M2"
                [] type = "mappings"   -> "M3"
                [] type = "enrichment" -> "M4"
                [] type = "policies"   -> "M5"
                [] type = "other"      -> "UNKNOWN"

Mod(c) == Or(Event[c].target, Home(Event[c].type))

\* The entity id a handler falls back to when the event names none (M6's
\* parser payloads have no "id" that M2's handler could use before that).
EntityOf(c) == Or(Event[c].entity,
                  CASE Mod(c) = "M1" -> "default_sources"
                    [] Mod(c) = "M2" -> "unknown_parser"
                    [] Mod(c) = "M3" -> "custom_mapping"
                    [] Mod(c) \notin {"M1", "M2", "M3"} -> "default")

\* The scope the stale check reads and the one the handler writes.
CheckedScope(c) == scope_key(Mod(c), Event[c].tenant, Event[c].entity)
AppliedScope(c) == scope_key(Mod(c), Event[c].tenant, EntityOf(c))

Scopes == {CheckedScope(c) : c \in Calls} \cup {AppliedScope(c) : c \in Calls}

\* The file a handler materialises: only M2's depends on the tenant, and M1
\* and M4 have one file each.
Path(c) == CASE Mod(c) = "M1" -> <<"m1_sources">>
             [] Mod(c) = "M2" -> <<"parsers", Or(Event[c].tenant, "global"),
                                   EntityOf(c)>>
             [] Mod(c) = "M3" -> <<"mappings", EntityOf(c)>>
             [] Mod(c) = "M4" -> <<"m4_rules">>
             [] Mod(c) \in {"M5", "UNKNOWN"} -> <<"policies", EntityOf(c)>>

Paths == {Path(c) : c \in Calls}

TypeOK == /\ acks \in [Dists -> Statuses \cup {Absent}]
          /\ activeVersions \in [Scopes -> Versions \cup {Absent}]
          /\ files \in [Paths -> Calls \cup {Absent}]
          /\ M4!ManagerTypeOK
          /\ pc \in [Calls -> {"idle", "register", "verify", "done", "lost"}]
          /\ answer \in [Calls -> Statuses \cup {Absent}]
          /\ restarts \in 0..MaxRestarts
          /\ overlapped \subseteq Scopes

Init == /\ acks = [d \in Dists |-> Absent]
        /\ activeVersions = [s \in Scopes |-> Absent]
        /\ files = [p \in Paths |-> Absent]
        /\ M4!ManagerInit
        /\ pc = [c \in Calls |-> "idle"]
        /\ answer = [c \in Calls |-> Absent]
        /\ restarts = 0 /\ overlapped = {}
-----------------------------------------------------------------------------
(* apply_configuration: the checks, in their order, and the ACK. *)

Open == {c \in Calls : pc[c] \in {"register", "verify"}}

Arrive(c) ==
  /\ pc[c] = "idle"
  /\ Cardinality(Open) < MaxOpen
  /\ Cardinality({d \in Calls : pc[d] # "idle"}) < MaxCalls

Return(c, status) == /\ pc' = [pc EXCEPT ![c] = "done"]
                     /\ answer' = [answer EXCEPT ![c] = status]

\* The ACK of a dispatched event is recorded, whatever its status.
Record(c, status) == /\ acks' = [acks EXCEPT ![Event[c].dist] = status]
                     /\ Return(c, status)

Await(c, where) == pc' = [pc EXCEPT ![c] = where] /\ UNCHANGED <<acks, answer>>

Duplicate(c) == acks[Event[c].dist] # Absent

WrongModule(c) == Home(Event[c].type) \notin {"UNKNOWN", Mod(c)}

\* Mutant: an equal version is let through.
StaleAllowingEqual(c) ==
  LET v == activeVersions[CheckedScope(c)]
  IN v # Absent /\ Newer(v, Event[c].version)

\* Mutant: the stale check is left out.
StaleUnchecked(c) == FALSE

\* Not newer than the version recorded for the scope.
Stale(c) == LET v == activeVersions[CheckedScope(c)]
            IN v # Absent /\ ~Newer(Event[c].version, v)

Rejected(c) == \/ WrongModule(c)
               \/ Event[c].payload = "missing"
               \/ Event[c].tenant \in BadTenants
               \/ Stale(c)

\* A distribution with a recorded ACK gets that ACK again.
AnswerDuplicate(c) ==
  /\ Arrive(c) /\ Duplicate(c)
  /\ Return(c, acks[Event[c].dist])
  /\ UNCHANGED <<memory, files, restarts>>

\* A rejection is answered and not recorded.
Reject(c) ==
  /\ Arrive(c) /\ ~Duplicate(c) /\ Rejected(c)
  /\ Return(c, "FAILED")
  /\ UNCHANGED <<memory, files, restarts>>

Accepted(c, module) ==
  Arrive(c) /\ ~Duplicate(c) /\ ~Rejected(c) /\ Mod(c) = module
-----------------------------------------------------------------------------
(* The handlers. *)

Materialize(c) == files' = [files EXCEPT ![Path(c)] = c]

\* The part M3, M4 and M5 share once their file is written: without a reload
\* or a verification the answer is known, otherwise checked follows.
ReloadAndVerify(c, checked) ==
  \/ ~Event[c].reload /\ Record(c, "RELOAD_REQUIRED")
  \/ Event[c].reload /\ ~Event[c].verify /\ Record(c, "MATERIALIZED")
  \/ Event[c].reload /\ Event[c].verify /\ checked

\* Adoption was verified: the scope's version is recorded with the ACK.
Activate(c) ==
  /\ activeVersions' =
       [activeVersions EXCEPT ![AppliedScope(c)] = Event[c].version]
  /\ Record(c, "APPLIED")

apply_m1_source_config(c) ==
  /\ Accepted(c, "M1")
  /\ Materialize(c)
  /\ IF Event[c].restart THEN Await(c, "verify")
                         ELSE Record(c, "RESTART_REQUIRED")
  /\ UNCHANGED <<activeVersions, configs, active, restarts>>

\* The ReDoS screen raises; otherwise M2's registration is awaited.
apply_m2_parser_config(c) ==
  /\ Accepted(c, "M2")
  /\ IF Event[c].payload = "redos" THEN Record(c, "FAILED")
                                   ELSE Await(c, "register")
  /\ UNCHANGED <<activeVersions, configs, active, files, restarts>>

\* M2 answered, refused or could not be reached: the file is written.
M2Registered(c) ==
  /\ pc[c] = "register"
  /\ Materialize(c)
  /\ IF Event[c].verify THEN Await(c, "verify") ELSE Record(c, "MATERIALIZED")
  /\ UNCHANGED <<activeVersions, configs, active, restarts>>

\* Mutant: the version is recorded when the file is written.
M3ActivatedEarly(c) ==
  /\ Accepted(c, "M3")
  /\ Materialize(c)
  /\ activeVersions' =
       [activeVersions EXCEPT ![AppliedScope(c)] = Event[c].version]
  /\ ReloadAndVerify(c, Await(c, "verify"))
  /\ UNCHANGED <<configs, active, restarts>>

apply_m3_mapping_config(c) ==
  /\ Accepted(c, "M3")
  /\ Materialize(c)
  /\ ReloadAndVerify(c, Await(c, "verify"))
  /\ UNCHANGED <<activeVersions, configs, active, restarts>>

\* register_draft then activate on the imported manager; a known version is
\* not registered again, and an activation that raises is only logged.
reload_m4_runtime(v) ==
  LET cs == IF configs[v] = "absent" THEN M4!Registered(configs, v) ELSE configs
  IN IF ~M4Importable \/ active = v THEN UNCHANGED <<configs, active>>
     ELSE IF M4!CanActivate(cs, v)
     THEN configs' = M4!Activated(cs, active, v) /\ active' = v
     ELSE configs' = cs /\ UNCHANGED active

apply_m4_enrichment_config(c) ==
  /\ Accepted(c, "M4")
  /\ Materialize(c)
  /\ IF Event[c].reload THEN reload_m4_runtime(Event[c].version)
                        ELSE UNCHANGED <<configs, active>>
  /\ ReloadAndVerify(c, Await(c, "verify"))
  /\ UNCHANGED <<activeVersions, restarts>>

\* The check routes a sample event with the new rule, without an await.
apply_m5_policy_config(c) ==
  /\ Accepted(c, "M5")
  /\ Materialize(c)
  /\ \/ /\ Event[c].reload /\ Event[c].verify
        /\ Event[c].payload # "unroutable"
        /\ Activate(c)
     \/ /\ ReloadAndVerify(c, Event[c].payload = "unroutable"
                                /\ Record(c, "FAILED"))
        /\ UNCHANGED activeVersions
  /\ UNCHANGED <<configs, active, restarts>>

ApplyUnknown(c) ==
  /\ Accepted(c, "UNKNOWN")
  /\ Record(c, "FAILED")
  /\ UNCHANGED <<activeVersions, configs, active, files, restarts>>

\* Writing the file raises: nothing is materialised, the failure is recorded.
WriteRaises(c) ==
  /\ \/ \E m \in Modules \ {"M2"} : Accepted(c, m)
     \/ pc[c] = "register"
  /\ Record(c, "FAILED")
  /\ UNCHANGED <<activeVersions, configs, active, files, restarts>>

\* Whether verify_mX_runtime_adoption may answer True, or False: M1, M2 and
\* M3 say True with or without the live service; M4 compares the version of
\* the service if it answers, then the imported manager's if there is one.
MayAdopt(c) == Mod(c) = "M4" =>
  Event[c].version \in {DefaultVersion, active} \/ ~M4Importable
MayRefuse(c) ==
  Mod(c) = "M4" /\ M4Importable /\ Event[c].version # active

Verified(c) ==
  /\ pc[c] = "verify"
  /\ \/ MayAdopt(c) /\ Activate(c)
     \/ MayRefuse(c) /\ Record(c, "FAILED") /\ UNCHANGED activeVersions
  /\ UNCHANGED <<configs, active, files, restarts>>

\* The worker dies and starts with an empty memory; open calls get no answer.
Restart ==
  /\ restarts < MaxRestarts
  /\ restarts' = restarts + 1
  /\ acks' = [d \in Dists |-> Absent]
  /\ activeVersions' = [s \in Scopes |-> Absent]
  /\ configs' = M4!InitialConfigs /\ active' = DefaultVersion
  /\ pc' = [c \in Calls |-> IF c \in Open THEN "lost" ELSE pc[c]]
  /\ UNCHANGED <<files, answer>>
-----------------------------------------------------------------------------
Step(c) == \/ AnswerDuplicate(c) \/ Reject(c)
           \/ apply_m1_source_config(c)
           \/ apply_m2_parser_config(c) \/ M2Registered(c)
           \/ apply_m3_mapping_config(c)
           \/ apply_m4_enrichment_config(c)
           \/ apply_m5_policy_config(c)
           \/ ApplyUnknown(c)
           \/ WriteRaises(c)
           \/ Verified(c)

\* The scopes a step makes two calls overlap in.
Overlap ==
  {AppliedScope(c) : c \in
     {c \in Calls : /\ pc[c] = "idle" /\ pc'[c] # "idle"
                    /\ ~Duplicate(c) /\ ~Rejected(c)
                    /\ \E d \in Open : AppliedScope(d) = AppliedScope(c)}}

Next == /\ (\E c \in Calls : Step(c)) \/ Restart
        /\ overlapped' = overlapped \cup Overlap

Spec == Init /\ [][Next]_vars
-----------------------------------------------------------------------------
(* Properties. *)

\* The version a later event has to beat was verified and answered APPLIED by
\* this worker: a configuration that was rejected, that failed or that is
\* still being verified never blocks another one, with calls interleaving.
BarWasApplied ==
  \A s \in Scopes : activeVersions[s] # Absent =>
    \E c \in Calls : /\ AppliedScope(c) = s
                     /\ Event[c].version = activeVersions[s]
                     /\ answer[c] = "APPLIED"

\* config_worker.py: "Stale versions (V_incoming <= V_active) are strictly
\* REJECTED": the version of a scope is only ever replaced by a newer one.
ActiveNeverOlder ==
  [][\A s \in Scopes :
       activeVersions'[s] \notin {Absent, activeVersions[s]} =>
         \/ activeVersions[s] = Absent
         \/ Newer(activeVersions'[s], activeVersions[s])]_vars

\* The stale check reads the version of the scope that the handler records:
\* not so for M1, M2 and M3 if the event names no entity.
Guarded(c) == CheckedScope(c) = AppliedScope(c)

\* The file of a scope is never behind the version recorded for it, unless two
\* calls for the scope overlapped: a stale event is refused before it is
\* written, if the check guards it.  Scopes share paths, where the file may be
\* one that another scope wrote since: all those of M1 and of M4, and the
\* tenants' for one entity of M3 and M5; M2's is the scope's own.
FileKeepsUp ==
  \A c \in Calls :
    LET s == AppliedScope(c)
        f == files[Path(c)]
    IN  activeVersions[s] # Absent /\ s \notin overlapped =>
          /\ f # Absent
          /\ IF AppliedScope(f) = s
             THEN Guarded(f) => ~Newer(activeVersions[s], Event[f].version)
             ELSE \/ Mod(c) \in {"M1", "M4"}
                  \/ Mod(c) \in {"M3", "M5"} /\ Event[f].tenant # Event[c].tenant

\* Applied means newer: a distribution of a version that the scope has already,
\* which is what M6 sends for a lifecycle change, is never answered APPLIED,
\* nor is an older one, unless two calls for the scope overlapped or the event
\* is not checked against its scope.
AppliedIsNewer ==
  [][\A c \in Calls :
       LET s == AppliedScope(c)
       IN  /\ answer[c] = Absent /\ answer'[c] = "APPLIED"
           /\ ~Duplicate(c) /\ Guarded(c) /\ s \notin overlapped
           => \/ activeVersions[s] = Absent
              \/ Newer(Event[c].version, activeVersions[s])]_vars
=============================================================================
