------------------------ MODULE ConfigurationManager -------------------------
(***************************************************************************)
(* M4's ConfigurationManager: the enrichment configurations by version and *)
(* the version that is active.  The operators describe what each method    *)
(* does to the registry, so that a caller that runs several of them in a   *)
(* row (the configuration worker's reload) can use them too.               *)
(***************************************************************************)
EXTENDS Naturals

CONSTANTS
  Versions,       \* version strings
  DefaultVersion  \* "1.0.0", seeded by __init__

ASSUME ManagerAssumption == DefaultVersion \in Versions

VARIABLES
  configs,  \* configs[v]: lifecycle state of version v, "absent" if unknown
  active    \* _active_version

mvars == <<configs, active>>

States == {"absent", "DRAFT", "ACTIVE", "DEPRECATED", "ROLLED_BACK"}

ManagerTypeOK == /\ configs \in [Versions -> States]
                 /\ active \in Versions

InitialConfigs == [v \in Versions |->
                     IF v = DefaultVersion THEN "ACTIVE" ELSE "absent"]

ManagerInit == configs = InitialConfigs /\ active = DefaultVersion
-----------------------------------------------------------------------------
(* What a method that does not raise makes of the registry cs. *)

Registered(cs, v) == [cs EXCEPT ![v] = "DRAFT"]

CanActivate(cs, v) == cs[v] \in {"DRAFT", "ROLLED_BACK"}

\* Mutant: the version that was active keeps its state.
ActivatedKeepingOld(cs, a, v) == [cs EXCEPT ![v] = "ACTIVE"]

\* The version that was active is deprecated first.
Activated(cs, a, v) ==
  [(IF a = v THEN cs ELSE [cs EXCEPT ![a] = "DEPRECATED"])
     EXCEPT ![v] = "ACTIVE"]

RolledBackTo(cs, a, v) == [cs EXCEPT ![a] = "ROLLED_BACK", ![v] = "ACTIVE"]
-----------------------------------------------------------------------------
register_draft(v) == /\ configs[v] = "absent"
                     /\ configs' = Registered(configs, v)
                     /\ UNCHANGED active

activate(v) == /\ CanActivate(configs, v)
               /\ configs' = Activated(configs, active, v)
               /\ active' = v

\* Any known version but the active one is a target, whatever its state.
rollback(v) == /\ configs[v] # "absent"
               /\ v # active
               /\ configs' = RolledBackTo(configs, active, v)
               /\ active' = v

ManagerNext == \E v \in Versions : register_draft(v) \/ activate(v) \/ rollback(v)

ManagerSpec == ManagerInit /\ [][ManagerNext]_mvars
-----------------------------------------------------------------------------
(* Properties. *)

\* The active version is the one configuration in state ACTIVE: get_active
\* never raises and never returns a deprecated or rolled-back configuration.
OneActive == {v \in Versions : configs[v] = "ACTIVE"} = {active}
=============================================================================
