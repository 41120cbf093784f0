-------------------------- MODULE ConfigSyncProofs ---------------------------
(***************************************************************************)
(* For any configuration events, tenants and entities, any number of calls *)
(* in progress and of restarts: the version a later event has to beat was  *)
(* applied, the file of a scope keeps up with it, and APPLIED means newer. *)
(***************************************************************************)
EXTENDS ConfigSync, TLAPS

Five == {"M1", "M2", "M3", "M4", "M5"}

\* Who answered has ended.
Answered == \A c \in Calls : answer[c] # Absent => pc[c] = "done"

\* A file is where its writer, a call for one of the modules, puts it.
FilesInPlace ==
  \A p \in Paths : files[p] # Absent => Path(files[p]) = p /\ Mod(files[p]) \in Five

\* The recorded versions were applied, for one of the modules.
Applied ==
  \A s \in Scopes : activeVersions[s] # Absent =>
    \E c \in Calls : /\ AppliedScope(c) = s /\ Mod(c) \in Five
                     /\ Event[c].version = activeVersions[s]
                     /\ answer[c] = "APPLIED"

\* Not behind what is recorded for its scope, as far as it is checked.
Ahead(c) == \/ activeVersions[AppliedScope(c)] = Absent
            \/ Newer(Event[c].version, activeVersions[AppliedScope(c)])

\* A call in progress that no other one of its scope overlaps is alone, still
\* newer than what is recorded, and the last of its scope to write the file.
Alone(c) ==
  AppliedScope(c) \notin overlapped =>
    /\ \A d \in Open : AppliedScope(d) = AppliedScope(c) => d = c
    /\ Guarded(c) => Ahead(c)
    /\ pc[c] = "verify" =>
         /\ files[Path(c)] # Absent
         /\ AppliedScope(files[Path(c)]) = AppliedScope(c) => files[Path(c)] = c

InProgress(c) == /\ Mod(c) \in Five /\ (pc[c] = "register" => Mod(c) = "M2")
                 /\ Alone(c)

IInv == /\ TypeOK /\ Answered /\ FilesInPlace /\ Applied
        /\ \A c \in Open : InProgress(c)
        /\ FileKeepsUp
-----------------------------------------------------------------------------
(* Versions, scopes and paths. *)

\* The order of versions is strict.
LEMMA NewerStrict ==
  ASSUME NEW v \in Versions, NEW w \in Versions
  PROVE  ~Newer(v, v) /\ (Newer(v, w) => ~Newer(w, v))
  <1>1. ASSUME NEW u \in Versions
        PROVE  /\ parse_semver(u)[1] \in Int /\ parse_semver(u)[2] \in Int
               /\ parse_semver(u)[3] \in Int
    <2>1. u.nums \in Seq(Int)
      BY SyncAssumption
    <2>2. \A i \in 1..3 : i <= Len(u.nums) => u.nums[i] \in Int
      BY <2>1
    <2>3. \A i \in 1..3 : parse_semver(u)[i] \in Int
      BY <2>2 DEF parse_semver
    <2>4. QED BY <2>3
  <1>2. QED BY <1>1 DEF Newer, Older

LEMMA ModuleType ==
  ASSUME NEW c \in Calls
  PROVE  /\ Mod(c) \in Five \cup {"UNKNOWN"} /\ Event[c].version \in Versions
         /\ Event[c].dist \in Dists
         /\ AppliedScope(c) \in Scopes /\ CheckedScope(c) \in Scopes /\ Path(c) \in Paths
  <1>1. Home(Event[c].type) \in Five \cup {"UNKNOWN"}
    BY SyncAssumption DEF Home, Five, ConfigTypes
  <1>2. Mod(c) \in Five \cup {"UNKNOWN"}
    BY <1>1, SyncAssumption DEF Mod, Or, Five
  <1>3. QED BY <1>2 DEF Versions, Scopes, Paths, Dists

\* EntityOf is never None, so the scope a handler records tells its parts.
LEMMA ScopeParts ==
  ASSUME NEW c \in Calls, NEW d \in Calls
  PROVE  AppliedScope(c) = AppliedScope(d) <=>
           /\ Mod(c) = Mod(d) /\ EntityOf(c) = EntityOf(d)
           /\ Or(Event[c].tenant, "global") = Or(Event[d].tenant, "global")
  <1>1. ASSUME NEW x \in Calls PROVE Or(EntityOf(x), "default") = EntityOf(x)
    <2>1. EntityOf(x) # Absent
      BY SyncAssumption DEF EntityOf, Or, DefaultEntities
    <2>2. QED BY <2>1 DEF Or
  <1>2. QED BY <1>1 DEF AppliedScope, scope_key

\* One scope, one path.
LEMMA ScopePath ==
  ASSUME NEW c \in Calls, NEW d \in Calls, AppliedScope(c) = AppliedScope(d)
  PROVE  Path(c) = Path(d)
  BY ScopeParts DEF Path

\* Which scopes share a path.
LEMMA SharedPath ==
  ASSUME NEW c \in Calls, NEW d \in Calls, Mod(c) \in Five, Mod(d) \in Five,
         Path(c) = Path(d), AppliedScope(c) # AppliedScope(d)
  PROVE  \/ Mod(c) \in {"M1", "M4"}
         \/ Mod(c) \in {"M3", "M5"} /\ Event[d].tenant # Event[c].tenant
  <1>1. Mod(c) = Mod(d)
    BY DEF Path, Five
  <1>2. Mod(c) \notin {"M1", "M4"} => EntityOf(c) = EntityOf(d)
    BY <1>1 DEF Path, Five
  <1>3. Mod(c) = "M2" => Or(Event[c].tenant, "global") = Or(Event[d].tenant, "global")
    BY <1>1 DEF Path
  <1>4. Event[d].tenant = Event[c].tenant =>
          Or(Event[c].tenant, "global") = Or(Event[d].tenant, "global")
    OBVIOUS
  <1>5. QED BY <1>1, <1>2, <1>3, <1>4, ScopeParts DEF Five
-----------------------------------------------------------------------------
(* What a step does. *)

Accepts(c) == pc[c] = "idle" /\ ~Duplicate(c) /\ ~Rejected(c)

\* The call ends, or awaits its registration, and leaves no trace.
Passes(c) ==
  /\ UNCHANGED <<files, activeVersions>>
  /\ \/ pc'[c] = "done"
     \/ pc'[c] = "register" /\ Accepts(c) /\ Mod(c) = "M2"
  /\ answer'[c] = "APPLIED" => Duplicate(c) \/ answer[c] = "APPLIED"

\* It writes its file.
Writes(c) ==
  /\ Accepts(c) \/ pc[c] = "register"
  /\ Mod(c) \in Five /\ Materialize(c) /\ UNCHANGED activeVersions
  /\ pc'[c] \in {"verify", "done"}
  /\ answer'[c] = "APPLIED" => answer[c] = "APPLIED"

\* Its version is recorded, with the file or after it.
Activates(c) ==
  /\ activeVersions' = [activeVersions EXCEPT ![AppliedScope(c)] = Event[c].version]
  /\ pc'[c] = "done" /\ answer'[c] = "APPLIED"
  /\ \/ Accepts(c) /\ Mod(c) \in Five /\ Materialize(c)
     \/ pc[c] = "verify" /\ UNCHANGED files

\* Other calls are left alone, and a call in progress has no answer yet.
Separate(c) ==
  /\ pc[c] \in {"idle", "register", "verify"}
  /\ \A d \in Calls : d # c => pc'[d] = pc[d] /\ answer'[d] = answer[d]
  /\ pc'[c] = "done" \/ answer'[c] = answer[c]

LEMMA StepEffect ==
  ASSUME IInv, NEW c \in Calls, Step(c)
  PROVE  Separate(c) /\ (Passes(c) \/ Writes(c) \/ Activates(c))
  <1>0. DOMAIN pc = Calls /\ DOMAIN answer = Calls
    BY DEF IInv, TypeOK
  <1>1. ASSUME NEW a, Return(c, a)
        PROVE  /\ pc'[c] = "done" /\ answer'[c] = a
               /\ \A d \in Calls : d # c => pc'[d] = pc[d] /\ answer'[d] = answer[d]
    BY <1>0, <1>1 DEF Return
  <1>2. ASSUME NEW a, Record(c, a) PROVE Return(c, a)
    BY <1>2 DEF Record
  <1>3. ASSUME NEW w, Await(c, w)
        PROVE  /\ pc'[c] = w /\ answer'[c] = answer[c]
               /\ \A d \in Calls : d # c => pc'[d] = pc[d] /\ answer'[d] = answer[d]
    BY <1>0, <1>3 DEF Await
  <1>4. ASSUME NEW m, Accepted(c, m) PROVE Accepts(c) /\ Mod(c) = m
    BY <1>4 DEF Accepted, Accepts, Arrive
  <1>5. CASE AnswerDuplicate(c)
    BY <1>1, <1>5 DEF AnswerDuplicate, Arrive, Separate, Passes, memory
  <1>6. CASE Reject(c)
    BY <1>1, <1>6 DEF Reject, Arrive, Separate, Passes, memory
  <1>7. CASE apply_m1_source_config(c)
    <2>1. CASE Event[c].restart
      BY <1>3, <1>4, <1>7, <2>1 DEF apply_m1_source_config, Separate, Writes, Accepts, Five
    <2>2. CASE ~Event[c].restart
      BY <1>1, <1>2, <1>4, <1>7, <2>2
         DEF apply_m1_source_config, Separate, Writes, Accepts, Five
    <2>3. QED BY <2>1, <2>2
  <1>8. CASE apply_m2_parser_config(c)
    <2>1. CASE Event[c].payload = "redos"
      BY <1>1, <1>2, <1>4, <1>8, <2>1 DEF apply_m2_parser_config, Separate, Passes, Accepts
    <2>2. CASE Event[c].payload # "redos"
      BY <1>3, <1>4, <1>8, <2>2 DEF apply_m2_parser_config, Separate, Passes, Accepts
    <2>3. QED BY <2>1, <2>2
  <1>9. CASE apply_m3_mapping_config(c)
    BY <1>1, <1>2, <1>3, <1>4, <1>9
       DEF apply_m3_mapping_config, ReloadAndVerify, Separate, Writes, Accepts, Five
  <1>10. CASE apply_m4_enrichment_config(c)
    BY <1>1, <1>2, <1>3, <1>4, <1>10
       DEF apply_m4_enrichment_config, ReloadAndVerify, Separate, Writes, Accepts, Five
  <1>11. CASE apply_m5_policy_config(c)
    <2>1. CASE Activate(c)
      BY <1>1, <1>2, <1>4, <1>11, <2>1
         DEF apply_m5_policy_config, Activate, Separate, Activates, Accepts, Five
    <2>2. CASE ~Activate(c)
      BY <1>1, <1>2, <1>4, <1>11, <2>2
         DEF apply_m5_policy_config, ReloadAndVerify, Separate, Writes, Accepts, Five
    <2>3. QED BY <2>1, <2>2
  <1>12. CASE ApplyUnknown(c)
    BY <1>1, <1>2, <1>4, <1>12 DEF ApplyUnknown, Separate, Passes, Accepts
  <1>13. CASE WriteRaises(c)
    BY <1>1, <1>2, <1>4, <1>13 DEF WriteRaises, Separate, Passes, Accepts
  <1>14. CASE Verified(c)
    BY <1>1, <1>2, <1>14 DEF Verified, Activate, Separate, Passes, Activates
  <1>15. CASE M2Registered(c)
    <2>1. Mod(c) = "M2"
      BY <1>15 DEF M2Registered, IInv, Open, InProgress
    <2>2. QED BY <1>1, <1>2, <1>3, <1>15, <2>1 DEF M2Registered, Separate, Writes, Five
  <1>16. QED
    BY <1>5, <1>6, <1>7, <1>8, <1>9, <1>10, <1>11, <1>12, <1>13, <1>14, <1>15 DEF Step
-----------------------------------------------------------------------------
(* Types. *)

\* M4's manager, reloaded by the worker, stays well typed.
LEMMA ReloadType ==
  ASSUME M4!ManagerTypeOK, NEW v \in Versions, reload_m4_runtime(v)
  PROVE  M4!ManagerTypeOK'
  <1> DEFINE cs == IF configs[v] = "absent" THEN M4!Registered(configs, v) ELSE configs
  <1>1. cs \in [Versions -> M4!States] /\ active \in Versions
    BY DEF M4!ManagerTypeOK, M4!Registered, M4!States
  <1> HIDE DEF cs
  <1>2. M4!Activated(cs, active, v) \in [Versions -> M4!States]
    BY <1>1 DEF M4!Activated, M4!States
  <1>3. /\ configs' \in {configs, cs, M4!Activated(cs, active, v)}
        /\ active' \in {active, v}
    BY DEF reload_m4_runtime, cs
  <1>4. QED BY <1>1, <1>2, <1>3 DEF M4!ManagerTypeOK

LEMMA TypesStep ==
  ASSUME IInv, NEW c \in Calls, Step(c), overlapped' = overlapped \cup Overlap
  PROVE  TypeOK'
  <1>0. TypeOK /\ Event[c].dist \in Dists /\ Event[c].version \in Versions
        /\ Path(c) \in Paths /\ AppliedScope(c) \in Scopes
    BY ModuleType DEF IInv
  <1>1. ASSUME NEW a \in Statuses \cup {Absent}, Return(c, a)
        PROVE  /\ pc' \in [Calls -> {"idle", "register", "verify", "done", "lost"}]
               /\ answer' \in [Calls -> Statuses \cup {Absent}]
    BY <1>0, <1>1 DEF Return, TypeOK
  <1>2. ASSUME NEW a \in Statuses, Record(c, a)
        PROVE  /\ acks' \in [Dists -> Statuses \cup {Absent}] /\ Return(c, a)
    BY <1>0, <1>2 DEF Record, TypeOK
  <1>3. ASSUME NEW w \in {"register", "verify"}, Await(c, w)
        PROVE  /\ pc' \in [Calls -> {"idle", "register", "verify", "done", "lost"}]
               /\ answer' \in [Calls -> Statuses \cup {Absent}]
               /\ acks' \in [Dists -> Statuses \cup {Absent}]
    BY <1>0, <1>3 DEF Await, TypeOK
  <1>4. \/ /\ UNCHANGED acks /\ \E a \in Statuses \cup {Absent} : Return(c, a)
        \/ \E a \in Statuses : Record(c, a)
        \/ \E w \in {"register", "verify"} : Await(c, w)
    <2>1. CASE AnswerDuplicate(c) \/ Reject(c)
      BY <1>0, <2>1 DEF AnswerDuplicate, Reject, memory, TypeOK, Statuses
    <2>2. CASE ~(AnswerDuplicate(c) \/ Reject(c))
      BY <2>2 DEF Step, Statuses, apply_m1_source_config, apply_m2_parser_config, M2Registered,
           apply_m3_mapping_config, apply_m4_enrichment_config, apply_m5_policy_config,
           ReloadAndVerify, Activate, ApplyUnknown, WriteRaises, Verified
    <2>3. QED BY <2>1, <2>2
  <1>5. /\ acks' \in [Dists -> Statuses \cup {Absent}]
        /\ pc' \in [Calls -> {"idle", "register", "verify", "done", "lost"}]
        /\ answer' \in [Calls -> Statuses \cup {Absent}]
    <2>1. CASE UNCHANGED acks /\ \E a \in Statuses \cup {Absent} : Return(c, a)
      BY <1>0, <1>1, <2>1 DEF TypeOK
    <2>2. CASE \E a \in Statuses : Record(c, a)
      BY <1>1, <1>2, <2>2
    <2>3. CASE \E w \in {"register", "verify"} : Await(c, w)
      BY <1>3, <2>3
    <2>4. QED BY <1>4, <2>1, <2>2, <2>3
  <1>6. activeVersions' \in [Scopes -> Versions \cup {Absent}] /\ files' \in [Paths -> Calls \cup {Absent}]
    BY <1>0, StepEffect DEF TypeOK, Passes, Writes, Activates, Materialize
  <1>7. M4!ManagerTypeOK'
    <2>1. UNCHANGED <<configs, active>> \/ reload_m4_runtime(Event[c].version)
      BY DEF Step, AnswerDuplicate, Reject, memory, apply_m1_source_config,
           apply_m2_parser_config, M2Registered, apply_m3_mapping_config,
           apply_m4_enrichment_config, apply_m5_policy_config, ApplyUnknown, WriteRaises,
           Verified
    <2>2. CASE UNCHANGED <<configs, active>>
      BY <1>0, <2>2 DEF TypeOK, M4!ManagerTypeOK
    <2>3. QED BY <1>0, <2>1, <2>2, ReloadType DEF TypeOK
  <1>8. UNCHANGED restarts
    BY DEF Step, AnswerDuplicate, Reject, memory, apply_m1_source_config,
         apply_m2_parser_config, M2Registered, apply_m3_mapping_config,
         apply_m4_enrichment_config, apply_m5_policy_config, ApplyUnknown, WriteRaises,
         Verified
  <1>9. overlapped' \subseteq Scopes
    BY <1>0, ModuleType DEF TypeOK, Overlap
  <1>10. QED BY <1>0, <1>5, <1>6, <1>7, <1>8, <1>9 DEF TypeOK
-----------------------------------------------------------------------------
(* The invariant. *)

\* What the stale check lets through is newer than what is recorded.
LEMMA CheckedIsAhead ==
  ASSUME NEW c \in Calls, Accepts(c), Guarded(c) PROVE Ahead(c)
  BY DEF Accepts, Rejected, Stale, Guarded, Ahead

\* A step for a scope makes every other call in progress for it overlap.
LEMMA NoCompany ==
  ASSUME IInv, NEW c \in Calls, Accepts(c) \/ c \in Open, pc'[c] # "idle",
         overlapped' = overlapped \cup Overlap,
         NEW d \in Open, d # c, AppliedScope(d) \notin overlapped'
  PROVE  AppliedScope(c) # AppliedScope(d)
  <1> SUFFICES ASSUME AppliedScope(c) = AppliedScope(d) PROVE FALSE
    OBVIOUS
  <1>1. CASE c \in Open
    BY <1>1 DEF IInv, InProgress, Alone
  <1>2. CASE Accepts(c)
    <2>1. c \in {x \in Calls : /\ pc[x] = "idle" /\ pc'[x] # "idle"
                               /\ ~Duplicate(x) /\ ~Rejected(x)
                               /\ \E y \in Open : AppliedScope(y) = AppliedScope(x)}
      BY <1>2 DEF Accepts
    <2>2. AppliedScope(c) \in Overlap
      BY <2>1 DEF Overlap
    <2>3. QED BY <2>2
  <1>3. QED BY <1>1, <1>2

LEMMA InProgressStep ==
  ASSUME IInv, NEW c \in Calls, Step(c), overlapped' = overlapped \cup Overlap,
         NEW d \in Open'
  PROVE  InProgress(d)'
  <1>0. /\ Separate(c) /\ (Passes(c) \/ Writes(c) \/ Activates(c)) /\ d \in Calls
        /\ DOMAIN files = Paths /\ DOMAIN activeVersions = Scopes
        /\ Path(c) \in Paths /\ Path(d) \in Paths
        /\ AppliedScope(c) \in Scopes /\ AppliedScope(d) \in Scopes
    BY StepEffect, ModuleType DEF IInv, TypeOK, Open
  <1>1. CASE d # c
    <2>1. d \in Open /\ pc'[d] = pc[d] /\ InProgress(d)
      BY <1>0, <1>1 DEF Separate, Open, IInv
    <2> SUFFICES ASSUME AppliedScope(d) \notin overlapped'
                 PROVE  /\ \A e \in Open' : AppliedScope(e) = AppliedScope(d) => e = d
                        /\ Guarded(d) => Ahead(d)'
                        /\ pc[d] = "verify" =>
                             /\ files'[Path(d)] # Absent
                             /\ AppliedScope(files'[Path(d)]) = AppliedScope(d) =>
                                  files'[Path(d)] = d
      BY <2>1 DEF InProgress, Alone
    <2>2. Alone(d) /\ AppliedScope(d) \notin overlapped
      BY <2>1 DEF InProgress
    <2>3. (Accepts(c) \/ c \in Open) /\ pc'[c] # "idle" => AppliedScope(c) # AppliedScope(d)
      BY <1>1, <2>1, NoCompany
    <2>4. ASSUME NEW e \in Open', AppliedScope(e) = AppliedScope(d) PROVE e = d
      <3>1. CASE e = c
        <4>1. pc'[c] \in {"register", "verify"}
          BY <3>1 DEF Open
        <4>2. Accepts(c) \/ c \in Open
          BY <1>0, <4>1 DEF Passes, Writes, Activates, Open
        <4>3. QED BY <2>3, <2>4, <3>1, <4>1, <4>2
      <3>2. CASE e # c
        BY <1>0, <2>2, <2>4, <3>2 DEF Separate, Open, Alone
      <3>3. QED BY <3>1, <3>2
    <2>5. activeVersions'[AppliedScope(d)] = activeVersions[AppliedScope(d)]
      BY <1>0, <2>3 DEF Passes, Writes, Activates, Open
    <2>6. Guarded(d) => Ahead(d)'
      BY <2>2, <2>5 DEF Alone, Ahead
    <2>7. CASE UNCHANGED files
      BY <2>2, <2>4, <2>6, <2>7 DEF Alone
    <2>8. CASE Materialize(c) /\ (Accepts(c) \/ c \in Open) /\ pc'[c] # "idle"
      <3>1. files'[Path(d)] = IF Path(d) = Path(c) THEN c ELSE files[Path(d)]
        BY <1>0, <2>8 DEF Materialize
      <3>2. c # Absent
        BY SyncAssumption
      <3>3. QED BY <2>2, <2>3, <2>4, <2>6, <2>8, <3>1, <3>2 DEF Alone
    <2>9. QED BY <1>0, <2>7, <2>8 DEF Passes, Writes, Activates, Open
  <1>2. CASE d = c
    <2>1. /\ pc'[c] \in {"register", "verify"} /\ UNCHANGED activeVersions
          /\ Accepts(c) \/ (pc[c] = "register" /\ c \in Open /\ InProgress(c))
          /\ Mod(c) \in Five /\ (pc'[c] = "register" => Mod(c) = "M2")
          /\ pc'[c] = "verify" => Materialize(c)
      BY <1>0, <1>2 DEF Open, Passes, Writes, Activates, IInv, Five
    <2> SUFFICES ASSUME AppliedScope(c) \notin overlapped'
                 PROVE  /\ \A e \in Open' : AppliedScope(e) = AppliedScope(c) => e = c
                        /\ Guarded(c) => Ahead(c)'
                        /\ pc'[c] = "verify" =>
                             /\ files'[Path(c)] # Absent
                             /\ AppliedScope(files'[Path(c)]) = AppliedScope(c) =>
                                  files'[Path(c)] = c
      BY <1>2, <2>1 DEF InProgress, Alone
    <2>2. ASSUME NEW e \in Open', AppliedScope(e) = AppliedScope(c), e # c PROVE FALSE
      <3>1. e \in Open
        BY <1>0, <2>2 DEF Separate, Open
      <3>2. QED BY <2>1, <2>2, <3>1, NoCompany
    <2>3. Guarded(c) => Ahead(c)
      BY <2>1, CheckedIsAhead DEF InProgress, Alone
    <2>4. Ahead(c)' <=> Ahead(c)
      BY <2>1 DEF Ahead
    <2>5. pc'[c] = "verify" => files'[Path(c)] = c /\ c # Absent
      BY <1>0, <2>1, SyncAssumption DEF Materialize
    <2>6. QED BY <2>2, <2>3, <2>4, <2>5
  <1>3. QED BY <1>1, <1>2

LEMMA AppliedStep ==
  ASSUME IInv, NEW c \in Calls, Step(c)
  PROVE  Answered' /\ FilesInPlace' /\ Applied'
  <1>0. /\ Separate(c) /\ (Passes(c) \/ Writes(c) \/ Activates(c))
        /\ DOMAIN files = Paths /\ DOMAIN activeVersions = Scopes
        /\ Path(c) \in Paths /\ AppliedScope(c) \in Scopes
    BY StepEffect, ModuleType DEF IInv, TypeOK
  <1>1. Answered'
    BY <1>0 DEF IInv, Answered, Separate
  <1>2. FilesInPlace'
    <2>1. CASE UNCHANGED files
      BY <2>1 DEF IInv, FilesInPlace
    <2>2. CASE Materialize(c) /\ Mod(c) \in Five
      BY <1>0, <2>2 DEF IInv, FilesInPlace, Materialize
    <2>3. QED BY <1>0, <2>1, <2>2 DEF Passes, Writes, Activates
  <1>3. ASSUME NEW e \in Calls, answer[e] = "APPLIED" PROVE answer'[e] = "APPLIED"
    <2>1. answer[e] # Absent
      BY <1>3, SyncAssumption DEF Statuses
    <2>2. e # c
      BY <1>0, <2>1 DEF IInv, Answered, Separate
    <2>3. QED BY <1>0, <1>3, <2>2 DEF Separate
  <1>4. Applied'
    <2> SUFFICES ASSUME NEW s \in Scopes, activeVersions'[s] # Absent
                 PROVE  \E e \in Calls : /\ AppliedScope(e) = s /\ Mod(e) \in Five
                                         /\ Event[e].version = activeVersions'[s]
                                         /\ answer'[e] = "APPLIED"
      BY DEF Applied
    <2>1. CASE activeVersions'[s] = activeVersions[s]
      BY <1>3, <2>1 DEF IInv, Applied
    <2>2. CASE activeVersions'[s] # activeVersions[s]
      <3>1. Activates(c) /\ s = AppliedScope(c) /\ activeVersions'[s] = Event[c].version
        BY <1>0, <2>2 DEF Passes, Writes, Activates
      <3>2. Mod(c) \in Five /\ answer'[c] = "APPLIED"
        BY <3>1 DEF Activates, IInv, Open, InProgress
      <3>3. QED BY <3>1, <3>2
    <2>3. QED BY <2>1, <2>2
  <1>5. QED BY <1>1, <1>2, <1>4

\* A scope with a recorded version is one of the modules'.
LEMMA RecordedModule ==
  ASSUME IInv, NEW c \in Calls, activeVersions[AppliedScope(c)] # Absent
  PROVE  Mod(c) \in Five
  BY ModuleType, ScopeParts DEF IInv, Applied

LEMMA FileStep ==
  ASSUME IInv, NEW c \in Calls, Step(c), overlapped \subseteq overlapped'
  PROVE  FileKeepsUp'
  <1>0. /\ Separate(c) /\ (Passes(c) \/ Writes(c) \/ Activates(c)) /\ FileKeepsUp
        /\ DOMAIN files = Paths /\ DOMAIN activeVersions = Scopes
        /\ Path(c) \in Paths /\ AppliedScope(c) \in Scopes /\ c # Absent
        /\ activeVersions \in [Scopes -> Versions \cup {Absent}] /\ Event[c].version \in Versions
    BY StepEffect, ModuleType, SyncAssumption DEF IInv, TypeOK
  <1> SUFFICES ASSUME NEW d \in Calls, activeVersions'[AppliedScope(d)] # Absent,
                      AppliedScope(d) \notin overlapped'
               PROVE  LET s == AppliedScope(d)
                          f == files'[Path(d)]
                      IN  /\ f # Absent
                          /\ IF AppliedScope(f) = s
                             THEN Guarded(f) => ~Newer(activeVersions'[s], Event[f].version)
                             ELSE \/ Mod(d) \in {"M1", "M4"}
                                  \/ /\ Mod(d) \in {"M3", "M5"}
                                     /\ Event[f].tenant # Event[d].tenant
    BY DEF FileKeepsUp
  <1> DEFINE s == AppliedScope(d)
             f == files'[Path(d)]
  <1>1. /\ Path(d) \in Paths /\ s \in Scopes /\ s \notin overlapped
        /\ Materialize(c) => f = IF Path(d) = Path(c) THEN c ELSE files[Path(d)]
    BY <1>0, ModuleType DEF Materialize
  <1>2. CASE activeVersions'[s] = activeVersions[s] /\ f = files[Path(d)]
    BY <1>0, <1>1, <1>2 DEF FileKeepsUp
  <1>3. CASE /\ activeVersions'[s] = activeVersions[s] /\ Mod(c) \in Five
             /\ f = c /\ Path(d) = Path(c) /\ (Accepts(c) \/ pc[c] = "register")
    <2>1. Mod(d) \in Five
      BY <1>3, RecordedModule
    <2>2. CASE AppliedScope(c) # s
      BY <1>0, <1>3, <2>1, <2>2, SharedPath
    <2>3. CASE AppliedScope(c) = s
      <3>1. Guarded(c) => Ahead(c)
        BY <1>1, <1>3, <2>3, CheckedIsAhead DEF IInv, Open, InProgress, Alone
      <3>2. activeVersions[s] \in Versions
        BY <1>0, <1>1, <1>3
      <3>3. Guarded(c) => ~Newer(activeVersions[s], Event[c].version)
        BY <1>0, <1>3, <2>3, <3>1, <3>2, NewerStrict DEF Ahead
      <3>4. QED BY <1>0, <1>3, <2>3, <3>3
    <2>4. QED BY <2>2, <2>3
  <1>4. CASE Activates(c) /\ s = AppliedScope(c)
    <2>1. activeVersions'[s] = Event[c].version /\ Path(d) = Path(c) /\ Mod(d) = Mod(c)
      BY <1>0, <1>4, ScopePath, ScopeParts DEF Activates
    <2>2. CASE f = c
      BY <1>0, <1>4, <2>1, <2>2, NewerStrict
    <2>3. CASE f # c
      <3>1. pc[c] = "verify" /\ f = files[Path(c)] /\ InProgress(c)
        BY <1>1, <1>4, <2>1, <2>3 DEF Activates, IInv, Open
      <3>2. f # Absent /\ AppliedScope(f) # s /\ Mod(c) \in Five
        BY <1>1, <1>4, <2>3, <3>1 DEF InProgress, Alone
      <3>3. f \in Calls /\ Path(f) = Path(c) /\ Mod(f) \in Five
        BY <1>0, <3>1, <3>2 DEF IInv, TypeOK, FilesInPlace
      <3>4. QED BY <1>4, <2>1, <3>2, <3>3, SharedPath
    <2>4. QED BY <2>2, <2>3
  <1>5. CASE Passes(c)
    BY <1>2, <1>5 DEF Passes
  <1>6. CASE Writes(c)
    BY <1>1, <1>2, <1>3, <1>6 DEF Writes
  <1>7. CASE Activates(c) /\ s # AppliedScope(c)
    <2>1. activeVersions'[s] = activeVersions[s]
      BY <1>0, <1>1, <1>7 DEF Activates
    <2>2. QED BY <1>1, <1>2, <1>3, <1>7, <2>1 DEF Activates
  <1>8. QED BY <1>0, <1>4, <1>5, <1>6, <1>7

\* A restart forgets the versions and the calls in progress, not the files.
LEMMA RestartStep ==
  ASSUME IInv, Restart, overlapped' = overlapped \cup Overlap
  PROVE  IInv'
  <1>1. /\ \A c \in Calls : pc'[c] = IF c \in Open THEN "lost" ELSE pc[c]
        /\ \A s \in Scopes : activeVersions'[s] = Absent
        /\ UNCHANGED <<files, answer>>
    BY DEF Restart
  <1>2. Open' = {}
    BY <1>1 DEF Open
  <1>3. TypeOK'
    <2>1. M4!ManagerTypeOK'
      BY DEF Restart, M4!ManagerTypeOK, M4!InitialConfigs, M4!States, Versions
    <2>2. pc' \in [Calls -> {"idle", "register", "verify", "done", "lost"}]
      BY DEF Restart, IInv, TypeOK
    <2>3. overlapped' \subseteq Scopes
      BY ModuleType DEF IInv, TypeOK, Overlap
    <2>4. restarts' \in 0..MaxRestarts
      BY SyncAssumption DEF Restart, IInv, TypeOK
    <2>5. /\ acks' \in [Dists -> Statuses \cup {Absent}]
          /\ activeVersions' \in [Scopes -> Versions \cup {Absent}]
      BY DEF Restart
    <2>6. QED BY <1>1, <2>1, <2>2, <2>3, <2>4, <2>5 DEF IInv, TypeOK
  <1>4. Answered'
    BY <1>1 DEF IInv, Answered, Open
  <1>5. FilesInPlace' /\ Applied'
    BY <1>1 DEF IInv, FilesInPlace, Applied
  <1>6. FileKeepsUp'
    BY <1>1, ModuleType DEF FileKeepsUp
  <1>7. QED BY <1>2, <1>3, <1>4, <1>5, <1>6 DEF IInv

LEMMA SyncNext ==
  ASSUME IInv, [Next]_vars PROVE IInv'
  <1>1. CASE Next
    <2>1. CASE Restart
      BY <1>1, <2>1, RestartStep DEF Next
    <2>2. CASE \E c \in Calls : Step(c)
      <3>1. PICK c \in Calls : Step(c)
        BY <2>2
      <3>2. overlapped' = overlapped \cup Overlap /\ overlapped \subseteq overlapped'
        BY <1>1 DEF Next
      <3>3. TypeOK' /\ Answered' /\ FilesInPlace' /\ Applied' /\ FileKeepsUp'
        BY <3>1, <3>2, TypesStep, AppliedStep, FileStep
      <3>4. \A d \in Open' : InProgress(d)'
        BY <3>1, <3>2, InProgressStep
      <3>5. QED BY <3>3, <3>4 DEF IInv
    <2>3. QED BY <1>1, <2>1, <2>2 DEF Next
  <1>2. CASE UNCHANGED vars
    <2>1. UNCHANGED <<acks, activeVersions, configs, active, files, pc, answer, restarts, overlapped>>
      BY <1>2 DEF vars, memory
    <2>2. TypeOK' /\ Answered' /\ FilesInPlace' /\ Applied' /\ FileKeepsUp'
      BY <2>1 DEF IInv, TypeOK, M4!ManagerTypeOK, Answered, FilesInPlace, Applied, FileKeepsUp
    <2>3. \A d \in Open' : InProgress(d)'
      BY <2>1 DEF IInv, Open, InProgress, Alone, Ahead
    <2>4. QED BY <2>2, <2>3 DEF IInv
  <1>3. QED BY <1>1, <1>2

\* The inductive invariant: a call in progress that no other one of its scope
\* overlaps is alone, ahead, and the last of its scope to write the file.
THEOREM SyncInvariant == Spec => []IInv
  <1>1. Init => IInv
    <2> SUFFICES ASSUME Init PROVE IInv
      OBVIOUS
    <2>1. M4!ManagerTypeOK
      BY DEF Init, M4!ManagerInit, M4!ManagerTypeOK, M4!InitialConfigs, M4!States, Versions
    <2>2. TypeOK
      BY <2>1, SyncAssumption DEF Init, TypeOK
    <2>3. Answered /\ FilesInPlace /\ Applied /\ FileKeepsUp
      BY ModuleType DEF Init, Answered, FilesInPlace, Applied, FileKeepsUp
    <2>4. Open = {}
      BY DEF Init, Open
    <2>5. QED BY <2>2, <2>3, <2>4 DEF IInv
  <1>2. IInv /\ [Next]_vars => IInv'
    BY SyncNext
  <1>3. QED BY <1>1, <1>2, PTL DEF Spec

\* ConfigWorker._active_versions: the version a later event has to beat was
\* verified and answered APPLIED by this worker.
THEOREM BarStaysApplied == Spec => []BarWasApplied
  <1>1. IInv => BarWasApplied
    BY DEF IInv, Applied, BarWasApplied
  <1>2. QED BY <1>1, SyncInvariant, PTL

\* The materialised file of a scope is never behind the version recorded for
\* it, unless calls for the scope overlapped or another scope shares its path.
THEOREM FileStaysCurrent == Spec => []FileKeepsUp
  <1>1. IInv => FileKeepsUp
    BY DEF IInv
  <1>2. QED BY <1>1, SyncInvariant, PTL

\* apply_configuration: what it answers APPLIED is newer than what the scope
\* had, unless calls overlapped or the event names no entity.
THEOREM AppliedStaysNewer == Spec => AppliedIsNewer
  <1> DEFINE Rises == \A c \in Calls :
                        LET s == AppliedScope(c)
                        IN  /\ answer[c] = Absent /\ answer'[c] = "APPLIED"
                            /\ ~Duplicate(c) /\ Guarded(c) /\ s \notin overlapped
                            => \/ activeVersions[s] = Absent
                               \/ Newer(Event[c].version, activeVersions[s])
  <1>1. IInv /\ [Next]_vars => [Rises]_vars
    <2> SUFFICES ASSUME IInv, Next, NEW c \in Calls, answer[c] = Absent,
                        answer'[c] = "APPLIED", ~Duplicate(c), Guarded(c),
                        AppliedScope(c) \notin overlapped
                 PROVE  Ahead(c)
      BY DEF Ahead
    <2>1. "APPLIED" # Absent
      BY SyncAssumption DEF Statuses
    <2>2. PICK d \in Calls : Step(d)
      BY <2>1 DEF Next, Restart
    <2>3. d = c
      BY <2>1, <2>2, StepEffect DEF Separate
    <2>4. Activates(c)
      BY <2>1, <2>2, <2>3, StepEffect DEF Passes, Writes
    <2>5. Accepts(c) \/ (c \in Open /\ InProgress(c))
      BY <2>4 DEF Activates, Open, IInv
    <2>6. QED BY <2>5, CheckedIsAhead DEF InProgress, Alone
  <1>2. QED BY <1>1, SyncInvariant, PTL DEF Spec, AppliedIsNewer
=============================================================================
