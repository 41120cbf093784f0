---------------------------- MODULE MCConfigSync -----------------------------
(***************************************************************************)
(* Instances of ConfigSync for TLC: sequences of configuration events.     *)
(***************************************************************************)
EXTENDS ConfigSync

CONSTANTS tA, tB, tBad, e1, e2     \* tenants and entity ids

AllModules == {"M1", "M2", "M3", "M4", "M5"}

V(nums, tag) == [nums |-> nums, tag |-> tag]
V100 == V(<<1, 0, 0>>, "")
V110 == V(<<1, 1, 0>>, "")
V110rc == V(<<1, 1>>, "rc1")
V200 == V(<<2, 0, 0>>, "")

\* An event as M6 sends it, applied with the endpoint's arguments.
Ev(dist, type, tenant, entity, version) ==
  [dist |-> dist, target |-> Absent, type |-> type, tenant |-> tenant,
   entity |-> entity, version |-> version, payload |-> "good",
   restart |-> FALSE, reload |-> TRUE, verify |-> TRUE]

\* Equal and newer versions of a mapping, one of them distributed twice, one
\* of another tenant and one that is not reloaded; versions of M4's
\* configuration of two tenants, and one that is not reloaded; policies
\* that pass, fail and skip their check; parsers with and without an entity;
\* an M1 restart; events that are refused; and two versions of a mapping
\* without an entity, which the stale check does not compare.
MixedEvents ==
  [c \in Calls |->
     CASE c = 1 -> Ev(1, "mappings", tA, e1, V110)
       [] c = 2 -> Ev(2, "mappings", tA, e1, V110rc)
       [] c = 3 -> Ev(3, "mappings", tA, e1, V200)
       [] c = 4 -> Ev(1, "mappings", tA, e1, V110)
       [] c = 5 -> Ev(5, "mappings", tB, e1, V110)
       [] c = 6 -> [Ev(6, "mappings", tB, e1, V200) EXCEPT !.reload = FALSE]
       [] c = 7 -> Ev(7, "enrichment", tA, e1, V110)
       [] c = 8 -> Ev(8, "enrichment", tB, e1, V200)
       [] c = 9 -> [Ev(9, "enrichment", tA, e1, V200) EXCEPT !.reload = FALSE]
       [] c = 10 -> Ev(10, "policies", tA, e1, V110)
       [] c = 11 -> [Ev(11, "policies", tA, e1, V200) EXCEPT
                       !.payload = "unroutable"]
       [] c = 12 -> [Ev(12, "policies", tA, e1, V110) EXCEPT !.verify = FALSE]
       [] c = 13 -> Ev(13, "parsers", tA, e1, V110)
       [] c = 14 -> [Ev(14, "parsers", tA, Absent, V110) EXCEPT
                       !.verify = FALSE]
       [] c = 15 -> [Ev(15, "parsers", tA, e1, V110) EXCEPT
                       !.payload = "redos"]
       [] c = 16 -> [Ev(16, "sources", tA, e1, V110) EXCEPT !.restart = TRUE]
       [] c = 17 -> Ev(17, "sources", tA, e2, V110)
       [] c = 18 -> Ev(18, "policies", tBad, e1, V110)
       [] c = 19 -> Ev(19, "other", tA, e1, V110)
       [] c = 20 -> [Ev(20, "sources", tA, e1, V200) EXCEPT !.target = "M5"]
       [] c = 21 -> Ev(21, "mappings", tA, Absent, V200)
       [] c = 22 -> Ev(22, "mappings", tA, Absent, V110)]

\* Two versions of one mapping.
RacingEvents ==
  [c \in Calls |->
     CASE c = 1 -> Ev(1, "mappings", tA, e1, V110)
       [] c = 2 -> Ev(2, "mappings", tA, e1, V200)]
=============================================================================
