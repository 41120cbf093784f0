-------------------------- MODULE MCDeliveryEngine ---------------------------
(***************************************************************************)
(* Instances of DeliveryEngine for TLC: r1 and r2 carry the same event.    *)
(***************************************************************************)
EXTENDS DeliveryEngine

CONSTANTS r1, r2, r3, r4, eA, eB, eC, tA, tB

EventOfRequest ==
  [r \in Requests |-> CASE r \in {r1, r2} -> eA [] r = r3 -> eB [] OTHER -> eC]

TenantOfRequest == [r \in Requests |-> IF r = r3 THEN tB ELSE tA]

Rule(tenant, when, destinations) ==
  [enabled |-> TRUE, tenant |-> tenant, when |-> when,
   destinations |-> destinations]

\* A rule for everyone, two for a tenant, and a disabled one; no rule that is
\* enabled wants eC, and "archive" has no connector.
Policies == {Rule(Absent, {eA}, {"ai_stream", "archive"}),
             Rule(tA, {eA, eB}, {"data_lake"}),
             Rule(tB, {eB}, {"siem", "ai_stream"}),
             [Rule(Absent, {eA, eC}, {"siem"}) EXCEPT !.enabled = FALSE]}

\* ai_stream cannot encode eB.
Unencodable == {<<eB, "ai_stream">>}
=============================================================================
