------------------------- MODULE MCEnrichmentEngine --------------------------
(***************************************************************************)
(* Instances of EnrichmentEngine for TLC.                                  *)
(***************************************************************************)
EXTENDS EnrichmentEngine, TLC

CONSTANTS t1, t2, a, b, shared, ip, evil, site, v1, v2

\* One content without rules, one with two rules and a remote feed that comes
\* first and has a TTL of its own.
PlainContent ==
  [enabled |-> {"asset", "geo"}, priority |-> [p \in Providers |-> 100],
   timeouts |-> [p \in Providers |-> None], cache |-> TRUE, ttl |-> 0,
   tenants |-> {a, b}, rules |-> {}]

FeedContent ==
  [PlainContent EXCEPT
     !.enabled = {"threat", "http"},
     !.priority["http"] = 5,
     !.timeouts["http"] = 1,
     !.rules = {[tenants |-> {a}, present |-> {"domain"}, providers |-> {"threat"}],
                [tenants |-> {a, b}, present |-> {"src"}, providers |-> {"http"}]}]

MCContents == [v \in Versions |-> IF v = v1 THEN PlainContent ELSE FeedContent]

\* The remote feed writes into the namespace of the local threat provider.
MCNamespace == [p \in Providers |-> IF p = "http" THEN "threat" ELSE p]

\* Remote verdicts, which the local provider completes with its indicators.
MCSupplies == [asset |-> {"asset_id"}, geo |-> {"country"}, http |-> {"verdict"},
               threat |-> {"verdict", "indicators"}]

Ev(tenant, src, domain, host) ==
  [tenant |-> tenant, src |-> src, dst |-> None, domain |-> domain, host |-> host]
Req(e, ctx, scope, v, bypass) ==
  [event |-> e, tenant_context |-> ctx, scope |-> scope, version |-> v,
   bypass |-> bypass]

\* Two tenants' events from the same address, a context that is not the
\* event's tenant, and a request that names a version and passes the cache by.
MCRequests == {Req(Ev(a, evil, site, None), None, a, None, FALSE),
               Req(Ev(b, evil, site, None), None, None, None, FALSE),
               Req(Ev(b, evil, site, None), a, a, None, FALSE),
               Req(Ev(b, None, None, ip), b, None, v2, TRUE)}

\* Two events to the same site, one of them from a known bad address.
SiteRequests == {Req(Ev(a, i, site, None), None, a, None, FALSE) : i \in {ip, evil}}

MCAssets == {<<a, evil>>, <<shared, evil>>, <<b, ip>>}
=============================================================================
