--------------------------- MODULE EnrichmentEngine ---------------------------
(***************************************************************************)
(* M4's enrichment engine.  POST /v1/enrich runs in a thread of the        *)
(* server's pool: the request is authorised, a configuration is read from  *)
(* the ConfigurationManager, providers are planned, and for each of them   *)
(* in order of precedence the engine asks the shared MemoryLRUCache, calls *)
(* the provider on a miss, merges what it found and caches it.  Only the   *)
(* cache's own methods hold a lock: between the lookup and the provider's  *)
(* answer the other threads run, the configuration changes and time        *)
(* passes.                                                                 *)
(*                                                                         *)
(* An event is its tenant and the addresses and names the providers look   *)
(* up; what a provider finds is which of them it knows, and for whom.      *)
(***************************************************************************)
EXTENDS ConfigurationManager, Sequences

CONSTANTS
  Threads,
  Tenants,
  Shared,       \* the tenant "default", whose assets every tenant may see
  Ids,          \* addresses, domains and host names
  None,
  Requests,     \* what callers send: see RequestType
  Contents,     \* Contents[v]: what configuration v says
  Registry,     \* ids of the providers registered at start (deps.py)
  Namespace,    \* Namespace[p]: target_namespace of provider p
  Fields,       \* keys of the dictionaries providers return
  Supplies,     \* Supplies[p]: the keys provider p fills in
  Assets,       \* the CMDB: pairs <<tenant, id>>
  Located,      \* ids the GeoIP database knows
  Malformed,    \* ids that are not addresses
  Indicators,   \* ids the threat feed knows
  MaxSize,      \* max_size of the cache
  MaxRequests,  \* bound on the requests of a behaviour
  MaxTime       \* bound on the clock

Providers == {"asset", "geo", "threat", "http"}
Namespaces == {Namespace[p] : p \in Providers}
Known == Ids \cup {None}

EventType == [tenant : Tenants, src : Known, dst : Known, domain : Known,
              host : Known]

\* scope: the tenant the caller's API key is confined to, None for "*".
RequestType == [event : EventType, tenant_context : Tenants \cup {None},
                scope : Tenants \cup {None}, version : Versions \cup {None},
                bypass : BOOLEAN]

\* An enabled rule: it fires for its tenants when the fields it names exist.
RuleType == [tenants : SUBSET Tenants,
             present : SUBSET {"src", "dst", "domain", "host"},
             providers : SUBSET Providers]

ContentType == [enabled : SUBSET Providers, priority : [Providers -> Nat],
                timeouts : [Providers -> Nat \cup {None}], cache : BOOLEAN,
                ttl : Nat, tenants : SUBSET Tenants, rules : SUBSET RuleType]

ASSUME EngineAssumption ==
  /\ Shared \in Tenants /\ None \notin Ids \cup Tenants \cup Versions
  /\ Requests \subseteq RequestType
  /\ Contents \in [Versions -> ContentType]
  /\ Registry \subseteq Providers
  /\ Supplies \in [Providers -> SUBSET Fields]
  /\ Assets \subseteq Tenants \X Ids
  /\ Located \subseteq Ids /\ Malformed \subseteq Ids /\ Indicators \subseteq Ids
  /\ MaxSize \in Nat \ {0} /\ MaxRequests \in Nat /\ MaxTime \in Nat

VARIABLES
  cache,  \* _entries, the least recently used entry first
  pc,     \* pc[t]: where thread t is in process
  req,    \* req[t]: the request it works on, or the last it answered
  work,   \* work[t]: what process has put together for it
  sent,   \* requests received so far
  now     \* the clock, in units of the TTLs

evars == <<cache, pc, req, work, sent, now>>
vars == <<configs, active, evars>>
-----------------------------------------------------------------------------
(* Providers. *)

\* Python's x or y.
Or(x, y) == IF x # None THEN x ELSE y

\* The field a provider of a namespace goes by.
LookupField(e, ns) == CASE ns = "asset"  -> Or(e.src, e.host)
                        [] ns = "geo"    -> Or(e.src, e.dst)
                        [] ns = "threat" -> Or(e.domain, Or(e.dst, e.src))
                        [] OTHER         -> e.src

CanEnrich(p, e) == LookupField(e, p) # None

\* The cache's key goes by the namespace, the answer by the provider.
LookupKey(e, p) == LookupField(e, Namespace[p])

\* by: who answered; owner: whose data it is (None: anybody's); found: what
\* of the event was known; keys: of the dictionary; born: when it was stored.
Data == [by : Providers, owner : Tenants \cup {None}, found : SUBSET Known,
         keys : SUBSET Fields, born : 0..MaxTime]

Found(p, who, ids, keys) ==
  [status |-> "SUCCESS", by |-> p, owner |-> who, found |-> ids, keys |-> keys]
Answer(p, s) == [status |-> s, by |-> p, owner |-> None, found |-> {}, keys |-> {}]

\* The source address comes before the host, a tenant's record before the
\* shared one.
AssetLookup(e, tenant) ==
  LET listed(i) == <<tenant, i>> \in Assets \/ <<Shared, i>> \in Assets
      record(i) == Found("asset", IF <<tenant, i>> \in Assets THEN tenant ELSE Shared,
                         {i}, Supplies["asset"])
  IN  CASE listed(e.src) -> record(e.src)
        [] ~listed(e.src) /\ listed(e.host) -> record(e.host)
        [] OTHER -> Answer("asset", "NOT_FOUND")

GeoLookup(e) ==
  LET addr == LookupField(e, "geo")
  IN  CASE addr \in Malformed -> Answer("geo", "FAILED")
        [] addr \in Located \ Malformed -> Found("geo", None, {addr}, Supplies["geo"])
        [] OTHER -> Answer("geo", "NOT_FOUND")

ThreatMatches(e) == {e.domain, e.dst, e.src} \cap Indicators

ThreatLookup(e) == IF ThreatMatches(e) = {} THEN Answer("threat", "NOT_FOUND")
                   ELSE Found("threat", None, ThreatMatches(e), Supplies["threat"])

\* The remote service answers what it likes, an empty object too, for the
\* tenant it is told; an answer the result validator refuses is a FAILED one.
HttpLookup(e, tenant) ==
  {Found("http", tenant, {e.src}, ks) : ks \in SUBSET Supplies["http"]}
    \cup {Answer("http", s) : s \in {"NOT_FOUND", "FAILED", "TIMEOUT"}}

Enrich(p, e, tenant) == CASE p = "asset"  -> {AssetLookup(e, tenant)}
                          [] p = "geo"    -> {GeoLookup(e)}
                          [] p = "threat" -> {ThreatLookup(e)}
                          [] p = "http"   -> HttpLookup(e, tenant)

\* Mutant: the remote service's answers are filed as everybody's.
TenantSensitiveLocal(p) == p = "asset"

TenantSensitive(p) == p \in {"asset", "http"}
-----------------------------------------------------------------------------
(* Planning. *)

Intrinsic == [threat |-> 10, asset |-> 20, geo |-> 30, http |-> 80]

\* Intrinsic priorities differ, so the tie-break by id is never reached.
Precedes(v, p, q) ==
  LET cp == Contents[v].priority[p]
      cq == Contents[v].priority[q]
  IN  cp < cq \/ (cp = cq /\ Intrinsic[p] < Intrinsic[q])

First(v, ps) == {p \in ps : \A q \in ps \ {p} : Precedes(v, p, q)}

Triggers(rule, e, tenant) == /\ tenant \in rule.tenants
                             /\ \A f \in rule.present : e[f] # None

Plan(e, v, tenant) ==
  LET c == Contents[v]
      targeted == UNION {r.providers : r \in {x \in c.rules : Triggers(x, e, tenant)}}
  IN  {p \in c.enabled \cap Registry : /\ tenant \in c.tenants
                                       /\ c.rules = {} \/ p \in targeted
                                       /\ CanEnrich(p, e)}
-----------------------------------------------------------------------------
(* The cache. *)

CacheKey(tenant, p, k) ==
  [tenant |-> IF TenantSensitive(p) THEN tenant ELSE None, provider |-> p, key |-> k]

Keys == [tenant : Tenants \cup {None}, provider : Providers, key : Known]
Entries == [key : Keys, data : Data, at : 0..MaxTime, ttl : Nat]

Drop(s, i) == [j \in 1..(Len(s) - 1) |-> IF j < i THEN s[j] ELSE s[j + 1]]

Holds(c, k) == \E i \in DOMAIN c : c[i].key = k
At(c, k) == c[CHOOSE i \in DOMAIN c : c[i].key = k]
Without(c, k) ==
  IF Holds(c, k) THEN Drop(c, CHOOSE i \in DOMAIN c : c[i].key = k) ELSE c

\* Mutant: an entry is served whatever its age.
ExpiredNever(x) == FALSE

Expired(x) == now - x.at > x.ttl

\* A key already there moves to the end; a new one evicts the oldest entry
\* when the cache is full.
Set(c, x) ==
  Append(IF Holds(c, x.key) \/ Len(c) < MaxSize THEN Without(c, x.key)
         ELSE Drop(c, 1), x)
-----------------------------------------------------------------------------
(* A request. *)

Results == {"SUCCESS", "NOT_FOUND", "FAILED", "TIMEOUT"}
Record == [status : Results, cached : {"HIT", "MISS", "BYPASS"}, age : 0..MaxTime,
           keys : SUBSET Fields]
Counters == {"succeeded", "failed", "timed_out", "not_found"}
Statuses == Results \cup {"PARTIAL", "SKIPPED"}

\* Python's None is neither what a provider found nor the record of a provider.
ASSUME NoneAssumption == None \notin Data /\ None \notin Record

Fresh(plan) == [todo   |-> plan,
                merged |-> [ns \in Namespaces |-> [f \in Fields |-> None]],
                recs   |-> [p \in Providers |-> None],
                n      |-> [c \in Counters |-> 0],
                status |-> None]

Init == /\ ManagerInit
        /\ cache = <<>>
        /\ pc = [t \in Threads |-> "idle"]
        /\ req = [t \in Threads |-> None]
        /\ work = [t \in Threads |-> Fresh({})]
        /\ sent = 0
        /\ now = 0

RunType == [event : EventType, tenant : Tenants, cfg : Versions, bypass : BOOLEAN]
WorkType == [todo   : SUBSET Providers,
             merged : [Namespaces -> [Fields -> Data \cup {None}]],
             recs   : [Providers -> Record \cup {None}],
             n      : [Counters -> Nat],
             status : Statuses \cup {None}]

Working(t) == pc[t] \in {"lookup", "call", "done"}

TypeOK ==
  /\ ManagerTypeOK
  /\ cache \in Seq(Entries) /\ Len(cache) <= MaxSize
  /\ pc \in [Threads -> {"idle", "refused", "lookup", "call", "done"}]
  /\ req \in [Threads -> RunType \cup {None}]
  /\ \A t \in Threads : Working(t) => req[t] \in RunType
  /\ work \in [Threads -> WorkType]
  /\ sent \in 0..MaxRequests
  /\ now \in 0..MaxTime

\* enrich_event refuses a target outside the key's scope, TenantGuard one
\* that is not the event's own tenant.
Authorised(r, target) == /\ r.scope \in {None, target}
                         /\ r.event.tenant = target

\* A version that is not there, and no version, mean the active one.
Resolved(v) == IF v # None /\ configs[v] # "absent" THEN v ELSE active

enrich_event(t) ==
  /\ pc[t] \in {"idle", "refused", "done"}
  /\ sent < MaxRequests
  /\ \E r \in Requests :
       LET target == IF r.tenant_context # None THEN r.tenant_context
                     ELSE r.event.tenant
           v == Resolved(r.version)
       IN  IF Authorised(r, target)
           THEN /\ pc' = [pc EXCEPT ![t] = "lookup"]
                /\ req' = [req EXCEPT ![t] = [event |-> r.event, tenant |-> target,
                             cfg |-> v, bypass |-> r.bypass]]
                /\ work' = [work EXCEPT ![t] = Fresh(Plan(r.event, v, target))]
           ELSE /\ pc' = [pc EXCEPT ![t] = "refused"]
                /\ UNCHANGED <<req, work>>
  /\ sent' = sent + 1
  /\ UNCHANGED <<cache, now, mvars>>

UsesCache(t) == Contents[req[t].cfg].cache /\ ~req[t].bypass
KeyFor(t, p) == CacheKey(req[t].tenant, p, LookupKey(req[t].event, p))

\* A lookup finds an entry that has not expired.
Hit(t, p) == /\ UsesCache(t)
             /\ Holds(cache, KeyFor(t, p))
             /\ ~Expired(At(cache, KeyFor(t, p)))

\* A key of the namespace keeps what the first provider put there.
Merged(merged, ns, data) ==
  [merged EXCEPT ![ns] =
     [f \in Fields |-> IF @[f] = None /\ f \in data.keys THEN data ELSE @[f]]]

Counted(n, s) ==
  [n EXCEPT ![CASE s = "SUCCESS" -> "succeeded" [] s = "NOT_FOUND" -> "not_found"
                [] s = "TIMEOUT" -> "timed_out" [] s = "FAILED" -> "failed"] = @ + 1]

\* What the engine notes when it is done with provider p.
Settled(t, p, s, cached, age, data) ==
  LET w == work[t]
      rec == [status |-> s, cached |-> cached, age |-> age,
              keys |-> IF data = None THEN {} ELSE data.keys]
  IN  [todo   |-> w.todo \ {p},
       merged |-> IF data = None THEN w.merged
                  ELSE Merged(w.merged, Namespace[p], data),
       recs   |-> [w.recs EXCEPT ![p] = rec],
       n      |-> Counted(w.n, s),
       status |-> w.status]

CacheHit(t, p) ==
  /\ pc[t] = "lookup"
  /\ Hit(t, p)
  /\ LET x == At(cache, KeyFor(t, p))
     IN  /\ cache' = Append(Without(cache, x.key), x)
         /\ work' = [work EXCEPT ![t] =
                       Settled(t, p, "SUCCESS", "HIT", now - x.data.born, x.data)]
  /\ UNCHANGED <<pc, req, sent, now, mvars>>

\* An expired entry is deleted when it is looked up.
CacheMiss(t, p) ==
  /\ pc[t] = "lookup"
  /\ ~Hit(t, p)
  /\ cache' = IF UsesCache(t) THEN Without(cache, KeyFor(t, p)) ELSE cache
  /\ pc' = [pc EXCEPT ![t] = "call"]
  /\ UNCHANGED <<req, work, sent, now, mvars>>

\* A provider's configured timeout, where there is one, is its TTL.
Ttl(v, p) == IF Contents[v].timeouts[p] # None THEN Contents[v].timeouts[p]
             ELSE Contents[v].ttl

\* The provider answers, raises or times out; what it found is merged, then
\* cached.  Recording and caching a validated answer do not raise: a configured
\* timeout is finite and the cache has room for an entry.
ProviderReturns(t, p) ==
  /\ pc[t] = "call"
  /\ \E o \in Enrich(p, req[t].event, req[t].tenant) :
       LET data == [by |-> o.by, owner |-> o.owner, found |-> o.found,
                   keys |-> o.keys, born |-> now]
           entry == [key |-> KeyFor(t, p), data |-> data, at |-> now,
                     ttl |-> Ttl(req[t].cfg, p)]
           cached == IF UsesCache(t) THEN "MISS" ELSE "BYPASS"
       IN  IF o.status = "SUCCESS"
           THEN /\ work' = [work EXCEPT ![t] = Settled(t, p, o.status, cached, 0, data)]
                /\ cache' = IF UsesCache(t) THEN Set(cache, entry) ELSE cache
           ELSE /\ work' = [work EXCEPT ![t] = Settled(t, p, o.status, "MISS", 0, None)]
                /\ UNCHANGED cache
  /\ pc' = [pc EXCEPT ![t] = "lookup"]
  /\ UNCHANGED <<req, sent, now, mvars>>

\* Mutant: timeouts do not count as failures.
OverallForgivingTimeouts(n) ==
  CASE n.failed > 0 -> IF n.succeeded > 0 THEN "PARTIAL" ELSE "FAILED"
    [] n.failed = 0 /\ n.succeeded > 0 -> "SUCCESS"
    [] OTHER -> IF n.not_found > 0 THEN "NOT_FOUND" ELSE "SKIPPED"

Overall(n) ==
  LET bad == n.failed > 0 \/ n.timed_out > 0
      good == n.succeeded > 0
  IN  CASE bad /\ good   -> "PARTIAL"
        [] bad /\ ~good  -> IF n.failed = 0 /\ n.not_found = 0 THEN "TIMEOUT"
                            ELSE "FAILED"
        [] ~bad /\ good  -> "SUCCESS"
        [] ~bad /\ ~good -> IF n.not_found > 0 THEN "NOT_FOUND" ELSE "SKIPPED"

Finish(t) == /\ pc[t] = "lookup" /\ work[t].todo = {}
             /\ work' = [work EXCEPT ![t].status = Overall(work[t].n)]
             /\ pc' = [pc EXCEPT ![t] = "done"]
             /\ UNCHANGED <<cache, req, sent, now, mvars>>

Tick == /\ now < MaxTime
        /\ now' = now + 1
        /\ UNCHANGED <<cache, pc, req, work, sent, mvars>>

\* Whoever shares the process's manager (get_config_manager) changes the
\* configuration.
Reconfigure == ManagerNext /\ UNCHANGED evars

Step(t) == \/ \E p \in First(req[t].cfg, work[t].todo) :
                CacheHit(t, p) \/ CacheMiss(t, p) \/ ProviderReturns(t, p)
           \/ Finish(t)

Next == (\E t \in Threads : enrich_event(t) \/ Step(t)) \/ Tick \/ Reconfigure

Spec == Init /\ [][Next]_vars
-----------------------------------------------------------------------------
(* Properties. *)

\* Data that belongs to a tenant is only cached under that tenant's key and
\* only merged into that tenant's events, whichever requests filled and read
\* the cache (TenantGuard.build_tenant_cache_key; the CMDB's shared records
\* are everybody's).
TenantIsolation ==
  /\ \A i \in DOMAIN cache :
       cache[i].data.owner \in {None, Shared, cache[i].key.tenant}
  /\ \A t \in Threads : Working(t) => \A ns \in Namespaces, f \in Fields :
       work[t].merged[ns][f] # None =>
         work[t].merged[ns][f].owner \in {None, Shared, req[t].event.tenant}

\* No answer holds data that was in the cache for longer than the longest TTL
\* any configuration gives its provider, however often it was read meanwhile.
HitsAreFresh ==
  \A t \in Threads, p \in Providers :
    work[t].recs[p] # None => \E v \in Versions : work[t].recs[p].age <= Ttl(v, p)

\* The answer's status tells the truth about the planned providers: each has
\* one record, the status is SUCCESS only if none of them failed, and the
\* event carries every key the successful ones returned, and no other.
StatusTruthful ==
  \A t \in Threads : pc[t] = "done" =>
    LET planned == Plan(req[t].event, req[t].cfg, req[t].tenant)
        with(s) == {p \in planned : work[t].recs[p].status = s}
        bad == with("FAILED") \cup with("TIMEOUT")
        good == with("SUCCESS")
    IN  /\ {p \in Providers : work[t].recs[p] # None} = planned
        /\ work[t].status = "SUCCESS" <=> bad = {} /\ good # {}
        /\ work[t].status = "PARTIAL" <=> bad # {} /\ good # {}
        /\ work[t].status = "TIMEOUT" <=> planned # {} /\ with("TIMEOUT") = planned
        /\ work[t].status = "SKIPPED" <=> planned = {}
        /\ {x \in Namespaces \X Fields : work[t].merged[x[1]][x[2]] # None}
             = UNION {{Namespace[p]} \X work[t].recs[p].keys : p \in good}

\* docs/architecture/M4_ARCHITECTURE.md:62: the threat lookup is a
\* deterministic one across the event's IP and domain indicators.
VerdictFitsEvent ==
  \A t \in Threads : pc[t] = "done" /\ work[t].recs["threat"] # None =>
    LET m == work[t].merged[Namespace["threat"]]
        told == {m[f].found : f \in {g \in Fields : m[g] # None /\ m[g].by = "threat"}}
    IN  told = {ThreatMatches(req[t].event)} \ {{}}
=============================================================================
