----------------------- MODULE EnrichmentEngineProofs ------------------------
(***************************************************************************)
(* For any number of threads, tenants, events, configurations and cache    *)
(* sizes: the cache keeps its bound and its tenants apart, no answer holds *)
(* data older than a configured TTL, statuses are truthful, and the        *)
(* configuration manager has one ACTIVE configuration.                     *)
(***************************************************************************)
EXTENDS EnrichmentEngine, SequenceTheorems, TLAPS

\* Entries as the engine files them: the data is the key's tenant's or
\* nobody's, was stored at the entry's time and has some version's TTL.
FiledBy(n) == {x \in Entries : /\ x.data.owner \in {None, Shared, x.key.tenant}
                               /\ x.data.born <= n
                               /\ x.at = x.data.born
                               /\ \E v \in Versions : x.ttl = Ttl(v, x.key.provider)}

Owned(w, tenant) ==
  \A ns \in Namespaces, f \in Fields :
    w.merged[ns][f] # None => w.merged[ns][f].owner \in {None, Shared, tenant}

Timely(w) ==
  \A p \in Providers :
    w.recs[p] # None => \E v \in Versions : w.recs[p].age <= Ttl(v, p)

\* A request in process is for its event's tenant (enrich_event, TenantGuard).
OwnTenant ==
  \A t \in Threads : Working(t) => req[t].tenant = req[t].event.tenant

\* The inductive invariant.
IInv == /\ TypeOK
        /\ OneActive
        /\ cache \in Seq(FiledBy(now))
        /\ OwnTenant
        /\ \A t \in Threads : Timely(work[t])
        /\ \A t \in Threads : Working(t) => Owned(work[t], req[t].event.tenant)

\* Removing one entry leaves a shorter sequence of the same kind.
LEMMA DropSeq ==
  ASSUME NEW S, NEW s \in Seq(S), NEW i \in Nat, s # <<>>
  PROVE  Drop(s, i) \in Seq(S) /\ Len(Drop(s, i)) = Len(s) - 1
  <1>1. Len(s) \in Nat /\ Len(s) >= 1 /\ DOMAIN s = 1..Len(s)
    OBVIOUS
  <1>2. \A j \in 1..(Len(s) - 1) : s[j] \in S /\ s[j + 1] \in S
    BY <1>1
  <1>3. Drop(s, i) \in [1..(Len(s) - 1) -> S]
    BY <1>2 DEF Drop
  <1>4. Len(s) - 1 \in Nat
    BY <1>1
  <1>5. Drop(s, i) \in Seq(S)
    BY <1>3, <1>4, SeqDef
  <1>6. 1..Len(Drop(s, i)) = 1..(Len(s) - 1) /\ Len(Drop(s, i)) \in Nat
    BY <1>3, <1>5, LenProperties
  <1> QED
    BY <1>4, <1>5, <1>6

\* What a lookup finds was in the cache under that key; taking the key out
\* leaves the other entries.
LEMMA WithoutSeq ==
  ASSUME NEW S, NEW c \in Seq(S), NEW k
  PROVE  /\ Without(c, k) \in Seq(S) /\ Len(Without(c, k)) <= Len(c)
         /\ Holds(c, k) => /\ Len(Without(c, k)) = Len(c) - 1
                           /\ At(c, k) \in S /\ At(c, k).key = k
  <1>1. CASE ~Holds(c, k)
    BY <1>1 DEF Without
  <1>2. CASE Holds(c, k)
    <2> DEFINE i == CHOOSE j \in DOMAIN c : c[j].key = k
    <2>1. i \in DOMAIN c /\ c[i].key = k
      BY <1>2 DEF Holds
    <2>0. Without(c, k) = Drop(c, i) /\ At(c, k) = c[i]
      BY <1>2 DEF Without, At
    <2> HIDE DEF i
    <2>2. i \in Nat /\ c # <<>> /\ c[i] \in S /\ Len(c) \in Nat
      BY <2>1
    <2>3. Drop(c, i) \in Seq(S) /\ Len(Drop(c, i)) = Len(c) - 1
      BY <2>2, DropSeq
    <2> QED
      BY <2>0, <2>1, <2>2, <2>3
  <1> QED
    BY <1>1, <1>2

\* cache.set adds the entry and keeps to max_size.
LEMMA SetSeq ==
  ASSUME NEW S, NEW c \in Seq(S), NEW x \in S, Len(c) <= MaxSize
  PROVE  Set(c, x) \in Seq(S) /\ Len(Set(c, x)) <= MaxSize
  <1>0. MaxSize \in Nat /\ MaxSize >= 1
    BY EngineAssumption
  <1>1. CASE Holds(c, x.key) \/ Len(c) < MaxSize
    <2>1. Without(c, x.key) \in Seq(S) /\ Len(Without(c, x.key)) < MaxSize
      BY <1>0, <1>1, WithoutSeq
    <2>2. Set(c, x) = Append(Without(c, x.key), x)
      BY <1>1 DEF Set
    <2> QED
      BY <1>0, <2>1, <2>2
  <1>2. CASE ~(Holds(c, x.key) \/ Len(c) < MaxSize)
    <2>1. c # <<>> /\ Len(c) = MaxSize
      BY <1>0, <1>2
    <2>2. Drop(c, 1) \in Seq(S) /\ Len(Drop(c, 1)) = MaxSize - 1
      BY <2>1, DropSeq
    <2>3. Set(c, x) = Append(Drop(c, 1), x)
      BY <1>2 DEF Set
    <2> QED
      BY <1>0, <2>2, <2>3
  <1> QED
    BY <1>1, <1>2

\* A TTL is a number, whichever version and provider.
LEMMA TtlNat == \A v \in Versions, p \in Providers : Ttl(v, p) \in Nat
  <1> SUFFICES ASSUME NEW v \in Versions, NEW p \in Providers PROVE Ttl(v, p) \in Nat
    OBVIOUS
  <1>1. Contents[v] \in ContentType
    BY EngineAssumption
  <1> QED
    BY <1>1 DEF ContentType, Ttl

\* The key of an event is one of its fields.
LEMMA KeyType ==
  ASSUME NEW e \in EventType, NEW p \in Providers, NEW tenant \in Tenants
  PROVE  CacheKey(tenant, p, LookupKey(e, p)) \in Keys
  <1>1. /\ e.src \in Known /\ e.dst \in Known /\ e.domain \in Known /\ e.host \in Known
    BY DEF EventType
  <1>2. LookupKey(e, p) \in Known
    BY <1>1 DEF LookupKey, LookupField, Or
  <1> QED
    BY <1>2 DEF CacheKey, Keys

\* A provider answers with its own tenant's data, the shared tenant's or
\* public data; only a tenant-sensitive provider with the tenant's.
LEMMA EnrichType ==
  ASSUME NEW e \in EventType, NEW p \in Providers, NEW tenant \in Tenants,
         NEW o \in Enrich(p, e, tenant)
  PROVE  /\ o.status \in Results
         /\ o.by \in Providers /\ o.found \in SUBSET Known /\ o.keys \in SUBSET Fields
         /\ o.owner \in Tenants \cup {None}
         /\ o.owner \in {None, Shared} \/ (TenantSensitive(p) /\ o.owner = tenant)
  <1> USE EngineAssumption DEF Results, Providers, TenantSensitive
  <1>0. /\ e.src \in Known /\ e.dst \in Known /\ e.domain \in Known /\ e.host \in Known
    BY DEF EventType
  <1>1. CASE p = "asset"
    <2>1. o = AssetLookup(e, tenant)
      BY <1>1 DEF Enrich
    <2> QED
      BY <1>0, <1>1, <2>1 DEF AssetLookup, Found, Answer
  <1>2. CASE p = "geo"
    <2>1. o = GeoLookup(e)
      BY <1>2 DEF Enrich
    <2>2. LookupField(e, "geo") \in Known
      BY <1>0 DEF LookupField, Or
    <2> QED
      BY <1>2, <2>1, <2>2 DEF GeoLookup, Found, Answer
  <1>3. CASE p = "threat"
    <2>1. o = ThreatLookup(e)
      BY <1>3 DEF Enrich
    <2>2. ThreatMatches(e) \in SUBSET Known
      BY <1>0 DEF ThreatMatches
    <2> QED
      BY <1>3, <2>1, <2>2 DEF ThreatLookup, Found, Answer
  <1>4. CASE p = "http"
    <2>1. o \in HttpLookup(e, tenant)
      BY <1>4 DEF Enrich
    <2> QED
      BY <1>0, <1>4, <2>1 DEF HttpLookup, Found, Answer
  <1> QED
    BY <1>1, <1>2, <1>3, <1>4

\* Settling a provider keeps what process has put together well formed, its
\* data the tenant's own and its ages within a TTL.
LEMMA SettledKeeps ==
  ASSUME NEW t \in Threads, NEW p \in Providers, NEW s \in Results,
         NEW cached \in {"HIT", "MISS", "BYPASS"}, NEW age \in 0..MaxTime,
         NEW data \in Data \cup {None}, NEW tenant,
         work[t] \in WorkType, Timely(work[t]), Owned(work[t], tenant),
         \E v \in Versions : age <= Ttl(v, p),
         data # None => data.owner \in {None, Shared, tenant}
  PROVE  /\ Settled(t, p, s, cached, age, data) \in WorkType
         /\ Timely(Settled(t, p, s, cached, age, data))
         /\ Owned(Settled(t, p, s, cached, age, data), tenant)
  <1> DEFINE w == work[t]
             m == IF data = None THEN w.merged ELSE Merged(w.merged, Namespace[p], data)
             x == [status |-> s, cached |-> cached, age |-> age,
                   keys |-> IF data = None THEN {} ELSE data.keys]
             r == [w.recs EXCEPT ![p] = x]
             n == Counted(w.n, s)
             u == Settled(t, p, s, cached, age, data)
  <1>1. /\ w.todo \in SUBSET Providers
        /\ w.merged \in [Namespaces -> [Fields -> Data \cup {None}]]
        /\ w.recs \in [Providers -> Record \cup {None}]
        /\ w.n \in [Counters -> Nat]
        /\ w.status \in Statuses \cup {None}
    BY DEF WorkType
  <1>2. u = [todo |-> w.todo \ {p}, merged |-> m, recs |-> r, n |-> n,
             status |-> w.status]
    BY DEF Settled
  <1>3. Namespace[p] \in Namespaces
    BY DEF Namespaces
  <1>4. m \in [Namespaces -> [Fields -> Data \cup {None}]]
    BY <1>1, <1>3 DEF Merged
  <1>5. \A ns \in Namespaces, f \in Fields :
          m[ns][f] # None => m[ns][f].owner \in {None, Shared, tenant}
    BY <1>1, <1>3 DEF Merged, Owned
  <1>6. x \in Record
    BY DEF Record, Data
  <1>7. r \in [Providers -> Record \cup {None}]
    BY <1>1, <1>6
  <1>8. \A q \in Providers : r[q] # None => \E v \in Versions : r[q].age <= Ttl(v, q)
    BY <1>1 DEF Timely
  <1>9. n \in [Counters -> Nat]
    BY <1>1 DEF Counted, Counters, Results
  <1> HIDE DEF m, r, n, w
  <1>10. u \in WorkType
    BY <1>1, <1>2, <1>4, <1>7, <1>9 DEF WorkType
  <1> QED
    BY <1>2, <1>5, <1>8, <1>10 DEF Timely, Owned

\* The providers still to come are providers.
LEMMA FirstProvider ==
  ASSUME IInv, NEW t \in Threads, NEW p \in First(req[t].cfg, work[t].todo)
  PROVE  p \in Providers
  BY DEF IInv, TypeOK, WorkType, First

\* A request in process is one the route and the engine let through.
LEMMA RunFacts ==
  ASSUME IInv, NEW t \in Threads, pc[t] \in {"lookup", "call"}
  PROVE  /\ req[t] \in RunType
         /\ req[t].event \in EventType /\ req[t].tenant \in Tenants
         /\ req[t].cfg \in Versions
         /\ req[t].tenant = req[t].event.tenant
         /\ work[t] \in WorkType /\ Timely(work[t])
         /\ Owned(work[t], req[t].event.tenant)
  BY DEF IInv, TypeOK, Working, OwnTenant, RunType

\* When only thread t's work and the cache change, the rest of the invariant
\* is kept.
LEMMA WorkStep ==
  ASSUME IInv, NEW t \in Threads, NEW w \in WorkType,
         Timely(w), Owned(w, req[t].event.tenant),
         work' = [work EXCEPT ![t] = w],
         pc[t] \in {"lookup", "call"},
         pc' \in {pc, [pc EXCEPT ![t] = "lookup"], [pc EXCEPT ![t] = "done"]},
         cache' \in Seq(FiledBy(now)), Len(cache') <= MaxSize,
         UNCHANGED <<req, sent, now, mvars>>
  PROVE  IInv'
  <1> USE DEF IInv
  <1>1. ManagerTypeOK' /\ OneActive'
    BY DEF TypeOK, ManagerTypeOK, OneActive, mvars
  <1>2. cache' \in Seq(Entries)
    BY DEF FiledBy
  <1>3. /\ pc' \in [Threads -> {"idle", "refused", "lookup", "call", "done"}]
        /\ \A u \in Threads : Working(u)' => Working(u)
    BY DEF TypeOK, Working
  <1>4. /\ work' \in [Threads -> WorkType]
        /\ \A u \in Threads : Timely(work[u])'
        /\ \A u \in Threads : Working(u) => Owned(work[u], req[u].event.tenant)'
    <2>1. work \in [Threads -> WorkType]
      BY DEF TypeOK
    <2>2. \A u \in Threads : work'[u] = IF u = t THEN w ELSE work[u]
      BY <2>1
    <2>3. req' = req
      OBVIOUS
    <2> QED
      BY <2>1, <2>2, <2>3 DEF Timely, Owned
  <1>5. TypeOK'
    BY <1>1, <1>2, <1>3, <1>4 DEF TypeOK
  <1>6. OwnTenant'
    BY <1>3 DEF OwnTenant
  <1>7. cache' \in Seq(FiledBy(now'))
    OBVIOUS
  <1> QED
    BY <1>1, <1>3, <1>4, <1>5, <1>6, <1>7 DEF FiledBy

\* A request is authorised and planned, or refused.
LEMMA EnrichEventStep ==
  ASSUME IInv, NEW t \in Threads, enrich_event(t)
  PROVE  IInv'
  <1> USE DEF IInv
  <1>1. ManagerTypeOK' /\ OneActive'
    BY DEF enrich_event, TypeOK, ManagerTypeOK, OneActive, mvars
  <1>2. sent' \in 0..MaxRequests
    BY EngineAssumption DEF enrich_event, TypeOK
  <1>3. UNCHANGED <<cache, now>> /\ cache' \in Seq(FiledBy(now))'
    BY DEF enrich_event, FiledBy, Expired
  <1>4. PICK r \in Requests :
          LET target == IF r.tenant_context # None THEN r.tenant_context
                        ELSE r.event.tenant
              v == Resolved(r.version)
          IN  IF Authorised(r, target)
              THEN /\ pc' = [pc EXCEPT ![t] = "lookup"]
                   /\ req' = [req EXCEPT ![t] = [event |-> r.event, tenant |-> target,
                                cfg |-> v, bypass |-> r.bypass]]
                   /\ work' = [work EXCEPT ![t] = Fresh(Plan(r.event, v, target))]
              ELSE /\ pc' = [pc EXCEPT ![t] = "refused"]
                   /\ UNCHANGED <<req, work>>
    BY DEF enrich_event
  <1> DEFINE target == IF r.tenant_context # None THEN r.tenant_context
                       ELSE r.event.tenant
             v == Resolved(r.version)
             q == [event |-> r.event, tenant |-> target,
                   cfg |-> v, bypass |-> r.bypass]
             f == Fresh(Plan(r.event, v, target))
  <1>5. /\ r.event \in EventType /\ r.event.tenant \in Tenants
        /\ r.tenant_context \in Tenants \cup {None}
        /\ r.scope \in Tenants \cup {None} /\ r.version \in Versions \cup {None}
        /\ r.bypass \in BOOLEAN
    BY EngineAssumption DEF RequestType, EventType
  <1>6. target \in Tenants /\ v \in Versions
    BY <1>5 DEF Resolved, TypeOK, ManagerTypeOK
  <1>7. q \in RunType
    BY <1>5, <1>6 DEF RunType
  <1>8. f \in WorkType /\ Timely(f) /\ \A x : Owned(f, x)
    <2>1. Plan(r.event, v, target) \in SUBSET Providers
      BY EngineAssumption DEF Plan
    <2> QED
      BY <2>1 DEF Fresh, WorkType, Timely, Owned, Counters
  <1>9. CASE Authorised(r, target)
    <2>1. /\ pc' = [pc EXCEPT ![t] = "lookup"]
          /\ req' = [req EXCEPT ![t] = q]
          /\ work' = [work EXCEPT ![t] = f]
      BY <1>4, <1>9
    <2>2. q.tenant = q.event.tenant
      BY <1>9 DEF Authorised
    <2> HIDE DEF q, f
    <2>3. \A u \in Threads : u # t =>
            /\ req'[u] = req[u] /\ work'[u] = work[u]
            /\ Working(u)' <=> Working(u)
      BY <2>1 DEF TypeOK, Working
    <2>4. req'[t] = q /\ work'[t] = f
      BY <2>1 DEF TypeOK
    <2>5. /\ pc' \in [Threads -> {"idle", "refused", "lookup", "call", "done"}]
          /\ req' \in [Threads -> RunType \cup {None}]
          /\ work' \in [Threads -> WorkType]
          /\ \A u \in Threads : Working(u)' => req'[u] \in RunType
      BY <1>7, <1>8, <2>1, <2>3, <2>4 DEF TypeOK
    <2>6. TypeOK'
      BY <1>1, <1>2, <1>3, <2>5 DEF TypeOK
    <2>7. OwnTenant'
      BY <2>2, <2>3, <2>4 DEF OwnTenant
    <2>8. /\ \A u \in Threads : Timely(work[u])'
          /\ \A u \in Threads : Working(u)' => Owned(work[u], req[u].event.tenant)'
      <3>1. Timely(work[t])' /\ Owned(work[t], req[t].event.tenant)'
        BY <1>8, <2>4 DEF Timely, Owned
      <3>2. ASSUME NEW u \in Threads, u # t
            PROVE  Timely(work[u])' /\ (Working(u)' => Owned(work[u], req[u].event.tenant)')
        BY <2>3, <3>2 DEF Timely, Owned
      <3> QED
        BY <3>1, <3>2
    <2> QED
      BY <1>1, <1>3, <2>6, <2>7, <2>8
  <1>10. CASE ~Authorised(r, target)
    <2>1. pc' = [pc EXCEPT ![t] = "refused"] /\ UNCHANGED <<req, work>>
      BY <1>4, <1>10
    <2>2. /\ pc' \in [Threads -> {"idle", "refused", "lookup", "call", "done"}]
          /\ \A u \in Threads : Working(u)' => Working(u)
      BY <2>1 DEF TypeOK, Working
    <2>3. TypeOK'
      BY <1>1, <1>2, <1>3, <2>1, <2>2 DEF TypeOK
    <2>4. OwnTenant'
      BY <2>1, <2>2 DEF OwnTenant
    <2>5. /\ \A u \in Threads : Timely(work[u])'
          /\ \A u \in Threads : Working(u)' => Owned(work[u], req[u].event.tenant)'
      BY <2>1, <2>2 DEF Timely, Owned
    <2> QED
      BY <1>1, <1>3, <2>3, <2>4, <2>5
  <1> QED
    BY <1>9, <1>10

\* A hit is served at an age within its TTL, to the tenant it was filed for.
LEMMA CacheHitStep ==
  ASSUME IInv, NEW t \in Threads, NEW p \in Providers, CacheHit(t, p)
  PROVE  IInv'
  <1> DEFINE k == KeyFor(t, p)
             x == At(cache, k)
             w == Settled(t, p, "SUCCESS", "HIT", now - x.data.born, x.data)
  <1>1. /\ pc[t] = "lookup" /\ Holds(cache, k) /\ ~Expired(x)
        /\ cache' = Append(Without(cache, x.key), x)
        /\ work' = [work EXCEPT ![t] = w]
        /\ UNCHANGED <<pc, req, sent, now, mvars>>
    BY DEF CacheHit, Hit
  <1>2. /\ cache \in Seq(FiledBy(now)) /\ Len(cache) <= MaxSize
        /\ now \in 0..MaxTime /\ MaxTime \in Nat
    BY EngineAssumption DEF IInv, TypeOK
  <1>3. /\ Without(cache, k) \in Seq(FiledBy(now))
        /\ Len(Without(cache, k)) = Len(cache) - 1
        /\ x \in FiledBy(now) /\ x.key = k
    BY <1>1, <1>2, WithoutSeq
  <1>4. k.provider = p /\ k.tenant \in {None, req[t].tenant}
    BY DEF KeyFor, CacheKey
  <1> HIDE DEF x, k
  <1>5. /\ x.data \in Data /\ x.data.born \in 0..MaxTime /\ x.data.born <= now
        /\ x.at = x.data.born
        /\ x.data.owner \in {None, Shared, k.tenant}
        /\ \E v \in Versions : x.ttl = Ttl(v, p)
    BY <1>3, <1>4 DEF FiledBy, Entries, Data
  <1>6. now - x.data.born \in 0..MaxTime
    BY <1>2, <1>5
  <1>7. \E v \in Versions : now - x.data.born <= Ttl(v, p)
    BY <1>1, <1>2, <1>5, TtlNat DEF Expired
  <1>8. w \in WorkType /\ Timely(w) /\ Owned(w, req[t].event.tenant)
    <2>1. /\ req[t].tenant = req[t].event.tenant
          /\ work[t] \in WorkType /\ Timely(work[t])
          /\ Owned(work[t], req[t].event.tenant)
      BY <1>1, RunFacts
    <2>2. x.data.owner \in {None, Shared, req[t].event.tenant}
      BY <1>4, <1>5, <2>1
    <2> QED
      BY <1>5, <1>6, <1>7, <2>1, <2>2, SettledKeeps DEF Results
  <1>9. cache' \in Seq(FiledBy(now)) /\ Len(cache') <= MaxSize
    BY <1>1, <1>2, <1>3, EngineAssumption
  <1> HIDE DEF w
  <1> QED
    BY <1>1, <1>8, <1>9, WorkStep

\* A miss deletes at most the expired entry.
LEMMA CacheMissStep ==
  ASSUME IInv, NEW t \in Threads, NEW p \in Providers, CacheMiss(t, p)
  PROVE  IInv'
  <1> USE DEF IInv
  <1>1. cache' \in Seq(FiledBy(now)) /\ Len(cache') <= MaxSize
    <2>1. /\ Without(cache, KeyFor(t, p)) \in Seq(FiledBy(now))
          /\ Len(Without(cache, KeyFor(t, p))) <= Len(cache)
      BY WithoutSeq
    <2> QED
      BY <2>1, EngineAssumption DEF CacheMiss, TypeOK
  <1>2. cache' \in Seq(Entries) /\ cache' \in Seq(FiledBy(now))'
    BY <1>1 DEF FiledBy, CacheMiss
  <1>3. /\ pc' \in [Threads -> {"idle", "refused", "lookup", "call", "done"}]
        /\ \A u \in Threads : Working(u)' => Working(u)
    BY DEF CacheMiss, TypeOK, Working
  <1>4. ManagerTypeOK' /\ OneActive'
    BY DEF CacheMiss, TypeOK, ManagerTypeOK, OneActive, mvars
  <1>5. TypeOK'
    BY <1>1, <1>2, <1>3, <1>4 DEF TypeOK, CacheMiss
  <1>6. OwnTenant'
    BY <1>3 DEF OwnTenant, CacheMiss
  <1>7. /\ \A u \in Threads : Timely(work[u])'
        /\ \A u \in Threads : Working(u)' => Owned(work[u], req[u].event.tenant)'
    BY <1>3 DEF Timely, Owned, CacheMiss
  <1> QED
    BY <1>2, <1>4, <1>5, <1>6, <1>7

\* What a provider found is the tenant's own, shared or public, and it is
\* filed under the tenant's key when it is the tenant's.
LEMMA ProviderReturnsStep ==
  ASSUME IInv, NEW t \in Threads, NEW p \in Providers, ProviderReturns(t, p)
  PROVE  IInv'
  <1> DEFINE data(o) == [by |-> o.by, owner |-> o.owner, found |-> o.found,
                         keys |-> o.keys, born |-> now]
             entry(o) == [key |-> KeyFor(t, p), data |-> data(o), at |-> now,
                          ttl |-> Ttl(req[t].cfg, p)]
             cached == IF UsesCache(t) THEN "MISS" ELSE "BYPASS"
             good(o) == Settled(t, p, o.status, cached, 0, data(o))
             bad(o) == Settled(t, p, o.status, "MISS", 0, None)
  <1>1. PICK o \in Enrich(p, req[t].event, req[t].tenant) :
          IF o.status = "SUCCESS"
          THEN /\ work' = [work EXCEPT ![t] = good(o)]
               /\ cache' = IF UsesCache(t) THEN Set(cache, entry(o)) ELSE cache
          ELSE /\ work' = [work EXCEPT ![t] = bad(o)]
               /\ UNCHANGED cache
    BY DEF ProviderReturns
  <1>2. /\ pc[t] = "call" /\ pc' = [pc EXCEPT ![t] = "lookup"]
        /\ UNCHANGED <<req, sent, now, mvars>>
    BY DEF ProviderReturns
  <1>3. /\ req[t].event \in EventType /\ req[t].tenant \in Tenants
        /\ req[t].cfg \in Versions
        /\ req[t].tenant = req[t].event.tenant
        /\ work[t] \in WorkType /\ Timely(work[t])
        /\ Owned(work[t], req[t].event.tenant)
    BY <1>2, RunFacts
  <1>4. /\ o.status \in Results
        /\ o.by \in Providers /\ o.found \in SUBSET Known /\ o.keys \in SUBSET Fields
        /\ o.owner \in Tenants \cup {None}
        /\ o.owner \in {None, Shared} \/ (TenantSensitive(p) /\ o.owner = req[t].tenant)
    BY <1>1, <1>3, EnrichType
  <1>5. /\ cache \in Seq(FiledBy(now)) /\ Len(cache) <= MaxSize
        /\ now \in 0..MaxTime /\ MaxTime \in Nat
    BY EngineAssumption DEF IInv, TypeOK
  <1>6. Ttl(req[t].cfg, p) \in Nat /\ 0 \in 0..MaxTime
    BY <1>3, <1>5, TtlNat
  <1>7. \E v \in Versions : 0 <= Ttl(v, p)
    BY <1>3, <1>6
  <1>8. data(o) \in Data
    BY <1>4, <1>5 DEF Data
  <1>9. CASE o.status = "SUCCESS"
    <2>1. entry(o) \in FiledBy(now)
      <3>1. KeyFor(t, p) \in Keys
        BY <1>3, KeyType DEF KeyFor
      <3>2. entry(o) \in Entries
        BY <1>5, <1>6, <1>8, <3>1 DEF Entries
      <3>3. /\ KeyFor(t, p).provider = p
            /\ TenantSensitive(p) => KeyFor(t, p).tenant = req[t].tenant
        BY DEF KeyFor, CacheKey
      <3>4. entry(o).data.owner \in {None, Shared, entry(o).key.tenant}
        BY <1>4, <3>3
      <3>5. /\ entry(o).at = now /\ entry(o).data.born = now
            /\ entry(o).ttl = Ttl(req[t].cfg, entry(o).key.provider)
        BY <3>3
      <3> HIDE DEF entry
      <3> QED
        BY <1>3, <1>5, <3>2, <3>4, <3>5 DEF FiledBy
    <2>2. cache' \in Seq(FiledBy(now)) /\ Len(cache') <= MaxSize
      <3> HIDE DEF entry
      <3> QED
        BY <1>1, <1>5, <1>9, <2>1, SetSeq
    <2>3. /\ good(o) \in WorkType /\ Timely(good(o))
          /\ Owned(good(o), req[t].event.tenant)
      <3>1. data(o).owner \in {None, Shared, req[t].event.tenant}
        BY <1>3, <1>4
      <3>2. cached \in {"HIT", "MISS", "BYPASS"}
        OBVIOUS
      <3> HIDE DEF data, cached
      <3> QED
        BY <1>3, <1>4, <1>6, <1>7, <1>8, <3>1, <3>2, SettledKeeps
    <2>4. work' = [work EXCEPT ![t] = good(o)]
      BY <1>1, <1>9
    <2> HIDE DEF good
    <2> QED
      BY <1>2, <2>2, <2>3, <2>4, WorkStep
  <1>10. CASE o.status # "SUCCESS"
    <2>1. /\ bad(o) \in WorkType /\ Timely(bad(o))
          /\ Owned(bad(o), req[t].event.tenant)
      BY <1>3, <1>4, <1>6, <1>7, SettledKeeps
    <2>2. work' = [work EXCEPT ![t] = bad(o)] /\ cache' = cache
      BY <1>1, <1>10
    <2> HIDE DEF bad
    <2> QED
      BY <1>2, <1>5, <2>1, <2>2, WorkStep
  <1> QED
    BY <1>9, <1>10

\* Answering sets the status only.
LEMMA FinishStep ==
  ASSUME IInv, NEW t \in Threads, Finish(t)
  PROVE  IInv'
  <1> DEFINE w == [work[t] EXCEPT !.status = Overall(work[t].n)]
  <1>1. /\ pc[t] = "lookup" /\ pc' = [pc EXCEPT ![t] = "done"]
        /\ work' = [work EXCEPT ![t] = w]
        /\ UNCHANGED <<cache, req, sent, now, mvars>>
    BY DEF Finish
  <1>2. /\ work[t] \in WorkType /\ Timely(work[t])
        /\ Owned(work[t], req[t].event.tenant)
    BY <1>1, RunFacts
  <1>3. Overall(work[t].n) \in Statuses
    BY DEF Overall, Statuses, Results
  <1>4. w \in WorkType /\ w.recs = work[t].recs /\ w.merged = work[t].merged
    BY <1>2, <1>3 DEF WorkType
  <1> HIDE DEF w
  <1>5. Timely(w) /\ Owned(w, req[t].event.tenant)
    BY <1>2, <1>4 DEF Timely, Owned
  <1>6. cache' \in Seq(FiledBy(now)) /\ Len(cache') <= MaxSize
    BY <1>1 DEF IInv, TypeOK
  <1> QED
    BY <1>1, <1>4, <1>5, <1>6, WorkStep

\* Time passes: what was filed before is still filed.
LEMMA TickStep ==
  ASSUME IInv, Tick
  PROVE  IInv'
  <1> USE DEF IInv, Tick
  <1>1. now' \in 0..MaxTime /\ now <= now' /\ now \in Nat /\ now' \in Nat
    BY EngineAssumption DEF TypeOK
  <1>2. FiledBy(now) \subseteq FiledBy(now)'
    <2>1. ASSUME NEW x \in FiledBy(now) PROVE x \in FiledBy(now)'
      <3>1. x.data.born \in Nat
        BY <2>1, EngineAssumption DEF FiledBy, Entries, Data
      <3>2. x.data.born <= now'
        BY <1>1, <2>1, <3>1 DEF FiledBy
      <3> QED
        BY <2>1, <3>2 DEF FiledBy
    <2> QED
      BY <2>1
  <1>3. cache' \in Seq(FiledBy(now))'
    BY <1>2
  <1>4. ManagerTypeOK' /\ OneActive'
    BY DEF TypeOK, ManagerTypeOK, OneActive, mvars
  <1>5. TypeOK'
    BY <1>1, <1>4 DEF TypeOK, Working
  <1>6. OwnTenant'
    BY DEF OwnTenant, Working
  <1>7. /\ \A u \in Threads : Timely(work[u])'
        /\ \A u \in Threads : Working(u)' => Owned(work[u], req[u].event.tenant)'
    BY DEF Timely, Owned, Working
  <1> QED
    BY <1>3, <1>4, <1>5, <1>6, <1>7

\* The configuration changes under the requests, which keep the version they
\* resolved.
LEMMA ReconfigureStep ==
  ASSUME IInv, Reconfigure \/ UNCHANGED vars
  PROVE  IInv'
  <1> USE DEF IInv
  <1>1. UNCHANGED evars
    BY DEF Reconfigure, vars
  <1>2. ManagerTypeOK' /\ OneActive'
    <2> USE DEF TypeOK, ManagerTypeOK, OneActive, States
    <2>1. ASSUME NEW v \in Versions, register_draft(v)
          PROVE  ManagerTypeOK' /\ OneActive'
      BY <2>1 DEF register_draft, Registered
    <2>2. ASSUME NEW v \in Versions, activate(v)
          PROVE  ManagerTypeOK' /\ OneActive'
      BY <2>2 DEF activate, CanActivate, Activated
    <2>3. ASSUME NEW v \in Versions, rollback(v)
          PROVE  ManagerTypeOK' /\ OneActive'
      BY <2>3 DEF rollback, RolledBackTo
    <2>4. CASE UNCHANGED vars
      BY <2>4 DEF vars
    <2> QED
      BY <2>1, <2>2, <2>3, <2>4 DEF Reconfigure, ManagerNext
  <1>3. cache' \in Seq(FiledBy(now))'
    BY <1>1 DEF evars, FiledBy
  <1>4. TypeOK'
    BY <1>1, <1>2 DEF TypeOK, Working, evars
  <1>5. OwnTenant'
    BY <1>1 DEF OwnTenant, Working, evars
  <1>6. /\ \A u \in Threads : Timely(work[u])'
        /\ \A u \in Threads : Working(u)' => Owned(work[u], req[u].event.tenant)'
    BY <1>1 DEF Timely, Owned, Working, evars
  <1> QED
    BY <1>2, <1>3, <1>4, <1>5, <1>6

\* At the start nothing is cached and nobody works.
LEMMA InitIInv == Init => IInv
  <1> SUFFICES ASSUME Init PROVE IInv
    OBVIOUS
  <1>1. ManagerTypeOK
    BY ManagerAssumption DEF Init, ManagerInit, InitialConfigs, ManagerTypeOK, States
  <1>2. OneActive
    <2>1. ASSUME NEW v \in Versions
          PROVE  configs[v] = "ACTIVE" <=> v = active
      BY DEF Init, ManagerInit, InitialConfigs
    <2> QED
      BY <1>1, <2>1 DEF OneActive, ManagerTypeOK
  <1>3. Fresh({}) \in WorkType /\ Timely(Fresh({}))
    BY DEF Fresh, WorkType, Timely, Counters
  <1>4. \A t \in Threads : ~Working(t) /\ work[t] = Fresh({})
    BY DEF Init, Working
  <1>5. cache \in Seq(Entries) /\ cache \in Seq(FiledBy(now)) /\ Len(cache) = 0
    BY DEF Init
  <1>6. TypeOK
    BY <1>1, <1>3, <1>4, <1>5, EngineAssumption DEF Init, TypeOK
  <1> QED
    BY <1>2, <1>3, <1>4, <1>5, <1>6 DEF IInv, OwnTenant

\* The invariant holds in every state of every behaviour.
THEOREM EngineInvariant == Spec => []IInv
<1>1. IInv /\ [Next]_vars => IInv'
  <2> SUFFICES ASSUME IInv, [Next]_vars PROVE IInv'
    OBVIOUS
  <2>1. ASSUME NEW t \in Threads, Step(t) PROVE IInv'
    <3>1. CASE Finish(t)
      BY <3>1, FinishStep
    <3>2. ASSUME NEW p \in First(req[t].cfg, work[t].todo),
                 CacheHit(t, p) \/ CacheMiss(t, p) \/ ProviderReturns(t, p)
          PROVE  IInv'
      <4>1. p \in Providers
        BY FirstProvider
      <4> QED
        BY <3>2, <4>1, CacheHitStep, CacheMissStep, ProviderReturnsStep
    <3> QED
      BY <2>1, <3>1, <3>2 DEF Step
  <2> QED
    BY <2>1, EnrichEventStep, TickStep, ReconfigureStep DEF Next
<1> QED
  BY <1>1, InitIInv, PTL DEF Spec

\* Type correctness, the bound of the cache (max_size) included.
THEOREM EngineTypes == Spec => []TypeOK
  BY EngineInvariant, PTL DEF IInv

\* While requests are in process the registry has one ACTIVE configuration.
THEOREM EngineOneActive == Spec => []OneActive
  BY EngineInvariant, PTL DEF IInv

\* A tenant's data is cached and merged for that tenant only
\* (TenantGuard.build_tenant_cache_key).
THEOREM TenantsIsolated == Spec => []TenantIsolation
<1>1. IInv => TenantIsolation
  <2> SUFFICES ASSUME IInv PROVE TenantIsolation
    OBVIOUS
  <2>1. \A i \in DOMAIN cache : cache[i] \in FiledBy(now)
    BY DEF IInv
  <2>2. \A t \in Threads : Working(t) => Owned(work[t], req[t].event.tenant)
    BY DEF IInv
  <2> QED
    BY <2>1, <2>2 DEF TenantIsolation, FiledBy, Owned
<1> QED
  BY <1>1, EngineInvariant, PTL

\* No answer holds data that was cached for longer than a configured TTL
\* (CacheEntry.is_expired, read at every lookup).
THEOREM HitsStayFresh == Spec => []HitsAreFresh
<1>1. IInv => HitsAreFresh
  BY DEF IInv, HitsAreFresh, Timely
<1> QED
  BY <1>1, EngineInvariant, PTL
-----------------------------------------------------------------------------
(* The status of an answer.  The counters, the records and the merged keys    *)
(* are kept side by side; the invariant says that they agree all along.       *)

CounterOf(s) == CASE s = "SUCCESS" -> "succeeded" [] s = "NOT_FOUND" -> "not_found"
                  [] s = "TIMEOUT" -> "timed_out" [] s = "FAILED" -> "failed"

\* Provider p is on record with status s.
OnRecord(w, p, s) == w.recs[p] # None /\ w.recs[p].status = s

\* A provider of the plan is still to come or on record, and the counters and
\* the merged keys are those of the records.
Ledger(w, planned) ==
  /\ w.todo \subseteq planned
  /\ \A p \in Providers : w.recs[p] # None <=> p \in planned \ w.todo
  /\ \A s \in Results :
       w.n[CounterOf(s)] > 0 <=> \E p \in Providers : OnRecord(w, p, s)
  /\ \A ns \in Namespaces, f \in Fields :
       w.merged[ns][f] # None <=>
         \E p \in Providers : /\ OnRecord(w, p, "SUCCESS")
                              /\ Namespace[p] = ns /\ f \in w.recs[p].keys

Planned(t) == Plan(req[t].event, req[t].cfg, req[t].tenant)

LInv == \A t \in Threads : Working(t) =>
          /\ Ledger(work[t], Planned(t))
          /\ pc[t] = "done" => work[t].todo = {} /\ work[t].status = Overall(work[t].n)

\* Settling a provider that was still to come keeps the ledger balanced.
LEMMA SettledBalances ==
  ASSUME NEW t \in Threads, NEW p \in Providers, NEW s \in Results,
         NEW cached \in {"HIT", "MISS", "BYPASS"}, NEW age \in 0..MaxTime,
         NEW data \in Data \cup {None}, NEW planned,
         work[t] \in WorkType, Ledger(work[t], planned), p \in work[t].todo,
         s = "SUCCESS" <=> data # None
  PROVE  Ledger(Settled(t, p, s, cached, age, data), planned)
  <1> DEFINE w == work[t]
             m == IF data = None THEN w.merged ELSE Merged(w.merged, Namespace[p], data)
             x == [status |-> s, cached |-> cached, age |-> age,
                   keys |-> IF data = None THEN {} ELSE data.keys]
             r == [w.recs EXCEPT ![p] = x]
             n == Counted(w.n, s)
             u == Settled(t, p, s, cached, age, data)
  <1>1. /\ w.todo \in SUBSET Providers
        /\ w.merged \in [Namespaces -> [Fields -> Data \cup {None}]]
        /\ w.recs \in [Providers -> Record \cup {None}]
        /\ w.n \in [Counters -> Nat]
    BY DEF WorkType
  <1>2. /\ u.todo = w.todo \ {p} /\ u.merged = m /\ u.recs = r /\ u.n = n
    BY DEF Settled
  <1>3. x \in Record /\ x # None /\ x.status = s
        /\ x.keys = IF data = None THEN {} ELSE data.keys
    BY NoneAssumption DEF Record, Data
  <1>4. r[p] = x /\ \A q \in Providers : q # p => r[q] = w.recs[q]
    BY <1>1
  <1>5. \A q \in Providers, z \in Results :
          OnRecord(u, q, z) <=> (q = p /\ z = s) \/ (q # p /\ OnRecord(w, q, z))
    BY <1>2, <1>3, <1>4 DEF OnRecord
  <1>6. \A z \in Results : ~OnRecord(w, p, z)
    BY DEF Ledger, OnRecord
  <1>7. \A z \in Results : n[CounterOf(z)] = w.n[CounterOf(z)] + (IF z = s THEN 1 ELSE 0)
    BY <1>1 DEF Counted, CounterOf, Counters, Results
  <1>8. \A z \in Results : w.n[CounterOf(z)] \in Nat
    BY <1>1 DEF CounterOf, Counters, Results
  <1>9. Namespace[p] \in Namespaces
    BY DEF Namespaces
  <1>10. \A ns \in Namespaces, f \in Fields :
           m[ns][f] # None <=> \/ w.merged[ns][f] # None
                               \/ data # None /\ ns = Namespace[p] /\ f \in data.keys
    <2>1. CASE data = None
      BY <2>1
    <2>2. CASE data # None
      <3>1. m = Merged(w.merged, Namespace[p], data)
        BY <2>2
      <3>2. \A ns \in Namespaces, f \in Fields :
              m[ns][f] = IF ns = Namespace[p]
                         THEN IF w.merged[ns][f] = None /\ f \in data.keys
                              THEN data ELSE w.merged[ns][f]
                         ELSE w.merged[ns][f]
        BY <1>1, <1>9, <3>1 DEF Merged
      <3>3. QED BY <2>2, <3>2
    <2>3. QED BY <2>1, <2>2
  <1> HIDE DEF w, m, x, r, n, u
  <1>11. u.todo \subseteq planned
    BY <1>2 DEF Ledger, w
  <1>12. \A q \in Providers : u.recs[q] # None <=> q \in planned \ u.todo
    <2>1. \A q \in Providers : w.recs[q] # None <=> q \in planned \ w.todo
      BY DEF Ledger, w
    <2>2. p \in planned
      BY DEF Ledger
    <2>3. QED BY <1>2, <1>3, <1>4, <2>1, <2>2
  <1>13. \A z \in Results :
           u.n[CounterOf(z)] > 0 <=> \E q \in Providers : OnRecord(u, q, z)
    <2> SUFFICES ASSUME NEW z \in Results
                 PROVE  u.n[CounterOf(z)] > 0 <=> \E q \in Providers : OnRecord(u, q, z)
      OBVIOUS
    <2>1. w.n[CounterOf(z)] > 0 <=> \E q \in Providers : OnRecord(w, q, z)
      BY DEF Ledger, w
    <2>2. CASE z = s
      <3>1. u.n[CounterOf(z)] > 0
        BY <1>2, <1>7, <1>8, <2>2
      <3>2. OnRecord(u, p, z)
        BY <1>5, <2>2
      <3>3. QED BY <3>1, <3>2
    <2>3. CASE z # s
      <3>1. u.n[CounterOf(z)] = w.n[CounterOf(z)]
        BY <1>2, <1>7, <1>8, <2>3
      <3>2. \A q \in Providers : OnRecord(u, q, z) <=> OnRecord(w, q, z)
        BY <1>5, <1>6, <2>3
      <3>3. QED BY <2>1, <3>1, <3>2
    <2>4. QED BY <2>2, <2>3
  <1>14. \A ns \in Namespaces, f \in Fields :
           u.merged[ns][f] # None <=>
             \E q \in Providers : /\ OnRecord(u, q, "SUCCESS")
                                  /\ Namespace[q] = ns /\ f \in u.recs[q].keys
    <2> SUFFICES ASSUME NEW ns \in Namespaces, NEW f \in Fields
                 PROVE  u.merged[ns][f] # None <=>
                          \E q \in Providers : /\ OnRecord(u, q, "SUCCESS")
                                               /\ Namespace[q] = ns
                                               /\ f \in u.recs[q].keys
      OBVIOUS
    <2>1. w.merged[ns][f] # None <=>
            \E q \in Providers : /\ OnRecord(w, q, "SUCCESS")
                                 /\ Namespace[q] = ns /\ f \in w.recs[q].keys
      BY DEF Ledger, w
    <2>2. "SUCCESS" \in Results
      BY DEF Results
    <2>3. \A q \in Providers : q # p =>
            /\ OnRecord(u, q, "SUCCESS") <=> OnRecord(w, q, "SUCCESS")
            /\ u.recs[q] = w.recs[q]
      BY <1>2, <1>4, <1>5, <2>2
    <2>4. /\ OnRecord(u, p, "SUCCESS") <=> data # None
          /\ ~OnRecord(w, p, "SUCCESS")
          /\ data # None => u.recs[p].keys = data.keys
      BY <1>2, <1>3, <1>4, <1>5, <1>6, <2>2
    <2>5. u.merged[ns][f] # None <=> \/ w.merged[ns][f] # None
                                     \/ data # None /\ ns = Namespace[p] /\ f \in data.keys
      BY <1>2, <1>10
    <2>6. QED BY <2>1, <2>3, <2>4, <2>5
  <1>15. QED BY <1>11, <1>12, <1>13, <1>14 DEF Ledger, u

\* What StatusTruthful says of one answer.
Truthful(w, planned) ==
  LET with(s) == {p \in planned : w.recs[p].status = s}
      bad == with("FAILED") \cup with("TIMEOUT")
      good == with("SUCCESS")
  IN  /\ {p \in Providers : w.recs[p] # None} = planned
      /\ w.status = "SUCCESS" <=> bad = {} /\ good # {}
      /\ w.status = "PARTIAL" <=> bad # {} /\ good # {}
      /\ w.status = "TIMEOUT" <=> planned # {} /\ with("TIMEOUT") = planned
      /\ w.status = "SKIPPED" <=> planned = {}
      /\ {x \in Namespaces \X Fields : w.merged[x[1]][x[2]] # None}
           = UNION {{Namespace[p]} \X w.recs[p].keys : p \in good}

\* What Overall makes of a balanced ledger when every planned provider is on
\* record.
LEMMA OverallTells ==
  ASSUME NEW w \in WorkType, NEW planned \in SUBSET Providers, Ledger(w, planned),
         w.todo = {}, w.status = Overall(w.n)
  PROVE  Truthful(w, planned)
  <1> DEFINE with(s) == {p \in planned : w.recs[p].status = s}
             bad == with("FAILED") \cup with("TIMEOUT")
             good == with("SUCCESS")
  <1>1. /\ w.n \in [Counters -> Nat]
        /\ w.recs \in [Providers -> Record \cup {None}]
    BY DEF WorkType
  <1>2. \A p \in Providers : w.recs[p] # None <=> p \in planned
    BY DEF Ledger
  <1>3. \A p \in planned : w.recs[p] \in Record /\ w.recs[p].status \in Results
                           /\ w.recs[p].keys \in SUBSET Fields
    BY <1>1, <1>2 DEF Record
  <1>4. \A s \in Results : w.n[CounterOf(s)] > 0 <=> with(s) # {}
    <2> SUFFICES ASSUME NEW s \in Results PROVE w.n[CounterOf(s)] > 0 <=> with(s) # {}
      OBVIOUS
    <2>1. w.n[CounterOf(s)] > 0 <=> \E p \in Providers : OnRecord(w, p, s)
      BY DEF Ledger
    <2>2. \A p \in Providers : OnRecord(w, p, s) <=> p \in with(s)
      BY <1>2 DEF OnRecord
    <2>3. with(s) \subseteq Providers
      OBVIOUS
    <2> HIDE DEF with
    <2>4. QED BY <2>1, <2>2, <2>3
  <1>5. /\ w.n.succeeded > 0 <=> with("SUCCESS") # {}
        /\ w.n.not_found > 0 <=> with("NOT_FOUND") # {}
        /\ w.n.timed_out > 0 <=> with("TIMEOUT") # {}
        /\ w.n.failed > 0 <=> with("FAILED") # {}
    BY <1>4 DEF CounterOf, Results
  <1>6. /\ w.n.succeeded \in Nat /\ w.n.not_found \in Nat
        /\ w.n.timed_out \in Nat /\ w.n.failed \in Nat
    BY <1>1 DEF Counters
  <1>7. \A p \in planned : \/ p \in with("SUCCESS") \/ p \in with("NOT_FOUND")
                           \/ p \in with("TIMEOUT") \/ p \in with("FAILED")
    BY <1>3 DEF Results
  <1>8. /\ with("TIMEOUT") \cap with("SUCCESS") = {}
        /\ with("TIMEOUT") \cap with("NOT_FOUND") = {}
        /\ with("TIMEOUT") \cap with("FAILED") = {}
        /\ \A s : with(s) \subseteq planned
    OBVIOUS
  <1>9. {p \in Providers : w.recs[p] # None} = planned
    BY <1>2
  <1>10. {x \in Namespaces \X Fields : w.merged[x[1]][x[2]] # None}
           = UNION {{Namespace[p]} \X w.recs[p].keys : p \in good}
    <2> DEFINE L == {x \in Namespaces \X Fields : w.merged[x[1]][x[2]] # None}
               R == UNION {{Namespace[p]} \X w.recs[p].keys : p \in good}
    <2>1. \A p \in Providers : OnRecord(w, p, "SUCCESS") <=> p \in good
      BY <1>2 DEF OnRecord
    <2>2. good \subseteq planned /\ good \subseteq Providers
      OBVIOUS
    <2> HIDE DEF good
    <2>3. \A ns \in Namespaces, f \in Fields :
            w.merged[ns][f] # None <=>
              \E p \in good : Namespace[p] = ns /\ f \in w.recs[p].keys
      <3>1. \A ns \in Namespaces, f \in Fields :
              w.merged[ns][f] # None <=>
                \E p \in Providers : /\ OnRecord(w, p, "SUCCESS")
                                     /\ Namespace[p] = ns /\ f \in w.recs[p].keys
        BY DEF Ledger
      <3>2. QED BY <2>1, <2>2, <3>1
    <2>4. ASSUME NEW x \in L PROVE x \in R
      <3>1. PICK ns \in Namespaces, f \in Fields : x = <<ns, f>>
        OBVIOUS
      <3>2. w.merged[ns][f] # None
        BY <3>1
      <3>3. PICK p \in good : Namespace[p] = ns /\ f \in w.recs[p].keys
        BY <2>3, <3>2
      <3>4. x \in {Namespace[p]} \X w.recs[p].keys
        BY <3>1, <3>3
      <3>5. QED BY <3>3, <3>4
    <2>5. ASSUME NEW x \in R PROVE x \in L
      <3>1. PICK p \in good : x \in {Namespace[p]} \X w.recs[p].keys
        OBVIOUS
      <3>2. PICK f \in w.recs[p].keys : x = <<Namespace[p], f>>
        BY <3>1
      <3>3. Namespace[p] \in Namespaces /\ f \in Fields
        BY <1>3, <2>2, <3>2 DEF Namespaces
      <3>4. w.merged[Namespace[p]][f] # None
        BY <2>3, <3>2, <3>3
      <3>5. x[1] = Namespace[p] /\ x[2] = f /\ x \in Namespaces \X Fields
        BY <3>2, <3>3
      <3>6. QED BY <3>4, <3>5
    <2>6. QED BY <2>4, <2>5 DEF good
  <1> HIDE DEF with
  <1>11. w.status = "SUCCESS" <=> bad = {} /\ good # {}
    BY <1>5, <1>6 DEF Overall
  <1>12. w.status = "PARTIAL" <=> bad # {} /\ good # {}
    BY <1>5, <1>6 DEF Overall
  <1>13. w.status = "TIMEOUT" <=> planned # {} /\ with("TIMEOUT") = planned
    BY <1>5, <1>6, <1>7, <1>8 DEF Overall
  <1>14. w.status = "SKIPPED" <=> planned = {}
    BY <1>5, <1>6, <1>7, <1>8 DEF Overall
  <1>15. QED BY <1>9, <1>10, <1>11, <1>12, <1>13, <1>14 DEF Truthful, with

\* A step of thread t leaves the other threads' ledgers alone.
LEMMA LedgerStep ==
  ASSUME IInv, LInv, NEW t \in Threads, NEW w, NEW to,
         work' = [work EXCEPT ![t] = w], pc' = [pc EXCEPT ![t] = to], req' = req,
         Ledger(w, Planned(t)),
         to = "done" => w.todo = {} /\ w.status = Overall(w.n)
  PROVE  LInv'
  <1>1. /\ work \in [Threads -> WorkType] /\ DOMAIN pc = Threads
        /\ \A u \in Threads : work'[u] = IF u = t THEN w ELSE work[u]
        /\ \A u \in Threads : pc'[u] = IF u = t THEN to ELSE pc[u]
    BY DEF IInv, TypeOK
  <1>2. \A u \in Threads : Planned(u)' = Planned(u)
    BY DEF Planned
  <1>3. \A u \in Threads : u # t => (Working(u)' <=> Working(u))
    BY <1>1 DEF Working
  <1>4. ASSUME NEW u \in Threads, Working(u)'
        PROVE  /\ Ledger(work'[u], Planned(u)')
               /\ pc'[u] = "done" =>
                    work'[u].todo = {} /\ work'[u].status = Overall(work'[u].n)
    <2>1. CASE u = t
      BY <1>1, <1>2, <2>1
    <2>2. CASE u # t
      BY <1>1, <1>2, <1>3, <1>4, <2>2 DEF LInv
    <2>3. QED BY <2>1, <2>2
  <1>5. \A u \in Threads : /\ Ledger(work[u], Planned(u))' <=> Ledger(work'[u], Planned(u)')
                           /\ Overall(work[u].n)' = Overall(work'[u].n)
    BY DEF Ledger, OnRecord, Overall
  <1>6. QED BY <1>4, <1>5 DEF LInv

\* Every step keeps every thread's ledger balanced.
LEMMA NextLedger ==
  ASSUME IInv, LInv, [Next]_vars
  PROVE  LInv'
  <1>1. ASSUME NEW t \in Threads, enrich_event(t) PROVE LInv'
    <2> DEFINE tgt(r) == IF r.tenant_context # None THEN r.tenant_context
                         ELSE r.event.tenant
               v(r) == Resolved(r.version)
               run(r) == [event |-> r.event, tenant |-> tgt(r),
                          cfg |-> v(r), bypass |-> r.bypass]
    <2>1. PICK r \in Requests :
            \/ /\ pc' = [pc EXCEPT ![t] = "lookup"]
               /\ req' = [req EXCEPT ![t] = run(r)]
               /\ work' = [work EXCEPT ![t] = Fresh(Plan(r.event, v(r), tgt(r)))]
            \/ pc' = [pc EXCEPT ![t] = "refused"] /\ UNCHANGED <<req, work>>
      BY <1>1 DEF enrich_event
    <2>2. /\ work \in [Threads -> WorkType] /\ DOMAIN pc = Threads
          /\ DOMAIN req = Threads
      BY DEF IInv, TypeOK
    <2>3. CASE pc' = [pc EXCEPT ![t] = "refused"] /\ UNCHANGED <<req, work>>
      <3>1. \A u \in Threads : Working(u)' => Working(u) /\ pc'[u] = pc[u]
        BY <2>2, <2>3 DEF Working
      <3>2. \A u \in Threads : Planned(u)' = Planned(u)
        BY <2>3 DEF Planned
      <3>3. \A u \in Threads : /\ Ledger(work[u], Planned(u))' <=> Ledger(work[u], Planned(u))
                               /\ Overall(work[u].n)' = Overall(work[u].n)
        BY <2>3, <3>2 DEF Ledger, OnRecord, Overall
      <3>4. QED BY <2>3, <3>1, <3>3 DEF LInv
    <2>4. CASE /\ pc' = [pc EXCEPT ![t] = "lookup"]
               /\ req' = [req EXCEPT ![t] = run(r)]
               /\ work' = [work EXCEPT ![t] = Fresh(Plan(r.event, v(r), tgt(r)))]
      <3> DEFINE P == Plan(r.event, v(r), tgt(r))
                 w == Fresh(P)
      <3>1. /\ pc'[t] = "lookup" /\ work'[t] = w /\ req'[t] = run(r)
            /\ \A u \in Threads : u # t => /\ pc'[u] = pc[u] /\ work'[u] = work[u]
                                           /\ req'[u] = req[u]
        BY <2>2, <2>4
      <3>2. Planned(t)' = P
        <4>1. Planned(t)' = Plan(req'[t].event, req'[t].cfg, req'[t].tenant)
          BY DEF Planned, Plan, Triggers, CanEnrich
        <4>2. run(r).event = r.event /\ run(r).cfg = v(r) /\ run(r).tenant = tgt(r)
          OBVIOUS
        <4> HIDE DEF v, tgt, run
        <4>3. QED BY <3>1, <4>1, <4>2
      <3>3. Ledger(w, P)
        <4>1. /\ w.todo = P /\ w.recs = [p \in Providers |-> None]
              /\ w.n = [c \in Counters |-> 0]
              /\ w.merged = [ns \in Namespaces |-> [f \in Fields |-> None]]
          BY DEF Fresh
        <4>2. \A s \in Results : CounterOf(s) \in Counters
          BY DEF CounterOf, Results, Counters
        <4> HIDE DEF w, P
        <4>3. QED BY <4>1, <4>2 DEF Ledger, OnRecord
      <3>4. \A u \in Threads : u # t => Planned(u)' = Planned(u)
        BY <3>1 DEF Planned
      <3>5. \A u \in Threads : /\ Ledger(work[u], Planned(u))' <=> Ledger(work'[u], Planned(u)')
                               /\ Overall(work[u].n)' = Overall(work'[u].n)
        BY DEF Ledger, OnRecord, Overall
      <3> HIDE DEF w, P
      <3>6. ASSUME NEW u \in Threads, Working(u)'
            PROVE  /\ Ledger(work'[u], Planned(u)')
                   /\ pc'[u] = "done" =>
                        work'[u].todo = {} /\ work'[u].status = Overall(work'[u].n)
        <4>1. CASE u = t
          BY <3>1, <3>2, <3>3, <4>1
        <4>2. CASE u # t
          BY <3>1, <3>4, <3>6, <4>2 DEF LInv, Working
        <4>3. QED BY <4>1, <4>2
      <3>7. QED BY <3>5, <3>6 DEF LInv
    <2>5. QED BY <2>1, <2>3, <2>4
  <1>2. ASSUME NEW t \in Threads, NEW p \in First(req[t].cfg, work[t].todo),
               CacheHit(t, p)
        PROVE  LInv'
    <2> DEFINE k == KeyFor(t, p)
               x == At(cache, k)
               w == Settled(t, p, "SUCCESS", "HIT", now - x.data.born, x.data)
    <2>0. p \in Providers /\ p \in work[t].todo
      BY FirstProvider DEF First
    <2>1. /\ pc[t] = "lookup" /\ Holds(cache, k)
          /\ work' = [work EXCEPT ![t] = w]
          /\ pc' = pc /\ req' = req
      BY <1>2 DEF CacheHit, Hit
    <2>2. cache \in Seq(FiledBy(now)) /\ now \in 0..MaxTime /\ MaxTime \in Nat
      BY EngineAssumption DEF IInv, TypeOK
    <2>3. x \in FiledBy(now)
      BY <2>1, <2>2, WithoutSeq
    <2> HIDE DEF x, k
    <2>4. /\ x.data \in Data /\ x.data.born \in 0..MaxTime /\ x.data.born <= now
      BY <2>3 DEF FiledBy, Entries, Data
    <2>5. now - x.data.born \in 0..MaxTime
      BY <2>2, <2>4
    <2>6. work[t] \in WorkType /\ Ledger(work[t], Planned(t)) /\ x.data # None
      BY <2>1, <2>4, RunFacts, NoneAssumption DEF LInv, Working
    <2>7. Ledger(w, Planned(t))
      BY <2>0, <2>4, <2>5, <2>6, SettledBalances DEF Results
    <2> HIDE DEF w
    <2>8. pc' = [pc EXCEPT ![t] = "lookup"]
      BY <2>1 DEF IInv, TypeOK
    <2>9. QED BY <2>1, <2>7, <2>8, LedgerStep
  <1>3. ASSUME NEW t \in Threads, NEW p, CacheMiss(t, p) PROVE LInv'
    <2>1. /\ pc[t] = "lookup" /\ pc' = [pc EXCEPT ![t] = "call"]
          /\ req' = req /\ work' = work
      BY <1>3 DEF CacheMiss
    <2>2. work' = [work EXCEPT ![t] = work[t]]
      BY <2>1 DEF IInv, TypeOK
    <2>3. Ledger(work[t], Planned(t))
      BY <2>1 DEF LInv, Working
    <2>4. QED BY <2>1, <2>2, <2>3, LedgerStep
  <1>4. ASSUME NEW t \in Threads, NEW p \in First(req[t].cfg, work[t].todo),
               ProviderReturns(t, p)
        PROVE  LInv'
    <2> DEFINE data(o) == [by |-> o.by, owner |-> o.owner, found |-> o.found,
                           keys |-> o.keys, born |-> now]
               cached == IF UsesCache(t) THEN "MISS" ELSE "BYPASS"
               good(o) == Settled(t, p, o.status, cached, 0, data(o))
               bad(o) == Settled(t, p, o.status, "MISS", 0, None)
    <2>0. p \in Providers /\ p \in work[t].todo
      BY FirstProvider DEF First
    <2>1. PICK o \in Enrich(p, req[t].event, req[t].tenant) :
            IF o.status = "SUCCESS" THEN work' = [work EXCEPT ![t] = good(o)]
                                    ELSE work' = [work EXCEPT ![t] = bad(o)]
      BY <1>4 DEF ProviderReturns
    <2>2. /\ pc[t] = "call" /\ pc' = [pc EXCEPT ![t] = "lookup"] /\ req' = req
      BY <1>4 DEF ProviderReturns
    <2>3. /\ req[t].event \in EventType /\ req[t].tenant \in Tenants
          /\ work[t] \in WorkType /\ Ledger(work[t], Planned(t))
      BY <2>2, RunFacts DEF LInv, Working
    <2>4. /\ o.status \in Results
          /\ o.by \in Providers /\ o.found \in SUBSET Known /\ o.keys \in SUBSET Fields
          /\ o.owner \in Tenants \cup {None}
      BY <2>0, <2>1, <2>3, EnrichType
    <2>5. now \in 0..MaxTime /\ 0 \in 0..MaxTime
      BY EngineAssumption DEF IInv, TypeOK
    <2>6. data(o) \in Data /\ data(o) # None
      BY <2>4, <2>5, NoneAssumption DEF Data
    <2>7. cached \in {"HIT", "MISS", "BYPASS"}
      OBVIOUS
    <2> HIDE DEF data, cached
    <2>8. CASE o.status = "SUCCESS"
      <3>1. Ledger(good(o), Planned(t))
        BY <2>0, <2>3, <2>4, <2>5, <2>6, <2>7, <2>8, SettledBalances
      <3>2. work' = [work EXCEPT ![t] = good(o)]
        BY <2>1, <2>8
      <3> HIDE DEF good
      <3>3. QED BY <2>2, <3>1, <3>2, LedgerStep
    <2>9. CASE o.status # "SUCCESS"
      <3>1. Ledger(bad(o), Planned(t))
        BY <2>0, <2>3, <2>4, <2>5, <2>9, SettledBalances
      <3>2. work' = [work EXCEPT ![t] = bad(o)]
        BY <2>1, <2>9
      <3> HIDE DEF bad
      <3>3. QED BY <2>2, <3>1, <3>2, LedgerStep
    <2>10. QED BY <2>8, <2>9
  <1>5. ASSUME NEW t \in Threads, Finish(t) PROVE LInv'
    <2> DEFINE w == [work[t] EXCEPT !.status = Overall(work[t].n)]
    <2>1. /\ pc[t] = "lookup" /\ pc' = [pc EXCEPT ![t] = "done"]
          /\ work' = [work EXCEPT ![t] = w] /\ req' = req /\ work[t].todo = {}
      BY <1>5 DEF Finish
    <2>2. work[t] \in WorkType /\ Ledger(work[t], Planned(t))
      BY <2>1, RunFacts DEF LInv, Working
    <2>3. /\ w.todo = work[t].todo /\ w.recs = work[t].recs /\ w.n = work[t].n
          /\ w.merged = work[t].merged /\ w.status = Overall(work[t].n)
      BY <2>2 DEF WorkType
    <2> HIDE DEF w
    <2>4. Ledger(w, Planned(t))
      BY <2>2, <2>3 DEF Ledger, OnRecord
    <2>5. w.todo = {} /\ w.status = Overall(w.n)
      BY <2>1, <2>3
    <2>6. QED BY <2>1, <2>4, <2>5, LedgerStep
  <1>6. ASSUME UNCHANGED <<pc, req, work>> PROVE LInv'
    <2>1. \A u \in Threads : /\ Planned(u)' = Planned(u) /\ (Working(u)' <=> Working(u))
                             /\ Overall(work[u].n)' = Overall(work[u].n)
      BY <1>6 DEF Planned, Working
    <2>2. \A u \in Threads : Ledger(work[u], Planned(u))' <=> Ledger(work[u], Planned(u))
      BY <1>6, <2>1 DEF Ledger, OnRecord
    <2>3. QED BY <1>6, <2>1, <2>2 DEF LInv
  <1>7. Tick \/ Reconfigure \/ UNCHANGED vars => UNCHANGED <<pc, req, work>>
    BY DEF Tick, Reconfigure, evars, vars
  <1>8. QED
    BY <1>1, <1>2, <1>3, <1>4, <1>5, <1>6, <1>7 DEF Next, Step

\* The status of an answer says what became of the planned providers, and the
\* event carries exactly what the successful ones returned.
THEOREM StatusesAreTruthful == Spec => []StatusTruthful
  <1>1. Init => LInv
    BY DEF Init, LInv, Working
  <1>2. IInv /\ LInv /\ [Next]_vars => LInv'
    BY NextLedger
  <1>3. IInv /\ LInv => StatusTruthful
    <2> SUFFICES ASSUME IInv, LInv, NEW t \in Threads, pc[t] = "done"
                 PROVE  Truthful(work[t], Planned(t))
      BY DEF StatusTruthful, Truthful, Planned
    <2>1. /\ work[t] \in WorkType /\ Ledger(work[t], Planned(t))
          /\ work[t].todo = {} /\ work[t].status = Overall(work[t].n)
      BY DEF IInv, TypeOK, LInv, Working
    <2>2. Planned(t) \in SUBSET Providers
      BY EngineAssumption DEF Planned, Plan
    <2>3. QED BY <2>1, <2>2, OverallTells
  <1>4. QED BY <1>1, <1>2, <1>3, EngineInvariant, PTL DEF Spec
-----------------------------------------------------------------------------
(* The configuration manager by itself. *)

\* activate and rollback leave exactly one version ACTIVE if there was one;
\* register_draft touches only a version that was not there (lifecycle.py).
THEOREM OneActiveAlways == ManagerSpec => [](ManagerTypeOK /\ OneActive)
  <1>1. ManagerInit => ManagerTypeOK /\ OneActive
    <2> SUFFICES ASSUME ManagerInit PROVE ManagerTypeOK /\ OneActive
      OBVIOUS
    <2>1. ManagerTypeOK
      BY ManagerAssumption DEF ManagerInit, InitialConfigs, ManagerTypeOK, States
    <2>2. ASSUME NEW v \in Versions
          PROVE  configs[v] = "ACTIVE" <=> v = active
      BY DEF ManagerInit, InitialConfigs
    <2> QED
      BY <2>1, <2>2 DEF OneActive, ManagerTypeOK
  <1>2. ManagerTypeOK /\ OneActive /\ [ManagerNext]_mvars => ManagerTypeOK' /\ OneActive'
    <2> SUFFICES ASSUME ManagerTypeOK, OneActive, [ManagerNext]_mvars
                 PROVE  ManagerTypeOK' /\ OneActive'
      OBVIOUS
    <2> USE DEF ManagerTypeOK, OneActive, States
    <2>1. ASSUME NEW v \in Versions, register_draft(v)
          PROVE  ManagerTypeOK' /\ OneActive'
      BY <2>1 DEF register_draft, Registered
    <2>2. ASSUME NEW v \in Versions, activate(v)
          PROVE  ManagerTypeOK' /\ OneActive'
      BY <2>2 DEF activate, CanActivate, Activated
    <2>3. ASSUME NEW v \in Versions, rollback(v)
          PROVE  ManagerTypeOK' /\ OneActive'
      BY <2>3 DEF rollback, RolledBackTo
    <2>4. CASE UNCHANGED mvars
      BY <2>4 DEF mvars
    <2> QED
      BY <2>1, <2>2, <2>3, <2>4 DEF ManagerNext
  <1> QED
    BY <1>1, <1>2, PTL DEF ManagerSpec
=============================================================================
