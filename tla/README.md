# A TLA+ verification project for ULPF

ULPF (Universal Log Processing Framework) takes logs in over HTTP, UDP, TCP and
file upload (M1), parses them (M2), normalises them (M3), enriches them (M4),
and routes and delivers them (M5); a control plane (M6) distributes
configuration; `src/integration` holds the bridges between the modules. This
directory models the parts of it whose correctness depends on order,
concurrency and failure. `PROJECT.json` maps every definition to source lines
and lists runs, mutants, findings, hazards and theorems.

Run a check with `tlc -workers 2 -config <run>.cfg <module>` and the proofs with
`tlapm <module>.tla`.

## 1. Inventory

| part | state it keeps | operations | interacts with | hard behaviour |
|---|---|---|---|---|
| M1 pipeline and outbox (`pipeline.py`, `outbox.py`, `kafka.py`, `raw_vault.py`) | raw objects in MinIO, records on `ulpf.raw`, rows of a SQLite outbox | store, publish, spool; recovery loop: snapshot, replay, delete | transports call it; Kafka feeds the bridge | dual write without a transaction; time-outs after the effect; crash between replay and delete; a row that can never be sent |
| M1 transports and life cycle (`http.py`, `udp_syslog.py`, `tcp_syslog.py`, `main.py`, `health.py`) | bounded UDP queue, open connections, producer state | receive, drop, read line, boot, shutdown, probe | share one producer with the recovery worker | cancelled workers at shutdown; producer absent at boot |
| M1 to M2 bridge (`m1_raw_consumer.py`, `idempotency.py`, `retry_policy.py`) | position, committed offset, LRU tracker | poll, dispatch with retries, commit | Kafka, M2's `/v1/parse` | marks before it dispatches; commits its position; rebalance; restart; eviction; expiry |
| Configuration worker (`config_worker.py`) | recorded ACKs, active version per scope, files | `apply_configuration` and a handler per module | M6 pushes to it; it calls M1 to M5 and imports M4 | checks before an await and acts after it; several calls at once; restart loses memory |
| M4 configuration manager (`lifecycle.py`) | versions with states, the active one | draft, activate, rollback | used by the worker and by M4's API | sequences of calls |
| M4 engine, providers, cache (`engine.py`, `memory_lru.py`, `tenant_guard.py`, `planner.py`, `merger.py`, `providers/`) | one LRU cache with TTLs for all threads and tenants | enrich: authorise, plan, per provider look up, call, merge, store | reads its configuration from the manager; called by the pipeline | threads interleave between lookup and store; one provider of several fails; a cached answer outlives what it was an answer to |
| M5 routing and delivery (`main.py`, `router.py`, `delivery/`, `datalake/`, `connectors/`) | deliveries in flight, ack tracker, dead letters, lake's processed ids | process_event, send, retry, dead-letter | called by the pipeline; destinations | concurrent deliveries and requests share a tracker; `gather` raising; restart forgets ids |
| M6 parser registry and distribution (`parser_registry.py`, `config_service.py`, `http_module_client.py`, `dependencies.py`) | parser rows, distribution targets, Redis snapshot | register, update, five transitions, dispatch, `process_ack` | PostgreSQL, Redis, the worker | read-check-write without a lock; push inside an open transaction; late answers; one Redis snapshot of all parsers |
| M2 classifier, registry, requests (`main.py`, `registry/`, `classifier/`, `replay/`) | parser definitions by owner, id and version: shared mutable objects in nested dictionaries | parse, register, enable, disable, list, get, replay | the bridge and the runner send events; M6 through the worker | requests are threads and there is no lock: lists are made id by id and go stale while they are tried, dictionaries are created after a test, a lifecycle change stores an object a second time; fallback from tenant to baseline |
| M6 users, tenants, other registries, audit (`api/auth.py`, `core/`, `registry/`, `repositories/`) | rows of users, roles, tenants, sources, policies, mappings, schemas, version histories, audit records | authenticate, create, update, delete, enable, disable, add version | PostgreSQL; publishes changes to the distribution | every await lets another transaction in: checks are made on rows that change before the write; a request that changes nothing waits for no lock |
| Launcher (`run_stack.py`) | its processes, a PID file, a deployment state | check infrastructure, start in order, probe, supervise, clean up, `--stop` | operating system, Docker, every service | processes die, bind late and outlive the launcher; signals at any point |
| Gateway, runner, adapters (`ingress_gateway.py`, `pipeline_runner.py`, `adapters/`) | one execution's context, trace and evidence | authenticate, a hop per module, an adapter between two, failure | all modules, each a service or a stand-in | modules fail, and drop or claim tenant and evidence |
| M1 envelope, rate limiter; M2 discovery and studio; M5 evaluator, search; M6 replay, health, frontend | - | pure functions, request/response code | | not modelled, see section 7 |

What makes each part correct: evidence is stored before it is announced and an
answer is never taken back (M1); an event is passed over only when it was
delivered or processing it raised (bridge); an answer APPLIED and the version
that later events must beat belong to something really applied (worker); one
active configuration, tenants kept apart in a shared cache, a status that owns up to
failed providers (M4); what is answered "processed" is delivered or
dead-lettered (M5); a distribution it acknowledges was adopted and no committed
change is overwritten unseen, authority comes only from authority, and a tenant's
user changes its own tenant only (M6); an event gets the best parser there was
and none of another tenant's (M2); tenant and evidence survive the hops
up to M4, and a failure tells how far the event got (runner); nothing runs before what it depends on, and nothing is left running
(launcher).

## 2. Modules

| module | models | how state and actions correspond to the code |
|---|---|---|
| `RawIngestion` | M1 | `pc[e]` is where `process_raw_payload` is with event `e`; `vault`, `topic`, `outbox` survive a crash. A call to an external store is two actions, effect and answer (`StoreLands`/`StoreReturns`, `PublishLands`/`PublishReturns`), and fails before or after its effect (`StoreFails`, `PublishFails`, `SpoolFails`). `rpc` and `batch` are the recovery worker's. `Boot`, `CloseOutbox`, `StopUdp`, `StopTcpAndKafka` follow `lifespan`. |
| `DurableIngestion` | what M1 promises | stored, delivered, parked, forgotten, accepted: an event is accepted only when stored and delivered; parked rows are forgotten only once delivered. `RawIngestion` implements it (`ImplementsDurableIngestion`). |
| `RawConsumer` | the bridge | `log`, `position`, `committed` are Kafka's; `cache`, `stale`, `results` the tracker's. |
| `ConfigurationManager` | M4's manager | one action per method. |
| `EnrichmentEngine` | M4's engine, cache, planner, merger and providers | extends `ConfigurationManager`. `pc[t]` is where a pool thread is in `process`; `enrich_event` is the route, the checks and the planning, then per provider `CacheHit`, or `CacheMiss` followed by `ProviderReturns`, and `Finish`. `cache` is `_entries` in its order; each cache method is atomic because it holds the lock. |
| `ConfigSync` | the worker | composes `ConfigurationManager` (INSTANCE `M4`). `pc[c]` is the await a call is suspended at; everything between two awaits is one action, since the event loop does not interleave there. |
| `DeliveryEngine` | M5 | `dpc[<<r, d>>]` is where `deliver_to_connector` is; the lake and mock connectors have no await inside, so each is one action. |
| `ConfigDistribution` | M6's parser registry and outbox, with the worker as M6 sees it | a request reads the row (`register`, `transition`, `update`), flushes under the row lock (`Flush`), pushes, selects all active parsers and writes them to Redis (`SelectParsers`, `SetRedis`), and commits; `view[s]` is the session's object, `row` the committed rows. |
| `StackSupervisor` | `run_stack.py` | a process is a component's name and the launch that started it; `alive` and `up` are the operating system's, `procs`, `records` and `state` the supervisor's. `Popen` and `Record` are separate, since a signal may come between them. `Terminate` ends one recorded process after the other, `cleanup` is what follows. `StopBridges` and `StopListeners` are another invocation with `--stop`. |
| `ParserEngine` | M2 | definitions are objects on a `heap`, `slot` is `_parsers`, `order` its insertion order, `active` the objects whose status is ACTIVE. `made` counts the dictionaries created for an owner. A request lists one id at a time (`ListBegin`, `ListStep`, `ListNext`, `ListEnd`; `ListFails` when the dictionary changed size), tries candidates, parses, saves (`SaveBegin` finds which dictionaries are lacking, `Save` creates them and stores); `stage[t]` is the step of `find_parser`. |
| `ControlPlane` | M6 without parsers | `pc[t]` is the statement a request's transaction is at; `users`, `tenants`, `rows` and `newest` (the newest version row) are committed, `seenUser`, `seenRow` and `seenRoles` what the session read, `locks[t]` what it wrote and has not committed. `who[t]` is the caller as authenticated at the start of the request. A user row has an `id`, the request that created it: a user deleted and created again under the same name is another row, with role rows of its own. |
| `EventPipeline` | gateway, runner, adapters | `pc` is the next hop; `services` the modules given as services; an envelope or event of a service is chosen from everything the adapters have a fallback for, and from what they have none for. `Abort` is the runner's one `except`. |

`MC*` modules give instances, `*Proofs` modules hold theorems. Definitions whose
comment starts with "Mutant" are wrong variants of the code, used to show that a
property can fail.

Events, versions and payloads are model values: no property looks inside them
except versions in `ConfigSync`, where `parse_semver` is modelled by what it does
(numeric parts, padding, dropped pre-release tag).

Abstractions worth knowing:

* `RawIngestion`: admission (token, size, rate limit) happens before an event
  exists in the model. Kafka's client is modelled from how the code uses it: a
  send may fail before or after the record is stored, and it always fails for
  `Oversized` events: HTTP takes bodies of 2 MB, the producer sends 1 MB. The
  test `if outbox is not None` of `pipeline.py` is always true in the service,
  since `main.py` hands every transport its outbox.
* `RawConsumer`: one partition. The tracker's SQLite mode is left out, because
  the bridge never passes `db_path`.
* `ConfigSync`: verification of M1 to M3 always answers true, as the code does
  with and without a live service; M4's may compare with the live service. A
  scope is a tenant, a module and an entity; which scope an event is checked
  against and which one is recorded are two operators, since the code computes
  them in two places (`CheckedScope`, `AppliedScope`). The properties claim
  what the stale check can give: nothing where calls for a scope overlap, and
  nothing for an event that is checked against another scope (`Guarded`).
* `EnrichmentEngine`: what a provider found is which identifiers of the event it
  knew, for whom, and under which keys of its dictionary. The HTTP provider is
  registered in the model although `deps.py` registers only the three local
  ones: the class is there, and it is the one that fails, times out and shares a
  namespace. A rule's condition is the existence of a field. `host.hostname` and
  `host.name` are one field. Events arrive valid and without enrichment.
  `Reconfigure` is any user of the process's manager singleton; M4's own API
  only reads it. `verify_invariants` never raises, since nothing writes the
  fields it compares.
* `DeliveryEngine`: `Mock` chooses the connectors in mock mode;
  `initialize_m5_components` starts all of them so, the class supports both. The
  connectors' `is_healthy` is set by their constructors and cleared by nothing in
  the program, so the refusal it guards is left out.
* `ConfigDistribution`: several parsers, one target module. An edit of columns other
  than status and version takes the row lock as any UPDATE does; an update that
  changes nothing sends no UPDATE and takes none. M6 is taken to be configured
  with the worker's address (section 6). `POST /configuration/ack` asks for no
  credentials and compares the status with nothing, so `process_ack` is anybody's
  call for a committed distribution; `told` remembers for which. `missed` and
  `behind` are history variables: the parsers whose last change a snapshot does
  not know.
* `StackSupervisor`: deadlines are a number of polls. Docker's daemon and
  containers come and go by themselves. `NothingLeftBehind` speaks of the
  processes the launch recorded: one started but not yet appended when a signal
  arrives is not cleaned up by the code either. Left out: a process that neither
  ends within the 2 seconds after `terminate` nor falls to `taskkill`, which
  exists on Windows only, and a second signal during `cleanup`, which starts the
  loop again from its beginning.
* `ParserEngine`: a payload is the set of its signals, a pattern the set of events
  it accepts; classification (format order, source scores) is modelled, extraction
  is not. `BestAvailable` compares with the parsers that were eligible at every
  moment of the request (`steady`), since what comes or goes meanwhile may be
  seen or missed. A thread may be switched at every id of a listing and between
  the tests and the assignments of `save`; the dictionaries `save` creates come
  into sight with the definition it stores in them.
* `ControlPlane`: PostgreSQL is modelled from how it is used: READ COMMITTED,
  row locks until commit, unique and foreign keys. SQLAlchemy sends an UPDATE
  only for columns whose value changed; without one no lock is taken (`Touches`),
  and the object is still refreshed, versioned and published. The keys are those
  of a migrated database (`alembic`): `mapping_id` is unique among all tenants,
  sources and policies by tenant. The role rows of a user are locked together.
  The creation of schemas is left out. The sets `overlapped`, `moved`,
  `unsettled` and `raced` are history variables, which record the situations that
  the properties except.
* `EventPipeline`: one execution, because executions share only the gateway's
  table and the services. A digest is the event it was taken of. A service for M4
  may name any tenant in any place, or none, drop the identifiers, and return the
  event wrapped, flat or bare. An answer the runner itself cannot read is a
  failure of that hop, whether or not the adapter would have taken it.

## 3. Runs

Bounds are constants of the modules (`MaxFaults`, `MaxCrashes`, `MaxRestarts`,
`MaxLog`, `MaxCalls`, `MaxOpen`, `MaxRetries`); none is hidden. Deadlock checking
is off where the bounded system stops once its inputs are used up.

| run | shows | bound and why it is enough |
|---|---|---|
| `RawIngestion_ingest` | order of the dual write, durable answers, explained duplicates, refinement, nothing stays in the outbox but a refused row and those behind it | a request whose body Kafka refuses, two datagrams over a queue of one and one worker (so the queue fills), two TCP lines, two faults: a fault inside recovery from a fault |
| `RawConsumer_bridge` | loss only after giving up, repeats explained, every record settled | three events on a log of four with repetitions, one malformed, one rejected, a tracker of two keys (so that it evicts), two faults |
| `EnrichmentEngine_requests` | tenants apart, hits within a TTL, truthful status, one ACTIVE configuration | two threads, any three of four requests of two tenants for the same address (so that one tenant's entry is there when the other looks), two configurations, a cache of two entries (so that it evicts), one clock tick (so that the entries with TTL 0 expire and the others do not), a remote provider that shares the threat namespace and comes first |
| `ConfigSync_mixed` | the recorded version was applied, files keep up with it, only newer versions are answered APPLIED | any three of twenty-two events, two at a time, and a restart: equal, older, newer, repeated, failing and refused ones for all modules, two tenants and two entities on one path, events without an entity; every handler and every early return |
| `DeliveryEngine_deliver` | processed means delivered or dead-lettered; truthful tracker; explained copies, one in the lake per life; requests and deliveries end | four requests, two with the same event, one unrouted; a remote, a mock, the lake, a connector that cannot encode and a destination without one; two attempts, two faults (a delivery out of attempts, or a failed dead-letter write), one crash |
| `ConfigDistribution_requests` | truthful acknowledgements, the Redis snapshot follows the database, no lost update, every request ends | two concurrent requests of any kind, one of the two parsers absent or in a status from which they reach the others, the other one active (so that requests on different parsers write one snapshot), two versions, two attempts, one fault |
| `StackSupervisor_launch` | start in order, nothing recorded left behind, deaths noticed, launches settle | two launches (so that one meets the other's leftovers), `--stop` at any time, two of deaths, outages and hard kills; a plain service, M1 with its second probe, the bridge and a frontend: every kind of component |
| `ParserEngine_requests` | the best parser that was there throughout, tenants apart, a sound store | three requests of any kind, two tenants and the baseline, two ids, two versions, a vendor parser in the baseline beside a definition that does not validate; to be registered a generic one for everybody, one of another tenant, and three of a tenant that compete for its event of an unknown vendor; three objects, so that two registrations meet each other and a listing |
| `ControlPlane_requests` | traceable authority, one role per user, current histories and events, tenant boundary | three concurrent requests out of 29: pairs of requests on one user, row or tenant by callers of every kind, updates that change nothing, creations that collide within and across tenants, a user created again while it is changed, and a failing commit |
| `EventPipeline_execute` | tenant kept up to M4 and named by M4 after it, evidence kept, truthful failure | all 32 choices of services, two tenants, three keys, every subset of droppable fields, every place and form in which M4 names a tenant |
| `ConfigSync_race`, `EnrichmentEngine_cache` | **violations**, section 6 | the smallest instance that shows the step |

Every property of a passing run has a mutant in `PROJECT.json` that breaks it.
Events, requests and calls of a run are finite, so "every request ends" is stated
as: in the end, and for good, none is open.

## 4. Fairness

`EnrichmentEngine`, `ParserEngine`, `ControlPlane` and `EventPipeline` state no
liveness and assume no fairness.

* `RawIngestion`: weak fairness of the pipeline's and the recovery worker's own
  steps (the event loop runs every ready task) and of `Boot`: the service is
  `restart: unless-stopped` in M1's `docker-compose.yml`. Failures are never
  fair; they are bounded.
* `RawConsumer`: weak fairness of the consumer loop.
* `DeliveryEngine`: weak fairness of each delivery and each request; clients have
  time-outs, so a call on the wire ends.
* `ConfigDistribution`: strong fairness of a request's steps, because PostgreSQL
  hands a row lock to the waiters in turn, and weak fairness of the worker.
* `StackSupervisor`: weak fairness of the launcher's own steps: it is one process
  whose loops sleep and poll. Nothing is assumed of the processes it starts.

## 5. What is proved

TLAPS checks these for every value of the constants that satisfies the modules'
named assumptions. They ask for finite sets where elements are counted
(`Events`, `Requests`, `Calls`) and bounds in `Nat`; for an absent value
that is none of the real ones (`NoneAssumption`, `Absent` in `SyncAssumption` and
`PlaneAssumption`); for requests with the fields their endpoint's body has; and,
in `PlaneAssumption`, for an initial database this program could have left: one
role per user, a history whose newest entry is the row.

* `RawIngestionProofs`: `IngestTypes`; `IngestInvariant`; `EvidenceAlwaysFirst`;
  `AnswersStayDurable`; `IngestionKeepsPromise`; `DuplicatesAreExplained`.
  `EvidenceFirst` alone is not inductive: a pipeline in
  `publish` must be known to have stored its object (`PipelineFacts`), a row to
  have its object (`RowFacts`), and the recovery worker's batch to consist of
  rows or of events already sent (`ReplayFacts`). `IInv` is their conjunction.
  The refinement of `DurableIngestion` takes every action to a step of the
  promise or a stutter (`NextRefines`); it needs `IInv` where a row is deleted
  (it was sent) and where an event is accepted (it is stored and on the topic).
  `DuplicatesExplained` counts: the copies on the topic *and* those still owed, of
  events that are on it and will be sent again (`Owed`), are at most the
  published events and the faults (`CopiesPaid`).
* `ParsingProofs`, first part (`RawConsumer`): `BridgeInvariant`, `BridgeLosesOnlyWhatItGaveUp`,
  `RepeatsAreExplained`. The strengthening says that what the tracker holds is
  settled or in hand (`TrackerHoldsSettled`), and what lies between the committed
  offset and the position as well (`Progress`). Without it a suppressed duplicate
  could move the offset over an event nobody handled. `RepeatsExplained` needs
  that each event's handling and the chances it still has (`Chances`) are paid for
  by faults, and that a tracker of different keys, all from the topic, evicts none
  while they fit (`TrackerFacts`).
* `ParsingProofs`, second part (`ParserEngine`, whose formulas are `ParserInit`,
  `ParserNext` and `ParserSpec` so that one module can extend both):
  `ParserTypes`, `StoreStaysSound`, `RequestsIsolated`, `BestIsTaken`, from four
  invariants, each inductive with the ones before it.
  * `PlaceInvariant`: where a request of each kind can be, and that an iteration
    is over a dictionary of its list and knows its ids (`Places`).
  * `StoreInvariant`: `StoreSound` speaks of what is stored; a lifecycle change
    stores its object again after another request may have replaced it, so every
    object ever made must be sound (`ObjectsSound`) and every registration under
    way let in (`MayOK`).
  * `OwnInvariant`: the candidates a request has left are its tenant's or the
    baseline's (`ListOwn`), and a lookup finds one of those (`GetFacts`).
  * `WatchInvariant`: while `find_parser` runs, what was eligible all along belongs
    to no step that is over; in the step at hand it is listed or still ahead of the
    iteration (`Listed`, `Ahead`), and then among the candidates left (`Watched`),
    which are in the order of their priority (`Sorted`). A parser registered
    before the place the iteration has reached is not steady, and one that makes
    the dictionary grow ends the request.

  They rest on what the lists contain: `KeptFacts`, `PriorityFacts`,
  `DictionariesFacts`, `ListStepFacts` and `EligibleShelf` say that each step of
  `list_for_tenant` leaves out no eligible definition, adds none of another owner
  and sorts by priority at the end; `StoredFacts` what `save` leaves of a store
  whose dictionaries it found lacking.
  `FlattenSeq` is recursive; the induction is by the least counterexample
  (`LeastOf`, `Climb`), which needs no theorem with an operator parameter, and
  `Unfold` gives the equation of its recursive function. `ParserAssumption` asks
  that definitions, callers and envelopes name known owners and that the baseline
  fits the bound on objects.
* `EnrichmentEngineProofs`: `EngineInvariant`, `EngineTypes`, `EngineOneActive`,
  `TenantsIsolated`, `HitsStayFresh`, `StatusesAreTruthful`,
  and `OneActiveAlways` of the manager by itself, which is inductive with its type
  invariant. `TenantIsolation` speaks
  of owners only; to be kept by a hit it needs that the tenant of the request is
  the event's (`OwnTenant`), and `HitsAreFresh` that an entry's time is its
  data's and its TTL some version's for its provider (`FiledBy`). The lemmas on
  `Drop`, `Without` and `Set` say what the cache's methods do to a sequence of
  such entries; `EnrichType` that a provider which is not tenant-sensitive never
  answers with a tenant's data; `SettledKeeps` and `WorkStep` carry the rest.
  `StatusTruthful` is about the end of the loop over the providers: on the way the
  counters, the records and the merged keys agree, and a planned provider is
  either to come or on record (`Ledger`).
* `ConfigSyncProofs`: `SyncInvariant`, `BarStaysApplied`, `FileStaysCurrent`,
  `AppliedStaysNewer` (an action property). A call that nobody of its scope
  overlaps is alone in it, still newer than what is recorded, and past its write
  the last of its scope to have written the file (`Alone`); a file is where its
  writer puts it (`FilesInPlace`). `NewerStrict` says that the order `parse_semver`
  gives is strict, whatever parts a version has. The proof changed the
  properties, see section 6.
* `DeliveryEngineProofs`: `DeliveryInvariant`, `ProcessedStaysAccounted`,
  `TrackerIsTruthful`, `CopiesAreExplained`. `PlaceFacts` says what each place of
  `deliver_to_connector` knows of the destination and the dead-letter file, which
  is what makes the answer "processed" true when all deliveries are over. Copies are counted
  with the requests that may still bring one (`CopiesPaid`), and in the lake with
  the ids it remembers (`LakePaid`).
* `ConfigDistributionProofs`: `DistributionInvariant`, `AcksAreTruthful`,
  `NoUpdateIsLost` (an action property), `RedisStaysCurrent`. `Locking` says that a request past its
  first flush holds the row, unless it changes nothing, and what its object then
  knows of it; `Answers` ties recorded acknowledgements and replies to adoption
  (`PushedOnce`: an event is pushed once unless a flush failed, which is why an
  adopted configuration is acknowledged unless a fault came in between), and
  `Paid` gives each such request a fault of its own; `Objects` keeps attempts
  below the bound and objects distinct from the absent row. `RedisCurrent` needs
  `Snapshot` besides: a snapshot that was selected agrees with what its session
  sees, and Redis with what its writer sees, but for what they missed.
* `ControlPlaneProofs`: every property of the run.
  * `PlaneInvariant`, `AuthorityStaysTraceable`. That nobody
    becomes a super admin without one is not inductive: the roles a transaction will
    leave are computed from rows read earlier. The strengthening says that a request
    past its checks names no platform role unless its caller was a super admin
    (`Modest`), that who replaces role rows holds their lock (`HoldsRoles`,
    `Exclusive`), and that what it leaves are committed roles and its own
    (`Replaces`).
  * `PlaneTypes`, `RolesInvariant`, `RolesAreExplained`: a role change nobody
    overlapped found all the role rows there are, and leaves its own only
    (`RoleFacts`); ids are those of requests that have ended (`IdsEnded`), so a
    user created again is told from the one that was loaded.
  * `RowsInvariant`: a request that changes its row holds the lock past its write,
    so what it wrote is still what it would write (`RowFacts`), and no row is there
    before its creation (`NoGhosts`).
  * `HistoryInvariant`, `HistoryStaysCurrent`: the version row of the request that
    holds the row is newer than all others, and one without a lock is older or
    says the same as the row (`Dated`), unless it was overtaken (`raced`).
  * `PublishedInvariant`, `PublishedStaysCurrent`: the last event is what the
    request about to commit will make of the row, or, with none, what the row is
    (`Announced`).
  * `BoundsInvariant`, `TenantsStayApart` (an action property): what a request of a
    tenant's user is about belongs to that tenant from its checks to its commit
    (`Bounds`); rows never change their tenant, and users do only if a super admin
    moves them.
* `IntegrationProofs`, first part (`EventPipeline`): `PipelineInvariant`, `TenantAlwaysKept`,
  `EvidenceAlwaysKept`, `FailuresAreTruthful`. The invariant says, hop by hop, what the event carries:
  the adapters up to M4 put the context's tenant in (`DataBound`), what M2 and M3
  left of the hash is M1's (`DataBound`, `EvidenceBound`), M4's request is the
  context's and M1's (`Owned`), and M5 is called for what M4's answer names
  (`CallsBound`, `Claimed`). `FallbackFinds` says what a chain of
  alternatives returns. `FailureTruthful` rests on a second invariant: at each hop the
  trace and the calls are those of the hops before it (`TrailBound`).
* `IntegrationProofs`, second part (`StackSupervisor`, whose formulas are `StackInit`,
  `StackNext` and `StackSpec` so that one module can extend both): `StackInvariant`,
  `ComponentsStartInOrder`, `NothingStaysBehind`, `DeathsAreNoticed`. `StackInv` says what each place of the launcher knows
  (`PlaceFacts`): the components up to the current one were started, the ones before
  it are READY and the others untouched (`InOrder`, `Untouched`), also after the
  launcher is gone; whatever died did so no earlier than at the last wait that
  polls (`Polled`). A process carries the number of its launch, which is how
  leftovers of earlier launches are told apart (`Launched`). The theorems assume
  `StackAssumption`: the lists of components hold none twice, and Docker's
  containers, Kafka and MinIO are among the infrastructure, as in `run_stack.py`.

Each invariant was checked with TLC before it was proved.

Only model-checked:

* every liveness property (fairness and ENABLED are out of the prover's reach);
* `ActiveNeverOlder` and `VerdictFitsEvent`, which are violated.

## 6. Where the code and its documentation disagree

Two of these are runs that TLC ends with a counterexample; `PROJECT.json` quotes
the line.

1. `ConfigSync_race`: of two overlapping calls the older version is activated
   last.
2. `EnrichmentEngine_cache`: the threat provider's cache key is one of the three
   indicators its answer depends on, so the verdict of one event is served to
   another.

Three more were found the same way; the passing runs contain the behaviour, and
their properties are stated so that they allow it:

3. A crash, a cancelled UDP worker or a failed spool leaves a raw object with
   neither a record nor an outbox row (`pipeline.py:87`; `outbox.py:18`: "Ensures
   that raw objects persisted to MinIO are never orphaned").
4. The committed offset passes events M2 never acknowledged
   (`m1_raw_consumer.py:205`; line 16: "Commits Kafka offset ONLY after M2
   acknowledges success").
5. A module adopts a configuration whose transaction M6 then rolls back
   (`config_service.py:429`; lines 16-18 put the commit before the push).

Seen while modelling and part of the models, without a run of their own: an
outbox row the Kafka client refuses stays at the head and blocks the rows behind
it (`Oversized`, `Stuck`; `outbox.py:18`: such events "are eventually replayed"), so
`EventuallyReplayed` claims the rows ahead of it only; the second
`check_and_set` of the bridge never stores M2's answer; `rollback` of the M4
manager accepts a draft that was never active; an event without an entity id is
checked against one scope and recorded under another (`CheckedScope`,
`AppliedScope`), so that a version that is not newer can be applied; the paths of
mappings and policies have no tenant in them, those of sources and enrichment
configurations no entity (`Path`; these two were met in the attempt to prove
`FileKeepsUp` and `AppliedIsNewer`, which now except them); M4's adoption is verified against the worker's own manager when the
service does not answer (`MayAdopt`); a routed destination without a connector is
dropped (`Targets`); the lake's processed ids do not survive a restart (`Crash`);
a transport failure is answered FAILED by `push_configuration` itself and so is
never retried (`Answered`); two concurrent transitions can commit a change of
status that `PARSER_TRANSITIONS` forbids, each legal from the status it read
(`transition`); a provider's timeout in seconds, cut to an integer, is the TTL of
its cache entries (`Ttl`); a lifecycle change that keeps the version is refused
as stale by the worker (`Stale`); requests on two parsers can leave Redis without
the change of the one, until the next request on any parser writes the snapshot
anew (`SelectParsers`, `SetRedis`, `RedisCurrent`); whoever reaches `POST
/configuration/ack` can have a distribution shown as acknowledged or failed
(`process_ack`); `run_stack.py:78-82` gives M6 the
addresses of the modules themselves, which have no `/config/apply`, and the
integration's compose file (lines 184-188) the worker's with that path in it, which
`push_configuration` appends once more, so that deployed as they are no push reaches
`apply_configuration` and every target ends FAILED.

In the launcher: `--stop` spares web frontends (`keep_ui` is true by
default), although the repository's README offers it to stop all services
(`StopListeners`); a launch that fails at the infrastructure exits without
cleaning up and leaves an earlier PID file (`ProbeFails`); a frontend of an
earlier launch answers the new one's probe (`GetAnswered`). In M2: a tenant
admin's enable and disable fall back to the baseline's definition (`Lifecycle`); a
disable that names no version disables the next lower one when repeated; a
registration that comes between a disable's lookup and its second store is
overwritten (`Save`); of two first registrations of an owner, or of an id, that
overlap, one can be lost with the dictionary it was stored in, or end in a
`KeyError` (`Lacks`, `Stored`, `SaveFails`); a dictionary that changes size while it is listed fails the
request (`ListFails`); replay runs disabled parsers; the time-out of a Grok parser
does not end its thread, and the caller waits for it. In M6: a mapping is created
for whatever tenant the body names; the keys differ between the models' metadata,
the migrations and `scripts/migrate.py`: in a migrated database `mapping_id` is
unique for all tenants together (`alembic` 0001:186), so that a tenant cannot
extend a baseline mapping under its id, which `MappingRegistry.create` would let it,
and the names and versions of schemas have no unique key although the models give
them one; an update that changes nothing (only a reason, or the loaded values by
the same actor) takes no lock, and its version row and event can come after those
of an update that changed the row meanwhile, with the old contents (`Touches`,
`raced`, `HistoryCurrent`); overlapping
role changes leave a user with two roles (`RolesExplained`); enable and disable
publish the object as loaded (`PublishedCurrent`); a tenant admin's change is
committed on a user that was reassigned meanwhile (`TenantBoundary`); a user
deleted twice at the same time gives two audit records. In the runner: with a
service for M1 and none for M4 the name `hashlib` is unbound and every execution
fails (`HashlibUnbound`); the last adapter has no context and passes on the tenant M4
names, or none, although `pipeline_runner.py:28` promises that the tenant is kept
(`Harmonized`, `TenantKept`), and an event M4 returns bare loses tenant and evidence
(`Unwrapped`); the runner subscripts answers of M2 and M4 that the adapters accept as
models or JSON (lines 267, 322), and awaits M5's `route`, which `SmartRouter` defines
without `async` (line 334): the event is then routed and reported as failed
(`ServiceFails`); an envelope of M1 with an identifier and a null block is reported
as "unknown"; a null `tenant_id` at the root becomes the text "None"; the idempotency tracker and retry policy are never used;
M2's status is not looked at by the adapter; the gateway never checks
`allowed_sources`; `TenantContext` is documented as immutable and is assigned to.

## 7. Not modelled

* Text: log formats, what a pattern extracts, discovery and the studio's test
  bench; M1's envelope builder (ids and hashes); M4's validation, canonical hashing
  and URL checks; M5's condition evaluator. They are functions of one payload,
  event or URL. A model over small sets of model values would say nothing of them,
  and the state machines take their results as inputs.
* Wall-clock arithmetic: M1's token bucket.
* Code that only reads or reports: M5's search, M6's health, metrics and service
  pages, the integration's health aggregator, the frontends.
* M6's replay jobs: a job is a row that one coroutine writes.
* The creation of schemas in M6.
* Database migrations (their keys are `ControlPlane`'s), contract and client generators, deployment files, tests.
* `rollback_parser` of M2, cache invalidation of M4 and the tracker's SQLite mode,
  which nothing calls.
* M3, which is not in the repository.

## 8. Plan

Done: the modules of section 2, in the order ingestion, bridge, configuration
(M4, worker, M6), enrichment, delivery, then M2's registry, the control plane,
the pipeline and the launcher. Next, most valuable first:

1. A composition of `RawIngestion` and `RawConsumer` over the topic: an accepted
   event reaches M2 or is given up.
2. M5's condition evaluator as a recursive function against a reference.
