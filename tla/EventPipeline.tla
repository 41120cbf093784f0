---------------------------- MODULE EventPipeline ----------------------------
(***************************************************************************)
(* The path of one event through the integration layer: the ingress        *)
(* gateway binds the client's key to a tenant, and the runner takes the    *)
(* raw event through M1 .. M5, each either a service or the runner's own   *)
(* stand-in, with an adapter between any two.  Up to M4 the adapters put   *)
(* in the context and M1's evidence whatever the modules dropped; the one  *)
(* after M4 has neither and passes on what M4 says.                        *)
(*                                                                         *)
(* The services are external: each may fail, claim another tenant, leave   *)
(* out what it was given or answer what the runner cannot use.  A digest   *)
(* stands for what it is taken of.                                         *)
(***************************************************************************)
EXTENDS Naturals, Sequences

CONSTANTS
  Absent,            \* Python's None
  Unknown,           \* the identifier "unknown" of a failed execution
  Tenants,
  Credentials,       \* keys a client may present
  Registry           \* Registry[k]: the tenant of a registered key, or Absent

Modules == {"M1", "M2", "M3", "M4", "M5"}

\* Values that come to be during the one execution.
RawId == "raw"          \* raw_event_id
RawHash == "sha"        \* SHA-256 of the raw bytes
Ref == "key"            \* object key in the vault
NewId == "evt"          \* an event id of M3
MadeId == "evt_now"     \* an event id of the adapter
NotCalled == "not called"

ASSUME PipelineAssumption ==
  /\ Registry \in [Credentials -> Tenants \cup {Absent}]
  /\ Absent \notin Tenants \cup {RawId, RawHash, Ref, NewId, MadeId, Unknown,
                               NotCalled}
  /\ NotCalled \notin Tenants
  /\ Unknown \notin {RawId, RawHash, Ref, NewId, MadeId}

VARIABLES
  pc,          \* the next hop
  client,      \* the key it presented and the tenant it asked for
  context,     \* TenantContext
  services,    \* modules given as services
  data,        \* what the next hop works on
  request,     \* the event of the EnrichmentRequest
  vault,       \* the evidence M1 secured
  answer,      \* M4's answer
  calls,       \* calls[m]: the tenant the service m was called with
  trace,       \* TraceContext
  routed,      \* M5 routed the event
  result       \* PipelineExecutionResult

vars == <<pc, client, context, services, data, request, vault, answer,
          calls, trace, routed, result>>

NoData == [none |-> TRUE]
NoResult == [ended |-> FALSE]

Init ==
  /\ pc = "gateway" /\ client = NoData /\ context = Absent
  /\ services \in SUBSET Modules
  /\ data = NoData /\ request = NoData /\ vault = NoData /\ answer = NoData
  /\ calls = [m \in Modules |-> NotCalled]
  /\ trace = [raw |-> Absent, event |-> Absent, hops |-> <<>>]
  /\ routed = FALSE /\ result = NoResult
-----------------------------------------------------------------------------
(* The gateway. *)

\* Mutant: a client may ask for any tenant.
AuthorizedAnyTenant(key, asked) == Registry[key] # Absent

\* authenticate_client: 401 for an unknown key, 403 for another tenant's.
Authorized(key, asked) ==
  Registry[key] # Absent /\ asked \in {Absent, Registry[key]}

Authenticate(key, asked) ==
  /\ pc = "gateway" /\ Authorized(key, asked)
  /\ client' = [key |-> key, asked |-> asked]
  /\ context' = Registry[key]
  /\ pc' = "M1"
  /\ UNCHANGED <<services, data, request, vault, answer, calls, trace,
                 routed, result>>

Reject(key, asked) ==
  /\ pc = "gateway" /\ ~Authorized(key, asked)
  /\ client' = [key |-> key, asked |-> asked]
  /\ pc' = "rejected"
  /\ UNCHANGED <<context, services, data, request, vault, answer, calls,
                 trace, routed, result>>
-----------------------------------------------------------------------------
(* Hops and their failure. *)

\* The hops in the order the runner takes them.
Order == <<"M1", "M1_M2", "M2", "M2_M3", "M3", "M3_M4", "M4", "M4_M5", "M5">>

\* record_hop(..., "SUCCESS"), and "FAILED" for an execution that ends there.
Hop == Append(trace.hops, pc)

Called(m, tenant) == IF m \in services THEN [calls EXCEPT ![m] = tenant]
                                       ELSE calls

\* The first of a chain of alternatives that is there.
FirstOf(s) == LET present == {i \in DOMAIN s : s[i] # Absent}
              IN  IF present = {} THEN Absent
                  ELSE s[CHOOSE i \in present : \A j \in present : i <= j]

\* SmartRouter.extract_tenant_id: tenant.id, or else tenant_id.
Addressed(e) == FirstOf(<<e.tenant.id, e.root>>)

\* Mutant: the evidence is not named any more.
FailedId == Unknown

\* trace.raw_event_id or "unknown".
ReportedId == IF trace.raw # Absent THEN trace.raw ELSE Unknown

\* The except clause: whatever was raised, at whatever hop.
Abort ==
  /\ pc' = "ended"
  /\ trace' = [trace EXCEPT !.hops = Append(@, "FAILED")]
  /\ result' = [ended |-> TRUE, success |-> FALSE, raw |-> ReportedId,
                event |-> trace.event, tenant |-> context, hash |-> Absent,
                digest |-> NoData, final |-> NoData]
  /\ UNCHANGED <<client, context, services, data, request, answer>>

\* The tenant the next service is called for.
CallTenant == CASE pc = "M1" -> context
                [] pc \in {"M2", "M3", "M4"} -> data.tenant
                [] pc = "M5" -> Addressed(data)

\* A service raises, or answers what the runner itself cannot read: from M1 a
\* null integrity or storage block, which comes before the trace is given the
\* identifier; from M4 anything but a dict with m4_output["integrity"]["digest"]
\* (the adapter would take a model or a string, too); from M5 no awaitable, as
\* from SmartRouter.route.  M1 and M5 may have done their work by then.
ServiceFails(m) ==
  /\ pc = m /\ m \in services /\ Abort
  /\ calls' = Called(m, CallTenant)
  /\ vault' \in IF m = "M1" THEN {vault, [raw |-> RawId, hash |-> RawHash]}
                            ELSE {vault}
  /\ routed' \in IF m = "M5" THEN {routed, TRUE} ELSE {routed}
-----------------------------------------------------------------------------
(* M1, and the adapter to M2. *)

\* The envelope: made by the runner, or by a service that may leave out the
\* identifier, the hash or the key.
Envelopes ==
  IF "M1" \in services
  THEN [raw : {RawId, Absent}, hash : {RawHash, Absent}, ref : {Ref, Absent},
        tenant : Tenants \cup {Absent}]
  ELSE {[raw |-> RawId, hash |-> RawHash, ref |-> Ref, tenant |-> context]}

Ingest(e) ==
  /\ pc = "M1" /\ e \in Envelopes
  /\ data' = e
  /\ vault' = [raw |-> RawId, hash |-> e.hash]
  /\ calls' = Called("M1", CallTenant)
  /\ trace' = [trace EXCEPT !.raw = e.raw, !.hops = Hop]
  /\ pc' = "M1_M2"
  /\ UNCHANGED <<client, context, services, request, answer, routed, result>>

\* The trusted context, then what the event says, then a default.
TenantOf(d) == IF context # Absent THEN context ELSE d.tenant

\* M1RawEnvelopeAdapter.adapt: flat fields; an identifier is mandatory.
AdaptM1M2 ==
  /\ pc = "M1_M2" /\ data.raw # Absent
  /\ data' = [data EXCEPT !.tenant = TenantOf(data)]
  /\ trace' = [trace EXCEPT !.hops = Hop]
  /\ pc' = "M2"
  /\ UNCHANGED <<client, context, services, request, vault, answer, calls,
                 routed, result>>
-----------------------------------------------------------------------------
(* M2, and the adapter to M3. *)

\* M2's event: the runner's own, or one that has lost some fields or is no
\* dict: then m2_output["classification"] cannot be read.
Parsed ==
  IF "M2" \in services
  THEN [raw : {data.raw, Absent}, hash : {data.hash, Absent},
        ref : {data.ref, Absent}, tenant : Tenants \cup {Absent},
        classified : BOOLEAN]
  ELSE {[raw |-> data.raw, hash |-> data.hash, ref |-> data.ref,
         tenant |-> context, classified |-> TRUE]}

Parse(e) ==
  /\ pc = "M2" /\ e \in Parsed
  /\ data' = e
  /\ calls' = Called("M2", CallTenant)
  /\ trace' = [trace EXCEPT !.hops = Hop]
  /\ pc' = "M2_M3"
  /\ UNCHANGED <<client, context, services, request, vault, answer, routed,
                 result>>

\* M2M3Adapter.adapt: the hash goes to integrity, the reference to raw.
AdaptM2M3 ==
  /\ pc = "M2_M3" /\ data.raw # Absent
  /\ data' = [data EXCEPT !.tenant = TenantOf(data)]
  /\ trace' = [trace EXCEPT !.hops = Hop]
  /\ pc' = "M3"
  /\ UNCHANGED <<client, context, services, request, vault, answer, calls,
                 routed, result>>
-----------------------------------------------------------------------------
(* M3, and the adapter to M4. *)

\* M3's result has no tenant.  What the runner makes up names M1's evidence;
\* a service keeps or drops each of the places it is named in.
Normalized ==
  IF "M3" \in services
  THEN [success : BOOLEAN, ulpf : BOOLEAN, event : {NewId, Absent},
        provenance : {data.raw, Absent}, raw : {data.raw, Absent},
        rawHash : {data.hash, Absent}, hashValue : {data.hash, Absent},
        ref : {data.ref, Absent}]
  ELSE {[success |-> TRUE, ulpf |-> TRUE, event |-> NewId,
         provenance |-> trace.raw, raw |-> trace.raw,
         rawHash |-> vault.hash, hashValue |-> vault.hash, ref |-> data.ref]}

\* m2_output["classification"] is read by the runner's own M3.
Normalize(e) ==
  /\ pc = "M3" /\ e \in Normalized
  /\ "M3" \in services \/ data.classified
  /\ data' = e
  /\ calls' = Called("M3", CallTenant)
  /\ trace' = [trace EXCEPT !.hops = Hop]
  /\ pc' = "M3_M4"
  /\ UNCHANGED <<client, context, services, request, vault, answer, routed,
                 result>>

\* Mutant: no fallback to M1's hash.
RawHashOfM3(d) == FirstOf(<<d.rawHash, d.hashValue>>)

RawHashOf(d) == FirstOf(<<d.rawHash, d.hashValue, vault.hash>>)

\* adapt_to_canonical_event.
Canonical(d) ==
  [id |-> IF d.event # Absent THEN d.event ELSE MadeId,
   raw |-> FirstOf(<<d.provenance, d.raw, trace.raw>>),
   rawHash |-> RawHashOf(d),
   tenant |-> [kind |-> "dict", tenant_id |-> context, id |-> Absent],
   root |-> Absent, integrity |-> NoData, enrichment |-> Absent]

AdaptM3M4 ==
  /\ pc = "M3_M4" /\ data.success /\ data.ulpf
  /\ request' = Canonical(data)
  /\ data' = [tenant |-> request'.tenant.tenant_id]
  /\ trace' = [trace EXCEPT !.event = Canonical(data).id, !.hops = Hop]
  /\ pc' = "M4"
  /\ UNCHANGED <<client, context, services, vault, answer, calls, routed,
                 result>>
-----------------------------------------------------------------------------
(* M4, and the adapter to M5. *)

\* hashlib is a local name of execute_pipeline, bound only where the runner
\* makes the envelope itself.
HashlibBound == "M1" \notin services

\* The block "tenant" of an event, if there is one.
NoBlock == [kind |-> "none", tenant_id |-> Absent, id |-> Absent]
Blocks == {NoBlock} \cup [kind : {"dict"}, tenant_id : Tenants \cup {Absent},
                         id : Tenants \cup {Absent}]

\* What M4 makes of the event: the runner's own returns it, a service may name
\* any tenant or none and drop the identifiers and extensions.raw_integrity.
\* The event comes wrapped, flat, or as the canonical event itself.
Returned ==
  IF "M4" \in services
  THEN [form : {"wrapped", "flat", "canonical"},
        event : [id : {request.id, Absent}, raw : {request.raw, Absent},
                 rawHash : {request.rawHash, Absent}, tenant : Blocks,
                 root : Tenants \cup {Absent}, integrity : {NoData},
                 enrichment : {Absent}]]
  ELSE {[form |-> "wrapped", event |-> request]}

Enrich(a) ==
  /\ pc = "M4" /\ a \in Returned
  /\ "M4" \in services \/ HashlibBound
  /\ answer' = a
  /\ calls' = Called("M4", CallTenant)
  /\ trace' = [trace EXCEPT !.hops = Hop]
  /\ pc' = "M4_M5"
  /\ UNCHANGED <<client, context, services, data, request, vault, routed,
                 result>>

\* NameError in the runner's own M4.
HashlibUnbound ==
  /\ pc = "M4" /\ "M4" \notin services /\ ~HashlibBound /\ Abort
  /\ UNCHANGED <<vault, calls, routed>>

\* What the adapter takes for the event.  Of a canonical event that is not
\* wrapped it is the block "event", which has nothing but the identifier.
Unwrapped(a) ==
  IF a.form = "canonical"
  THEN [a.event EXCEPT !.raw = Absent, !.rawHash = Absent, !.tenant = NoBlock,
                       !.root = Absent]
  ELSE a.event

\* The tenant in all three places: of the tenant block, or without a block
\* the one next to it.
Harmonized(e) ==
  LET named == IF e.tenant.kind = "dict"
               THEN FirstOf(<<e.tenant.tenant_id, e.tenant.id>>) ELSE e.root
      block == [kind |-> "dict", tenant_id |-> named, id |-> named]
  IN  IF named = Absent THEN e ELSE [e EXCEPT !.tenant = block, !.root = named]

\* M4M5Adapter.adapt: and M4's integrity, and what it says of the enrichment.
Adapted(a) == [Harmonized(Unwrapped(a)) EXCEPT
                 !.integrity = [digest |-> a.event], !.enrichment = "status"]

AdaptM4M5 ==
  /\ pc = "M4_M5"
  /\ data' = Adapted(answer)
  /\ trace' = [trace EXCEPT !.hops = Hop]
  /\ pc' = "M5"
  /\ UNCHANGED <<client, context, services, request, vault, answer, calls,
                 routed, result>>
-----------------------------------------------------------------------------
(* M5 and the result. *)

Route ==
  /\ pc = "M5"
  /\ calls' = Called("M5", CallTenant)
  /\ routed' = TRUE
  /\ trace' = [trace EXCEPT !.hops = Hop]
  /\ result' = [ended |-> TRUE, success |-> TRUE, raw |-> trace.raw,
                event |-> trace.event, tenant |-> context,
                hash |-> vault.hash, digest |-> answer.event, final |-> data]
  /\ pc' = "ended"
  /\ UNCHANGED <<client, context, services, data, request, vault, answer>>

\* An adapter finds its input unusable (as to what it says, or of a type it
\* does not support), or the runner's M3 does.
Unusable ==
  /\ \/ pc = "M1_M2" /\ (data.raw = Absent \/ "M1" \in services)
     \/ pc = "M2_M3" /\ (data.raw = Absent \/ "M2" \in services)
     \/ pc = "M3" /\ "M3" \notin services /\ ~data.classified
     \/ pc = "M3_M4" /\ (~(data.success /\ data.ulpf) \/ "M3" \in services)
     \/ pc = "M4_M5" /\ "M4" \in services
  /\ Abort
  /\ UNCHANGED <<vault, calls, routed>>

Next ==
  \/ \E k \in Credentials, a \in Tenants \cup {Absent} :
       Authenticate(k, a) \/ Reject(k, a)
  \/ \E m \in Modules : ServiceFails(m)
  \/ pc = "M1" /\ \E e \in Envelopes : Ingest(e)
  \/ AdaptM1M2
  \/ pc = "M2" /\ \E e \in Parsed : Parse(e)
  \/ AdaptM2M3
  \/ pc = "M3" /\ \E e \in Normalized : Normalize(e)
  \/ AdaptM3M4
  \/ pc = "M4" /\ \E a \in Returned : Enrich(a)
  \/ HashlibUnbound \/ AdaptM4M5 \/ Route \/ Unusable

Spec == Init /\ [][Next]_vars
-----------------------------------------------------------------------------
(* Properties. *)

Ended == result.ended
Succeeded == Ended /\ result.success

\* The tenants M4's event names, in any of the three places.
NamedByM4 == LET e == Unwrapped(answer)
             IN  {e.tenant.tenant_id, e.tenant.id, e.root} \ {Absent}

\* Whatever tenant M1, M2 and M3 put into their answers or dropped from them,
\* every module up to M4 is called for the tenant of the client's key, and a
\* client that asks for another one gets no further than the gateway.  M5 is
\* called for a tenant that M4's event names, and for none only if that names
\* none; if M4 left the tenant block alone, for the tenant of the key, which
\* the event then names in all three places.
TenantKept ==
  context # Absent =>
    LET own == Registry[client.key]
    IN  /\ client.asked \in {Absent, own}
        /\ \A m \in Modules \ {"M5"} : calls[m] \in {NotCalled, own}
        /\ calls["M5"] # NotCalled =>
             IF NamedByM4 = {} THEN calls["M5"] = Absent
                               ELSE calls["M5"] \in NamedByM4
        /\ Ended => result.tenant = own
        /\ Succeeded /\ Unwrapped(answer).tenant = request.tenant =>
             /\ result.final.root = own
             /\ result.final.tenant.id = own
             /\ result.final.tenant.tenant_id = own

\* The result of a routed event, and the event M4 was given, lead to the
\* evidence: the identifier and the hash are M1's whatever M2 and M3 dropped.
\* The digest M5 gets is the one reported; and if M4 left the event alone, the
\* routed event is, without what the last adapter added, what was digested.
EvidenceKept ==
  Succeeded =>
    LET e == result.final
    IN  /\ result.raw = vault.raw /\ result.hash = vault.hash
        /\ request.raw = vault.raw /\ request.rawHash = vault.hash
        /\ request.id = result.event
        /\ e.integrity.digest = result.digest
        /\ Unwrapped(answer) = request =>
             [e EXCEPT !.tenant = [@ EXCEPT !.id = Absent], !.root = Absent,
                       !.integrity = NoData, !.enrichment = Absent]
             = result.digest

\* What a failed execution leaves behind tells how far the event got, wherever
\* it failed: the trace is the hops that succeeded, in their order, and FAILED;
\* the services called are those of these hops and of the one it failed at, so
\* the event is routed only if it was M5's; the evidence is named once M1's hop
\* succeeded with an identifier, the event once M4's request was made.
FailureTruthful ==
  Ended /\ ~result.success =>
    LET n == Len(trace.hops) - 1
    IN  /\ n \in 0 .. 8
        /\ trace.hops = Append(SubSeq(Order, 1, n), "FAILED")
        /\ \A m \in services :
             calls[m] # NotCalled <=> \E i \in 1 .. n + 1 : Order[i] = m
        /\ routed => n = 8
        /\ result.raw = Unknown => n = 0 \/ (n = 1 /\ trace.raw = Absent)
        /\ result.raw # Unknown => n > 0 /\ result.raw = vault.raw
        /\ result.event # Absent <=> n >= 6
=============================================================================
