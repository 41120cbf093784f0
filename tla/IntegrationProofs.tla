-------------------------- MODULE IntegrationProofs --------------------------
(***************************************************************************)
(* The integration layer: the pipeline runner, for any tenants, keys and   *)
(* registry of keys, and whatever services there are; and the launcher of  *)
(* the stack, for any infrastructure, services, frontends, number of       *)
(* launches and of faults.  The two share no state and are proved apart.   *)
(***************************************************************************)
EXTENDS EventPipeline, StackSupervisor, SequenceTheorems, TLAPS


\* What the next hop works on, by position.
EnvelopeType == [raw : {RawId, Absent}, hash : {RawHash, Absent},
                 ref : {Ref, Absent}, tenant : Tenants \cup {Absent}]
ParsedType == [raw : {RawId, Absent}, hash : {RawHash, Absent},
               ref : {Ref, Absent}, tenant : Tenants \cup {Absent},
               classified : BOOLEAN]
NormalizedType == [success : BOOLEAN, ulpf : BOOLEAN, event : {NewId, Absent},
                   provenance : {RawId, Absent}, raw : {RawId, Absent},
                   rawHash : {RawHash, Absent}, hashValue : {RawHash, Absent},
                   ref : {Ref, Absent}]
EventType == [id : {NewId, MadeId, Absent}, raw : {RawId, Absent},
              rawHash : {RawHash, Absent}, tenant : Blocks,
              root : Tenants \cup {Absent}, integrity : {NoData},
              enrichment : {Absent}]
AnswerType == [form : {"wrapped", "flat", "canonical"}, event : EventType]

Hops == {"M1", "M1_M2", "M2", "M2_M3", "M3", "M3_M4", "M4", "M4_M5", "M5"}

\* The context is the tenant of the key.
ContextBound ==
  /\ pc \in Hops \cup {"gateway", "rejected", "ended"}
  /\ pc \in Hops \cup {"ended"} => context \in Tenants
  /\ pc \in {"gateway", "rejected"} => context = Absent
  /\ context # Absent => /\ client.asked \in {Absent, Registry[client.key]}
                         /\ context = Registry[client.key]
  /\ trace \in [raw : {RawId, Absent}, event : {NewId, MadeId, Absent},
                hops : {trace.hops}]

\* A tenant that M4's event names, or none if it names none.
Claimed(t) == IF NamedByM4 = {} THEN t = Absent ELSE t \in NamedByM4

\* No module but M5 was called for another tenant than the context's.
CallsBound ==
  /\ calls \in [Modules -> Tenants \cup {Absent, NotCalled}]
  /\ \A m \in Modules \ {"M5"} : calls[m] \in {NotCalled, context}
  /\ pc = "gateway" => \A m \in Modules : calls[m] = NotCalled
  /\ pc # "ended" => calls["M5"] = NotCalled
  /\ calls["M5"] # NotCalled => Claimed(calls["M5"])

\* The tenant and the evidence, hop by hop.
DataBound ==
  /\ pc = "M1_M2" => data \in EnvelopeType /\ data.raw = trace.raw
  /\ pc = "M2" => data \in EnvelopeType
  /\ pc \in {"M2_M3", "M3"} => data \in ParsedType
  /\ pc = "M3_M4" => data \in NormalizedType
  /\ pc \in {"M2", "M3", "M4"} => data.tenant = context
  /\ pc \in {"M1_M2", "M2", "M2_M3", "M3"} => data.hash \in {vault.hash, Absent}
  /\ pc = "M3_M4" => /\ data.rawHash \in {vault.hash, Absent}
                     /\ data.hashValue \in {vault.hash, Absent}

EvidenceBound ==
  /\ pc \in Hops \ {"M1"} => /\ vault.raw = RawId
                             /\ vault.hash \in {RawHash, Absent}
  /\ pc \in Hops \ {"M1", "M1_M2"} => trace.raw = RawId
  /\ pc \in {"gateway", "M1"} => trace.raw = Absent

\* The request is the context's and M1's.
Owned == /\ request \in EventType
         /\ request.tenant = [kind |-> "dict", tenant_id |-> context, id |-> Absent]
         /\ request.root = Absent
         /\ request.raw = RawId /\ request.rawHash = vault.hash

RequestBound ==
  /\ pc \in {"M4", "M4_M5", "M5"} => Owned /\ request.id = trace.event
  /\ pc \in {"M4_M5", "M5"} => answer \in AnswerType
  /\ pc = "M5" => data = Adapted(answer)

ResultBound ==
  /\ result = NoResult \/ (result.ended /\ pc = "ended")
  /\ pc = "ended" => result.ended /\ result.tenant = context
  /\ pc = "ended" /\ result.success =>
       /\ Owned /\ answer \in AnswerType
       /\ result.raw = RawId /\ vault.raw = RawId
       /\ result.hash = vault.hash
       /\ result.event = request.id
       /\ result.digest = answer.event
       /\ result.final = Adapted(answer)

\* The inductive invariant of the event.
IInv == /\ ContextBound /\ CallsBound /\ DataBound /\ EvidenceBound
        /\ RequestBound /\ ResultBound
-----------------------------------------------------------------------------
\* A chain of two alternatives.
LEMMA FirstOfTwo ==
  ASSUME NEW a, NEW b
  PROVE  FirstOf(<<a, b>>) = IF a # Absent THEN a ELSE b
<1> DEFINE s == <<a, b>>
           present == {i \in DOMAIN s : s[i] # Absent}
           c == CHOOSE i \in present : \A j \in present : i <= j
<1>1. DOMAIN s = {1, 2} /\ s[1] = a /\ s[2] = b
  OBVIOUS
<1>2. CASE a = Absent /\ b = Absent
  <2>1. present = {}
    BY <1>1, <1>2
  <2> QED  BY <2>1, <1>2 DEF FirstOf
<1>3. CASE a # Absent
  <2>1. present \subseteq {1, 2} /\ 1 \in present
    BY <1>1, <1>3
  <2>2. c = 1
    <3>1. \E i \in present : \A j \in present : i <= j
      BY <2>1
    <3>2. c \in present /\ \A j \in present : c <= j
      BY <3>1
    <3>3. c \in {1, 2} /\ c <= 1
      <4> HIDE DEF c, present
      <4> QED  BY <3>2, <2>1
    <3> HIDE DEF c
    <3> QED  BY <3>3
  <2>3. FirstOf(s) = s[c]
    BY <2>1 DEF FirstOf
  <2> QED  BY <1>1, <1>3, <2>2, <2>3
<1>4. CASE a = Absent /\ b # Absent
  <2>1. present = {2}
    BY <1>1, <1>4
  <2>2. c = 2
    <3>1. c \in present
      <4>1. \E i \in present : \A j \in present : i <= j
        BY <2>1
      <4> QED  BY <4>1
    <3> QED  BY <3>1, <2>1
  <2>3. FirstOf(s) = s[c]
    BY <2>1 DEF FirstOf
  <2> QED  BY <1>1, <1>4, <2>2, <2>3
<1> QED  BY <1>2, <1>3, <1>4

\* A chain of fallbacks that ends in M1's value gives M1's value, if whatever
\* comes before it is that value or missing.
LEMMA FallbackFinds ==
  ASSUME NEW v, NEW a \in {v, Absent}, NEW b \in {v, Absent}
  PROVE  FirstOf(<<a, b, v>>) = v
<1> DEFINE s == <<a, b, v>>
           present == {i \in DOMAIN s : s[i] # Absent}
<1>1. DOMAIN s = {1, 2, 3} /\ s[1] = a /\ s[2] = b /\ s[3] = v
  OBVIOUS
<1>2. CASE v = Absent
  <2>1. present = {}
    BY <1>1, <1>2
  <2> QED  BY <2>1, <1>2 DEF FirstOf
<1>3. CASE v # Absent
  <2>1. present \subseteq {1, 2, 3} /\ 3 \in present
    BY <1>1, <1>3
  <2>2. \E i \in present : \A j \in present : i <= j
    <3>1. CASE 1 \in present
      BY <3>1, <2>1
    <3>2. CASE 1 \notin present /\ 2 \in present
      BY <3>2, <2>1
    <3>3. CASE 1 \notin present /\ 2 \notin present
      BY <3>3, <2>1
    <3> QED  BY <3>1, <3>2, <3>3
  <2> DEFINE c == CHOOSE i \in present : \A j \in present : i <= j
  <2>3. c \in present
    BY <2>2
  <2>4. s[c] = v
    BY <2>3, <1>1, <2>1
  <2>5. FirstOf(s) = s[c]
    BY <2>1 DEF FirstOf
  <2> QED  BY <2>4, <2>5
<1> QED  BY <1>2, <1>3

\* What the adapter takes for M4's event.
LEMMA UnwrappedType ==
  ASSUME NEW a \in AnswerType
  PROVE  Unwrapped(a) \in EventType
<1>1. a.event \in EventType
  BY DEF AnswerType
<1>2. NoBlock \in Blocks
  BY DEF Blocks
<1> QED  BY <1>1, <1>2 DEF Unwrapped, EventType

\* What harmonising makes of the three places.
LEMMA Harmony ==
  ASSUME NEW e \in EventType
  PROVE  LET h == Harmonized(e)
             named == IF e.tenant.kind = "dict"
                      THEN IF e.tenant.tenant_id # Absent THEN e.tenant.tenant_id
                                                          ELSE e.tenant.id
                      ELSE e.root
         IN  /\ h \in EventType
             /\ h.id = e.id /\ h.raw = e.raw /\ h.rawHash = e.rawHash
             /\ named # Absent => /\ h.root = named
                                  /\ h.tenant.id = named
                                  /\ h.tenant.tenant_id = named
             /\ named = Absent => h = e
<1> DEFINE named == IF e.tenant.kind = "dict"
                    THEN IF e.tenant.tenant_id # Absent THEN e.tenant.tenant_id
                                                        ELSE e.tenant.id
                    ELSE e.root
           block == [kind |-> "dict", tenant_id |-> named, id |-> named]
<1>1. FirstOf(<<e.tenant.tenant_id, e.tenant.id>>)
        = IF e.tenant.tenant_id # Absent THEN e.tenant.tenant_id ELSE e.tenant.id
  BY FirstOfTwo
<1>2. Harmonized(e) = IF named = Absent THEN e
                      ELSE [e EXCEPT !.tenant = block, !.root = named]
  BY <1>1 DEF Harmonized
<1>3. e.tenant \in Blocks /\ e.root \in Tenants \cup {Absent}
  BY DEF EventType
<1>4. /\ e.tenant.kind \in {"none", "dict"}
      /\ e.tenant.tenant_id \in Tenants \cup {Absent}
      /\ e.tenant.id \in Tenants \cup {Absent}
  BY <1>3 DEF Blocks, NoBlock
<1>5. named \in Tenants \cup {Absent}
  BY <1>3, <1>4
<1>6. CASE named = Absent
  BY <1>2, <1>6
<1>7. CASE named # Absent
  <2>1. block \in Blocks /\ block.id = named /\ block.tenant_id = named
    BY <1>5 DEF Blocks
  <2>2. PICK b \in Blocks : b = block
    BY <2>1
  <2>3. PICK n \in Tenants \cup {Absent} : n = named
    BY <1>5
  <2>4. Harmonized(e) = [e EXCEPT !.tenant = b, !.root = n]
    BY <1>2, <1>7, <2>2, <2>3
  <2>5. /\ Harmonized(e) \in EventType
        /\ Harmonized(e).id = e.id /\ Harmonized(e).raw = e.raw
        /\ Harmonized(e).rawHash = e.rawHash
        /\ Harmonized(e).root = n /\ Harmonized(e).tenant = b
    BY <2>4 DEF EventType
  <2> QED  BY <1>7, <2>1, <2>2, <2>3, <2>5
<1> QED  BY <1>6, <1>7

\* What M5 is given: everything of the harmonised event but the integrity and
\* the enrichment.
LEMMA AdaptedFacts ==
  ASSUME NEW a \in AnswerType
  PROVE  LET h == Harmonized(Unwrapped(a))
             e == Adapted(a)
         IN  /\ e = [h EXCEPT !.integrity = [digest |-> a.event],
                              !.enrichment = "status"]
             /\ h \in EventType
             /\ e.tenant = h.tenant /\ e.root = h.root
             /\ e.integrity.digest = a.event
<1>1. Harmonized(Unwrapped(a)) \in EventType
  BY UnwrappedType, Harmony
<1>2. PICK h \in EventType : h = Harmonized(Unwrapped(a))
  BY <1>1
<1>3. PICK i : i = [digest |-> a.event]
  OBVIOUS
<1>4. Adapted(a) = [h EXCEPT !.integrity = i, !.enrichment = "status"]
  BY <1>2, <1>3 DEF Adapted
<1>5. /\ Adapted(a).tenant = h.tenant /\ Adapted(a).root = h.root
      /\ Adapted(a).integrity = i
  BY <1>4 DEF EventType
<1>6. i.digest = a.event
  BY <1>3
<1>7. Adapted(a) = [h EXCEPT !.integrity = [digest |-> a.event],
                             !.enrichment = "status"]
  BY <1>3, <1>4
<1> HIDE DEF Adapted, Harmonized, Unwrapped, EventType
<1> QED  BY <1>2, <1>5, <1>6, <1>7

\* M5 is called for a tenant M4 named.
LEMMA AddressedClaimed ==
  ASSUME answer \in AnswerType
  PROVE  /\ Claimed(Addressed(Adapted(answer)))
         /\ Addressed(Adapted(answer)) \in Tenants \cup {Absent}
<1>1. PICK u \in EventType : u = Unwrapped(answer)
  BY UnwrappedType
<1>2. PICK h \in EventType : h = Harmonized(u)
  BY <1>1, Harmony
<1>3. Addressed(Adapted(answer)) = IF h.tenant.id # Absent THEN h.tenant.id ELSE h.root
  <2>1. PICK e : e = Adapted(answer)
    OBVIOUS
  <2>2. e.tenant = h.tenant /\ e.root = h.root
    BY <1>1, <1>2, <2>1, AdaptedFacts
  <2>3. Addressed(e) = FirstOf(<<e.tenant.id, e.root>>)
    BY DEF Addressed
  <2>4. FirstOf(<<e.tenant.id, e.root>>)
          = IF e.tenant.id # Absent THEN e.tenant.id ELSE e.root
    BY FirstOfTwo
  <2> QED  BY <2>1, <2>2, <2>3, <2>4
<1>4. /\ u.tenant = NoBlock \/ u.tenant.kind = "dict"
      /\ u.tenant.tenant_id \in Tenants \cup {Absent}
      /\ u.tenant.id \in Tenants \cup {Absent}
      /\ u.root \in Tenants \cup {Absent}
  BY DEF EventType, Blocks, NoBlock
<1>5. NoBlock.kind = "none" /\ NoBlock.id = Absent /\ NoBlock.tenant_id = Absent
  BY DEF NoBlock
<1>6. NamedByM4 = {u.tenant.tenant_id, u.tenant.id, u.root} \ {Absent}
  BY <1>1 DEF NamedByM4
<1> DEFINE named == IF u.tenant.kind = "dict"
                    THEN IF u.tenant.tenant_id # Absent THEN u.tenant.tenant_id
                                                        ELSE u.tenant.id
                    ELSE u.root
<1>7. CASE named # Absent
  <2>1. h.tenant.id = named
    BY <1>2, <1>7, Harmony
  <2>2. named \in NamedByM4 /\ named \in Tenants \cup {Absent}
    BY <1>4, <1>6, <1>7
  <2> QED  BY <1>3, <1>7, <2>1, <2>2 DEF Claimed
<1>8. CASE named = Absent
  <2>1. h = u
    BY <1>2, <1>8, Harmony
  <2>2. u.tenant.id = Absent /\ u.tenant.tenant_id = Absent
    BY <1>4, <1>5, <1>8
  <2>3. Addressed(Adapted(answer)) = u.root
    BY <1>3, <2>1, <2>2
  <2>4. NamedByM4 = IF u.root = Absent THEN {} ELSE {u.root}
    BY <1>6, <2>2
  <2> QED  BY <1>4, <2>3, <2>4 DEF Claimed
<1> QED  BY <1>7, <1>8
-----------------------------------------------------------------------------
\* The initial states.
LEMMA InitIInv == Init => IInv
<1> SUFFICES ASSUME Init PROVE IInv
  OBVIOUS
<1>1. ContextBound
  BY DEF Init, ContextBound, Hops
<1>2. CallsBound
  BY DEF Init, CallsBound, Modules
<1>3. DataBound /\ EvidenceBound /\ RequestBound
  BY DEF Init, DataBound, EvidenceBound, RequestBound, Hops
<1>4. ResultBound
  BY DEF Init, ResultBound
<1> QED  BY <1>1, <1>2, <1>3, <1>4 DEF IInv

\* While the event is under way there is no result, and M5 was not called.
LEMMA UnderWay ==
  ASSUME IInv, pc \in Hops
  PROVE  /\ result = NoResult /\ context \in Tenants /\ context # Absent
         /\ calls["M5"] = NotCalled
<1>1. pc # "ended"
  BY DEF Hops
<1> QED  BY <1>1, PipelineAssumption DEF IInv, ContextBound, CallsBound, ResultBound

\* No call.
LEMMA NoCall ==
  ASSUME IInv, pc \in Hops, pc' # "gateway", calls' = calls, context' = context
  PROVE  CallsBound'
BY UnderWay DEF IInv, CallsBound

\* The next service is called: all but M5 for the context's tenant, M5 for one
\* that M4 named.
LEMMA CallMade ==
  ASSUME IInv, NEW m \in Modules, pc = m, calls' = Called(m, CallTenant),
         context' = context, pc' # "gateway", m = "M5" => pc' = "ended" /\ answer' = answer
  PROVE  /\ CallsBound'
         /\ CallTenant # NotCalled
<1>1. pc \in Hops
  BY DEF Modules, Hops
<1>2. /\ calls \in [Modules -> Tenants \cup {Absent, NotCalled}]
      /\ \A n \in Modules \ {"M5"} : calls[n] \in {NotCalled, context}
      /\ calls["M5"] = NotCalled /\ context \in Tenants
  BY <1>1, UnderWay DEF IInv, CallsBound
<1>3. CASE m # "M5"
  <2>1. CallTenant = context
    BY <1>3 DEF CallTenant, IInv, DataBound, Modules
  <2>2. calls' \in [Modules -> Tenants \cup {Absent, NotCalled}]
    BY <1>2, <2>1 DEF Called
  <2>3. calls'["M5"] = NotCalled
    BY <1>2, <1>3 DEF Called, Modules
  <2>4. \A n \in Modules \ {"M5"} : calls'[n] \in {NotCalled, context}
    BY <1>2, <2>1 DEF Called
  <2> QED  BY <1>2, <2>1, <2>2, <2>3, <2>4, PipelineAssumption DEF CallsBound
<1>4. CASE m = "M5"
  <2>1. data = Adapted(answer) /\ answer \in AnswerType
    BY <1>4 DEF IInv, RequestBound
  <2>2. PICK t : t = CallTenant
    OBVIOUS
  <2>3. t = Addressed(Adapted(answer))
    BY <1>4, <2>1, <2>2 DEF CallTenant
  <2>4. Claimed(t) /\ t \in Tenants \cup {Absent}
    BY <2>1, <2>3, AddressedClaimed
  <2>5. calls' \in [Modules -> Tenants \cup {Absent, NotCalled}]
    BY <1>2, <2>2, <2>4 DEF Called
  <2>6. calls'["M5"] \in {t, NotCalled}
    BY <1>2, <1>4, <2>2 DEF Called, Modules
  <2>7. \A n \in Modules \ {"M5"} : calls'[n] \in {NotCalled, context}
    BY <1>2, <1>4 DEF Called
  <2>8. Claimed(t)' = Claimed(t)
    BY <1>4, <2>2 DEF Claimed, NamedByM4, Unwrapped
  <2>9. calls'["M5"] # NotCalled => Claimed(calls["M5"])'
    <3> SUFFICES ASSUME calls'["M5"] # NotCalled PROVE Claimed(calls["M5"])'
      OBVIOUS
    <3>1. calls'["M5"] = t
      BY <2>6
    <3>2. NamedByM4' = NamedByM4
      BY <1>4 DEF NamedByM4, Unwrapped
    <3> QED  BY <2>4, <3>1, <3>2 DEF Claimed
  <2>10. t # NotCalled
    BY <2>4, PipelineAssumption
  <2> QED  BY <1>4, <2>2, <2>5, <2>7, <2>9, <2>10 DEF CallsBound
<1> QED  BY <1>3, <1>4

\* A failure anywhere: only the result and what is reported of it change.
LEMMA AbortStep ==
  ASSUME IInv, Abort, pc \in Hops, CallsBound'
  PROVE  IInv'
<1>1. ContextBound'
  BY DEF IInv, Abort, ContextBound, Hops
<1>2. DataBound' /\ EvidenceBound' /\ RequestBound'
  BY DEF Abort, DataBound, EvidenceBound, RequestBound, Hops
<1>3. ResultBound'
  BY DEF Abort, ResultBound
<1> QED  BY <1>1, <1>2, <1>3 DEF IInv

\* The gateway: the context is the tenant of the key, or the client goes no
\* further.
LEMMA GatewayStep ==
  ASSUME IInv, NEW k \in Credentials, NEW a \in Tenants \cup {Absent},
         Authenticate(k, a) \/ Reject(k, a)
  PROVE  IInv'
<1> USE PipelineAssumption
<1>0. /\ pc = "gateway" /\ context = Absent
      /\ result = NoResult /\ trace.raw = Absent
      /\ calls \in [Modules -> Tenants \cup {Absent, NotCalled}]
      /\ \A m \in Modules : calls[m] = NotCalled
      /\ calls["M5"] = NotCalled
  BY DEF Authenticate, Reject, IInv, ContextBound, CallsBound, EvidenceBound,
         ResultBound
<1>1. CASE Authenticate(k, a)
  <2>1. context' \in Tenants /\ context' = Registry[k]
    BY <1>1 DEF Authenticate, Authorized
  <2>2. ContextBound'
    BY <1>0, <1>1, <2>1 DEF IInv, ContextBound, Authenticate, Authorized, Hops
  <2>3. DataBound' /\ EvidenceBound' /\ RequestBound'
    BY <1>0, <1>1 DEF Authenticate, DataBound, EvidenceBound, RequestBound, Hops
  <2>4. ResultBound'
    BY <1>0, <1>1 DEF Authenticate, ResultBound
  <2>5. CallsBound'
    BY <1>0, <1>1, <2>1 DEF IInv, CallsBound, Authenticate
  <2> QED  BY <2>2, <2>3, <2>4, <2>5 DEF IInv
<1>2. CASE Reject(k, a)
  <2>1. ContextBound'
    BY <1>0, <1>2 DEF IInv, ContextBound, Reject, Hops
  <2>2. DataBound' /\ EvidenceBound' /\ RequestBound'
    BY <1>2 DEF Reject, DataBound, EvidenceBound, RequestBound, Hops
  <2>3. ResultBound'
    BY <1>0, <1>2 DEF Reject, ResultBound
  <2>4. CallsBound'
    BY <1>0, <1>2 DEF CallsBound, Reject
  <2> QED  BY <2>1, <2>2, <2>3, <2>4 DEF IInv
<1> QED  BY <1>1, <1>2

\* A service fails, or answers what the runner cannot read.
LEMMA ServiceFailsStep ==
  ASSUME IInv, NEW m \in Modules, ServiceFails(m)
  PROVE  IInv'
<1>1. pc \in Hops /\ pc = m /\ Abort
  BY DEF ServiceFails, Modules, Hops
<1>2. CallsBound'
  BY CallMade DEF ServiceFails, Abort
<1> QED  BY <1>1, <1>2, AbortStep

\* M1's answer.
LEMMA IngestStep ==
  ASSUME IInv, NEW e \in Envelopes, Ingest(e)
  PROVE  IInv'
<1>0. pc = "M1" /\ pc \in Hops /\ result = NoResult /\ context \in Tenants
  BY UnderWay DEF Ingest, Hops
<1>1. e \in EnvelopeType
  BY <1>0 DEF Envelopes, EnvelopeType
<1>2. CallsBound'
  BY CallMade DEF Ingest, Modules
<1>3. ContextBound'
  BY <1>0, <1>1 DEF IInv, ContextBound, Ingest, EnvelopeType, Hops
<1>4. trace'.raw = e.raw
  BY DEF Ingest, IInv, ContextBound
<1>5. DataBound' /\ EvidenceBound'
  BY <1>1, <1>4 DEF Ingest, DataBound, EvidenceBound, EnvelopeType, Hops
<1>6. RequestBound' /\ ResultBound'
  BY <1>0 DEF Ingest, RequestBound, ResultBound
<1> QED  BY <1>2, <1>3, <1>5, <1>6 DEF IInv

\* The first two adapters put the context's tenant into the event.
LEMMA AdaptM1M2Step ==
  ASSUME IInv, AdaptM1M2
  PROVE  IInv'
<1>0. pc = "M1_M2" /\ pc \in Hops /\ result = NoResult /\ context \in Tenants
      /\ context # Absent
  BY UnderWay DEF AdaptM1M2, Hops
<1>1. /\ data \in EnvelopeType /\ data.raw = trace.raw
      /\ data.hash \in {vault.hash, Absent}
  BY <1>0 DEF IInv, DataBound
<1>2. /\ data' \in EnvelopeType /\ data'.tenant = context
      /\ data'.hash = data.hash
  BY <1>0, <1>1 DEF AdaptM1M2, TenantOf, EnvelopeType
<1>3. trace'.raw = trace.raw /\ trace'.event = trace.event /\ trace.raw = RawId
  BY <1>1 DEF AdaptM1M2, IInv, ContextBound, EnvelopeType
<1>4. ContextBound' /\ CallsBound'
  BY <1>0, NoCall DEF IInv, ContextBound, AdaptM1M2, Hops
<1>5. DataBound' /\ EvidenceBound'
  BY <1>0, <1>1, <1>2, <1>3
     DEF IInv, AdaptM1M2, DataBound, EvidenceBound, Hops
<1>6. RequestBound' /\ ResultBound'
  BY <1>0 DEF AdaptM1M2, RequestBound, ResultBound
<1> QED  BY <1>4, <1>5, <1>6 DEF IInv

\* M2's answer: what is left of the hash is M1's.
LEMMA ParseStep ==
  ASSUME IInv, NEW e \in Parsed, Parse(e)
  PROVE  IInv'
<1>0. pc = "M2" /\ pc \in Hops /\ result = NoResult /\ context \in Tenants
  BY UnderWay DEF Parse, Hops
<1>1. /\ data \in EnvelopeType /\ data.hash \in {vault.hash, Absent}
      /\ data.tenant = context
  BY <1>0 DEF IInv, DataBound
<1>2. e \in ParsedType /\ e.hash \in {data.hash, Absent}
  <2>1. /\ data.raw \in {RawId, Absent} /\ data.hash \in {RawHash, Absent}
        /\ data.ref \in {Ref, Absent}
    BY <1>1 DEF EnvelopeType
  <2>2. CASE "M2" \in services
    BY <2>1, <2>2 DEF Parsed, ParsedType
  <2>3. CASE "M2" \notin services
    <3>1. e = [raw |-> data.raw, hash |-> data.hash, ref |-> data.ref,
               tenant |-> context, classified |-> TRUE]
      BY <2>3 DEF Parsed
    <3>2. TRUE \in BOOLEAN
      OBVIOUS
    <3> QED  BY <3>1, <3>2, <2>1, <1>0 DEF ParsedType
  <2> QED  BY <2>2, <2>3
<1>3. CallsBound'
  BY CallMade DEF Parse, Modules
<1>4. trace'.raw = trace.raw
  BY DEF Parse, IInv, ContextBound
<1>5. ContextBound'
  BY <1>0 DEF IInv, ContextBound, Parse, Hops
<1>6. DataBound' /\ EvidenceBound'
  BY <1>0, <1>1, <1>2, <1>4 DEF IInv, Parse, DataBound, EvidenceBound, Hops
<1>7. RequestBound' /\ ResultBound'
  BY <1>0 DEF Parse, RequestBound, ResultBound
<1> QED  BY <1>3, <1>5, <1>6, <1>7 DEF IInv

\* The second adapter, after M2 may have dropped or claimed a tenant.
LEMMA AdaptM2M3Step ==
  ASSUME IInv, AdaptM2M3
  PROVE  IInv'
<1>0. pc = "M2_M3" /\ pc \in Hops /\ result = NoResult /\ context \in Tenants
      /\ context # Absent
  BY UnderWay DEF AdaptM2M3, Hops
<1>1. data \in ParsedType /\ data.hash \in {vault.hash, Absent}
  BY <1>0 DEF IInv, DataBound
<1>2. /\ data' \in ParsedType /\ data'.tenant = context
      /\ data'.hash = data.hash
  BY <1>0, <1>1 DEF AdaptM2M3, TenantOf, ParsedType
<1>3. trace'.raw = trace.raw
  BY DEF AdaptM2M3, IInv, ContextBound
<1>4. ContextBound' /\ CallsBound'
  BY <1>0, NoCall DEF IInv, ContextBound, AdaptM2M3, Hops
<1>5. DataBound' /\ EvidenceBound'
  BY <1>0, <1>1, <1>2, <1>3
     DEF IInv, AdaptM2M3, DataBound, EvidenceBound, Hops
<1>6. RequestBound' /\ ResultBound'
  BY <1>0 DEF AdaptM2M3, RequestBound, ResultBound
<1> QED  BY <1>4, <1>5, <1>6 DEF IInv

\* M3's answer: every place that names the evidence names M1's or nothing.
LEMMA NormalizeStep ==
  ASSUME IInv, NEW e \in Normalized, Normalize(e)
  PROVE  IInv'
<1>0. pc = "M3" /\ pc \in Hops /\ result = NoResult /\ context \in Tenants
  BY UnderWay DEF Normalize, Hops
<1>1. /\ data.raw \in {RawId, Absent} /\ data.hash \in {RawHash, Absent}
      /\ data.ref \in {Ref, Absent}
      /\ data.hash \in {vault.hash, Absent} /\ data.tenant = context
      /\ trace.raw = RawId /\ vault.hash \in {RawHash, Absent}
  BY <1>0 DEF IInv, DataBound, EvidenceBound, ParsedType, Hops
<1>2. /\ e \in NormalizedType
      /\ e.rawHash \in {vault.hash, Absent}
      /\ e.hashValue \in {vault.hash, Absent}
  <2>1. CASE "M3" \in services
    BY <1>1, <2>1 DEF Normalized, NormalizedType
  <2>2. CASE "M3" \notin services
    <3>1. e = [success |-> TRUE, ulpf |-> TRUE, event |-> NewId,
               provenance |-> trace.raw, raw |-> trace.raw,
               rawHash |-> vault.hash, hashValue |-> vault.hash,
               ref |-> data.ref]
      BY <2>2 DEF Normalized
    <3>2. TRUE \in BOOLEAN
      OBVIOUS
    <3> QED  BY <3>1, <3>2, <1>1 DEF NormalizedType
  <2> QED  BY <2>1, <2>2
<1>3. CallsBound'
  BY CallMade DEF Normalize, Modules
<1>4. trace'.raw = trace.raw
  BY DEF Normalize, IInv, ContextBound
<1>5. ContextBound'
  BY <1>0 DEF IInv, ContextBound, Normalize, Hops
<1>6. DataBound' /\ EvidenceBound'
  BY <1>0, <1>2, <1>4 DEF IInv, Normalize, DataBound, EvidenceBound, Hops
<1>7. RequestBound' /\ ResultBound'
  BY <1>0 DEF Normalize, RequestBound, ResultBound
<1> QED  BY <1>3, <1>5, <1>6, <1>7 DEF IInv

\* The third adapter fills in what M3 dropped from M1's evidence and from the
\* context.
LEMMA AdaptM3M4Step ==
  ASSUME IInv, AdaptM3M4
  PROVE  IInv' /\ trace'.event \in {NewId, MadeId}
<1>0. pc = "M3_M4" /\ pc \in Hops /\ result = NoResult /\ context \in Tenants
  BY UnderWay DEF AdaptM3M4, Hops
<1>1. /\ data \in NormalizedType
      /\ data.rawHash \in {vault.hash, Absent}
      /\ data.hashValue \in {vault.hash, Absent}
      /\ trace.raw = RawId /\ vault.hash \in {RawHash, Absent}
  BY <1>0 DEF IInv, DataBound, EvidenceBound, Hops
<1>2. RawHashOf(data) = vault.hash
  BY <1>1, FallbackFinds DEF RawHashOf
<1>3. FirstOf(<<data.provenance, data.raw, trace.raw>>) = RawId
  <2>1. data.provenance \in {RawId, Absent} /\ data.raw \in {RawId, Absent}
    BY <1>1 DEF NormalizedType
  <2> QED  BY <1>1, <2>1, FallbackFinds
<1>4. PICK b \in Blocks : b = [kind |-> "dict", tenant_id |-> context, id |-> Absent]
  BY <1>0 DEF Blocks
<1>5. PICK i \in {NewId, MadeId} : i = IF data.event # Absent THEN data.event ELSE MadeId
  BY <1>1 DEF NormalizedType
<1>6. Canonical(data) = [id |-> i, raw |-> RawId, rawHash |-> vault.hash,
                         tenant |-> b, root |-> Absent, integrity |-> NoData,
                         enrichment |-> Absent]
  BY <1>2, <1>3, <1>4, <1>5 DEF Canonical
<1>7. request' = Canonical(data)
  BY DEF AdaptM3M4
<1>8. /\ request' \in EventType /\ request'.tenant = b /\ request'.root = Absent
      /\ request'.raw = RawId /\ request'.rawHash = vault.hash /\ request'.id = i
  BY <1>1, <1>6, <1>7 DEF EventType
<1>9. b.tenant_id = context
  BY <1>4
<1>10. trace'.raw = trace.raw /\ trace'.event = i
  BY <1>7, <1>8 DEF AdaptM3M4, IInv, ContextBound
<1>11. ContextBound'
  BY <1>0, <1>7, <1>8 DEF IInv, ContextBound, AdaptM3M4, Hops
<1>12. CallsBound'
  BY <1>0, NoCall DEF AdaptM3M4
<1>13. DataBound' /\ EvidenceBound'
  BY <1>0, <1>1, <1>8, <1>9, <1>10 DEF IInv, AdaptM3M4, DataBound, EvidenceBound, Hops
<1>14. RequestBound'
  <2>1. Owned'
    BY <1>4, <1>8 DEF AdaptM3M4, Owned
  <2> QED  BY <1>8, <1>10, <2>1 DEF AdaptM3M4, RequestBound
<1>15. ResultBound'
  BY <1>0 DEF AdaptM3M4, ResultBound
<1> QED  BY <1>10, <1>11, <1>12, <1>13, <1>14, <1>15 DEF IInv

\* M4's answer, whatever it makes of the event.
LEMMA EnrichStep ==
  ASSUME IInv, NEW a \in Returned, Enrich(a)
  PROVE  IInv'
<1>0. pc = "M4" /\ pc \in Hops /\ result = NoResult /\ context \in Tenants
  BY UnderWay DEF Enrich, Hops
<1>1. Owned /\ request \in EventType
  BY <1>0 DEF IInv, RequestBound, Owned
<1>2. a \in AnswerType
  <2>1. CASE "M4" \in services
    <3>1. /\ request.id \in {NewId, MadeId, Absent} /\ request.raw \in {RawId, Absent}
          /\ request.rawHash \in {RawHash, Absent}
      BY <1>1 DEF EventType
    <3> QED  BY <2>1, <3>1 DEF Returned, AnswerType, EventType
  <2>2. CASE "M4" \notin services
    BY <1>1, <2>2 DEF Returned, AnswerType
  <2> QED  BY <2>1, <2>2
<1>3. CallsBound'
  BY CallMade DEF Enrich, Modules
<1>4. trace'.raw = trace.raw /\ trace'.event = trace.event
  BY DEF Enrich, IInv, ContextBound
<1>5. ContextBound'
  BY <1>0 DEF IInv, ContextBound, Enrich, Hops
<1>6. DataBound' /\ EvidenceBound'
  BY <1>0, <1>4 DEF IInv, Enrich, DataBound, EvidenceBound, Hops
<1>7. RequestBound' /\ ResultBound'
  BY <1>0, <1>1, <1>2, <1>4 DEF IInv, Enrich, RequestBound, ResultBound, Owned
<1> QED  BY <1>3, <1>5, <1>6, <1>7 DEF IInv

\* The last adapter harmonises what M4 returned.
LEMMA AdaptM4M5Step ==
  ASSUME IInv, AdaptM4M5
  PROVE  IInv'
<1>0. pc = "M4_M5" /\ pc \in Hops /\ result = NoResult /\ context \in Tenants
  BY UnderWay DEF AdaptM4M5, Hops
<1>1. trace'.raw = trace.raw /\ trace'.event = trace.event
  BY DEF AdaptM4M5, IInv, ContextBound
<1>2. ContextBound' /\ CallsBound'
  BY <1>0, NoCall DEF IInv, ContextBound, AdaptM4M5, Hops
<1>3. DataBound' /\ EvidenceBound'
  BY <1>0, <1>1 DEF IInv, AdaptM4M5, DataBound, EvidenceBound, Hops
<1>4. Adapted(answer)' = Adapted(answer)
  BY DEF AdaptM4M5, Adapted, Harmonized, Unwrapped
<1>5. RequestBound' /\ ResultBound'
  BY <1>0, <1>1, <1>4 DEF IInv, AdaptM4M5, RequestBound, ResultBound, Owned
<1> QED  BY <1>2, <1>3, <1>5 DEF IInv

\* M5's answer: the event it routed is M4's, harmonised.
LEMMA RouteStep ==
  ASSUME IInv, Route
  PROVE  IInv'
<1>0. pc = "M5" /\ pc \in Hops /\ result = NoResult /\ context \in Tenants
  BY UnderWay DEF Route, Hops
<1>1. /\ Owned /\ request.id = trace.event
      /\ answer \in AnswerType /\ data = Adapted(answer)
      /\ vault.raw = RawId /\ trace.raw = RawId
  BY <1>0 DEF IInv, RequestBound, EvidenceBound, Hops
<1>2. CallsBound'
  BY CallMade DEF Route, Modules
<1>3. ContextBound'
  BY <1>0 DEF IInv, ContextBound, Route, Hops
<1>4. DataBound' /\ EvidenceBound' /\ RequestBound'
  BY DEF Route, DataBound, EvidenceBound, RequestBound, Hops
<1>5. Adapted(answer)' = Adapted(answer)
  BY DEF Route, Adapted, Harmonized, Unwrapped
<1>6. Owned'
  BY <1>1 DEF Route, Owned
<1>7. ResultBound'
  BY <1>1, <1>5, <1>6 DEF Route, ResultBound
<1> QED  BY <1>2, <1>3, <1>4, <1>7 DEF IInv
-----------------------------------------------------------------------------
\* Every step keeps the invariant.
LEMMA NextIInv == IInv /\ [Next]_vars => IInv'
<1> SUFFICES ASSUME IInv, [Next]_vars PROVE IInv'
  OBVIOUS
<1>1. ASSUME NEW k \in Credentials, NEW a \in Tenants \cup {Absent},
             Authenticate(k, a) \/ Reject(k, a)
      PROVE  IInv'
  BY <1>1, GatewayStep
<1>2. ASSUME NEW m \in Modules, ServiceFails(m) PROVE IInv'
  BY <1>2, ServiceFailsStep
<1>3. ASSUME NEW e \in Envelopes, Ingest(e) PROVE IInv'
  BY <1>3, IngestStep
<1>4. ASSUME NEW e \in Parsed, Parse(e) PROVE IInv'
  BY <1>4, ParseStep
<1>5. ASSUME NEW e \in Normalized, Normalize(e) PROVE IInv'
  BY <1>5, NormalizeStep
<1>6. ASSUME NEW a \in Returned, Enrich(a) PROVE IInv'
  BY <1>6, EnrichStep
<1>7. CASE AdaptM1M2 \/ AdaptM2M3 \/ AdaptM3M4 \/ AdaptM4M5 \/ Route
  BY <1>7, AdaptM1M2Step, AdaptM2M3Step, AdaptM3M4Step, AdaptM4M5Step, RouteStep
<1>8. CASE HashlibUnbound \/ Unusable
  <2>1. pc \in Hops /\ Abort /\ calls' = calls
    BY <1>8 DEF HashlibUnbound, Unusable, Hops
  <2>2. CallsBound'
    BY <2>1, NoCall DEF Abort
  <2> QED  BY <2>1, <2>2, AbortStep
<1>9. CASE UNCHANGED vars
  <2>1. Adapted(answer)' = Adapted(answer)
    BY <1>9 DEF vars, Adapted, Harmonized, Unwrapped
  <2>2. NamedByM4' = NamedByM4
    BY <1>9 DEF vars, NamedByM4, Unwrapped
  <2>3. ContextBound' /\ DataBound' /\ EvidenceBound'
    BY <1>9 DEF IInv, vars, ContextBound, DataBound, EvidenceBound
  <2>4. CallsBound'
    BY <1>9, <2>2 DEF IInv, vars, CallsBound, Claimed
  <2>5. RequestBound' /\ ResultBound'
    BY <1>9, <2>1 DEF IInv, vars, RequestBound, ResultBound, Owned
  <2> QED  BY <2>3, <2>4, <2>5 DEF IInv
<1> QED
  BY <1>1, <1>2, <1>3, <1>4, <1>5, <1>6, <1>7, <1>8, <1>9 DEF Next

\* Whatever the services drop or put into their answers, the position of the
\* event tells which tenant and which evidence it carries.
THEOREM PipelineInvariant == Spec => []IInv
BY InitIInv, NextIInv, PTL DEF Spec

\* Every service up to M4 is called for the tenant of the client's key and M5
\* for one that M4 named, for any tenants, keys and services.
THEOREM TenantAlwaysKept == Spec => []TenantKept
<1>1. IInv => TenantKept
  <2> SUFFICES ASSUME IInv, context # Absent PROVE TenantKept
    BY DEF TenantKept
  <2>1. context = Registry[client.key]
        /\ client.asked \in {Absent, Registry[client.key]}
    BY DEF IInv, ContextBound
  <2>2. /\ \A m \in Modules \ {"M5"} : calls[m] \in {NotCalled, context}
        /\ calls["M5"] # NotCalled => IF NamedByM4 = {} THEN calls["M5"] = Absent
                                      ELSE calls["M5"] \in NamedByM4
    BY DEF IInv, CallsBound, Claimed
  <2>3. Ended => pc = "ended" /\ result.tenant = context
    BY DEF IInv, ResultBound, Ended, NoResult
  <2>4. ASSUME Succeeded, Unwrapped(answer).tenant = request.tenant
        PROVE  /\ result.final.root = context
               /\ result.final.tenant.id = context
               /\ result.final.tenant.tenant_id = context
    <3>1. /\ answer \in AnswerType /\ result.final = Adapted(answer)
          /\ request.tenant = [kind |-> "dict", tenant_id |-> context, id |-> Absent]
      BY <2>3, <2>4 DEF IInv, ResultBound, Owned, Succeeded
    <3>2. PICK u \in EventType : u = Unwrapped(answer)
      BY <3>1, UnwrappedType
    <3>3. u.tenant.kind = "dict" /\ u.tenant.tenant_id = context
      BY <2>4, <3>1, <3>2
    <3>4. PICK h \in EventType : h = Harmonized(u)
      BY Harmony
    <3>5. h.root = context /\ h.tenant.id = context /\ h.tenant.tenant_id = context
      BY <3>3, <3>4, Harmony
    <3>6. result.final.tenant = h.tenant /\ result.final.root = h.root
      BY <3>1, <3>2, <3>4, AdaptedFacts
    <3> QED  BY <3>5, <3>6
  <2> QED  BY <2>1, <2>2, <2>3, <2>4 DEF TenantKept
<1> QED  BY <1>1, PipelineInvariant, PTL

\* The result of a routed event and what M4 was given lead to the evidence M1
\* secured; the routed event is, but for what the last adapter adds, the event
\* M4 took the digest of, if M4 left it alone.
THEOREM EvidenceAlwaysKept == Spec => []EvidenceKept
<1>1. IInv => EvidenceKept
  <2> SUFFICES ASSUME IInv, Succeeded PROVE EvidenceKept
    BY DEF EvidenceKept
  <2>1. /\ result.raw = RawId /\ vault.raw = RawId
        /\ result.hash = vault.hash
        /\ Owned /\ answer \in AnswerType
        /\ result.event = request.id /\ result.digest = answer.event
        /\ result.final = Adapted(answer)
    BY DEF IInv, ResultBound, Succeeded, Ended, NoResult
  <2>2. result.final.integrity.digest = result.digest
    BY <2>1, AdaptedFacts
  <2> DEFINE e == result.final
  <2>3. ASSUME Unwrapped(answer) = request
        PROVE  [e EXCEPT !.tenant = [@ EXCEPT !.id = Absent], !.root = Absent,
                         !.integrity = NoData, !.enrichment = Absent]
               = result.digest
    <3> DEFINE t == request.tenant
    <3>1. /\ request \in EventType /\ request.root = Absent
          /\ t = [kind |-> "dict", tenant_id |-> context, id |-> Absent]
          /\ request.raw = RawId
      BY <2>1 DEF Owned
    <3>2. answer.event = request
      <4>1. answer.form # "canonical"
        <5>1. RawId # Absent
          BY PipelineAssumption
        <5>2. answer.event \in EventType
          BY <2>1 DEF AnswerType
        <5> QED  BY <2>3, <3>1, <5>1, <5>2 DEF Unwrapped, EventType
      <4> QED  BY <2>3, <4>1 DEF Unwrapped
    <3>3. /\ t.kind = "dict" /\ t.tenant_id = context /\ context # Absent
      BY <3>1, PipelineAssumption DEF IInv, ContextBound, ResultBound, Succeeded,
                                      Ended, NoResult
    <3>4. PICK b : b = [kind |-> "dict", tenant_id |-> context, id |-> context]
      OBVIOUS
    <3>5. FirstOf(<<t.tenant_id, t.id>>) = context
      BY <3>3, FirstOfTwo
    <3>6. Harmonized(request) = [request EXCEPT !.tenant = b, !.root = context]
      BY <3>3, <3>4, <3>5 DEF Harmonized
    <3>7. PICK i : i = [digest |-> answer.event]
      OBVIOUS
    <3>8. e = [[request EXCEPT !.tenant = b, !.root = context]
                 EXCEPT !.integrity = i, !.enrichment = "status"]
      BY <2>1, <2>3, <3>6, <3>7 DEF Adapted
    <3>9. [b EXCEPT !.id = Absent] = t
      BY <3>1, <3>4
    <3>10. e.tenant = b
      BY <3>1, <3>8 DEF EventType
    <3>11. PICK u : u = t
      OBVIOUS
    <3>12. [e EXCEPT !.tenant = u, !.root = Absent, !.integrity = NoData,
                     !.enrichment = Absent] = request
      BY <3>1, <3>8, <3>11 DEF EventType
    <3> HIDE DEF e
    <3>13. [e EXCEPT !.tenant = [@ EXCEPT !.id = Absent], !.root = Absent,
                     !.integrity = NoData, !.enrichment = Absent]
           = [e EXCEPT !.tenant = u, !.root = Absent, !.integrity = NoData,
                       !.enrichment = Absent]
      BY <3>9, <3>10, <3>11
    <3> QED  BY <2>1, <3>2, <3>12, <3>13 DEF e
  <2> QED  BY <2>1, <2>2, <2>3 DEF EvidenceKept, Owned
<1> QED  BY <1>1, PipelineInvariant, PTL
-----------------------------------------------------------------------------
(* FailureTruthful. *)

\* The event is at hop n + 1: the trace and the calls are those of the n before.
Trail(n) ==
  /\ pc = Order[n + 1]
  /\ trace.hops = SubSeq(Order, 1, n)
  /\ \A m \in services : calls[m] # NotCalled <=> \E i \in 1 .. n : Order[i] = m

TrailBound ==
  /\ services \subseteq Modules
  /\ pc = "gateway" => trace.hops = <<>> /\ trace.event = Absent
  /\ pc \in Hops => \E n \in 0 .. 8 : Trail(n)
  /\ pc \in Hops => (trace.event # Absent <=> pc \in {"M4", "M4_M5", "M5"})
  /\ pc # "ended" => ~routed

TInv == TrailBound /\ FailureTruthful

\* This step calls the service of this hop, if there is one.
CallsNow == \A m \in services :
              calls'[m] # NotCalled <=> (calls[m] # NotCalled \/ m = pc)

\* The hops.
LEMMA OrderFacts ==
  /\ Order \in Seq(Hops) /\ Len(Order) = 9
  /\ Order[1] = "M1" /\ Order[2] = "M1_M2" /\ Order[3] = "M2"
  /\ Order[4] = "M2_M3" /\ Order[5] = "M3" /\ Order[6] = "M3_M4"
  /\ Order[7] = "M4" /\ Order[8] = "M4_M5" /\ Order[9] = "M5"
BY DEF Order, Hops

\* No two hops have the same name.
LEMMA OrderPlaces ==
  ASSUME NEW i \in 1 .. 9
  PROVE  /\ Order[i] = "M1" <=> i = 1
         /\ Order[i] = "M1_M2" <=> i = 2
         /\ Order[i] = "M2" <=> i = 3
         /\ Order[i] = "M2_M3" <=> i = 4
         /\ Order[i] = "M3" <=> i = 5
         /\ Order[i] = "M3_M4" <=> i = 6
         /\ Order[i] = "M4" <=> i = 7
         /\ Order[i] = "M4_M5" <=> i = 8
         /\ Order[i] = "M5" <=> i = 9
<1>1. i \in {1, 2, 3, 4, 5, 6, 7, 8, 9}
  OBVIOUS
<1>2. PICK s : s = Order
  OBVIOUS
<1> QED  BY <1>1, <1>2, OrderFacts

\* The trail of n hops, and of one more.
LEMMA TrailGrows ==
  ASSUME NEW n \in 0 .. 8
  PROVE  /\ SubSeq(Order, 1, n) \in Seq(Hops)
         /\ Len(SubSeq(Order, 1, n)) = n
         /\ Append(SubSeq(Order, 1, n), Order[n + 1]) = SubSeq(Order, 1, n + 1)
<1>1. PICK s : s = Order
  OBVIOUS
<1>2. s \in Seq(Hops) /\ Len(s) = 9
  BY <1>1, OrderFacts
<1>0. ASSUME NEW j \in 0 .. 9
      PROVE  /\ SubSeq(s, 1, j) \in Seq(Hops) /\ Len(SubSeq(s, 1, j)) = j
             /\ \A i \in 1 .. j : SubSeq(s, 1, j)[i] = s[i]
  <2>1. ASSUME NEW i \in 1 .. j PROVE s[i] \in Hops
    <3>1. i \in 1 .. Len(s)
      BY <1>2
    <3> QED  BY <1>2, <3>1, ElementOfSeq
  <2>2. /\ SubSeq(s, 1, j) \in Seq(Hops)
        /\ Len(SubSeq(s, 1, j)) = IF 1 <= j THEN j - 1 + 1 ELSE 0
        /\ \A i \in 1 .. j - 1 + 1 : SubSeq(s, 1, j)[i] = s[1 + i - 1]
    BY <2>1, SubSeqProperties
  <2>3. j - 1 + 1 = j /\ \A i \in 1 .. j : 1 + i - 1 = i
    OBVIOUS
  <2> QED  BY <2>2, <2>3
<1>3. /\ SubSeq(s, 1, n) \in Seq(Hops) /\ Len(SubSeq(s, 1, n)) = n
      /\ \A i \in 1 .. n : SubSeq(s, 1, n)[i] = s[i]
  BY <1>0
<1>4. /\ SubSeq(s, 1, n + 1) \in Seq(Hops) /\ Len(SubSeq(s, 1, n + 1)) = n + 1
      /\ \A i \in 1 .. n + 1 : SubSeq(s, 1, n + 1)[i] = s[i]
  <2>1. n + 1 \in 0 .. 9
    OBVIOUS
  <2> QED  BY <1>0, <2>1
<1>5. PICK t : t = Append(SubSeq(s, 1, n), s[n + 1])
  OBVIOUS
<1>6. s[n + 1] \in Hops
  <2>1. n + 1 \in 1 .. Len(s)
    BY <1>2
  <2> QED  BY <1>2, <2>1, ElementOfSeq
<1>7. /\ t \in Seq(Hops) /\ Len(t) = n + 1
      /\ \A i \in 1 .. n : t[i] = s[i]
      /\ t[n + 1] = s[n + 1]
  BY <1>3, <1>5, <1>6, AppendProperties
<1>8. \A i \in 1 .. n + 1 : t[i] = SubSeq(s, 1, n + 1)[i]
  BY <1>4, <1>7
<1>9. t = SubSeq(s, 1, n + 1)
  BY <1>4, <1>7, <1>8, SeqEqual
<1> QED  BY <1>1, <1>3, <1>5, <1>9

\* Nothing has failed to begin with.
LEMMA InitTInv == Init => TInv
<1> SUFFICES ASSUME Init PROVE TInv
  OBVIOUS
<1>1. TrailBound
  BY DEF Init, TrailBound, Hops
<1>2. FailureTruthful
  BY DEF Init, FailureTruthful, Ended, NoResult
<1> QED  BY <1>1, <1>2 DEF TInv

\* A step that ends nothing breaks no promise of a result.
LEMMA NotEnded ==
  ASSUME IInv, pc # "ended", result' = result
  PROVE  FailureTruthful'
<1>1. result' = NoResult
  BY DEF IInv, ResultBound
<1> QED  BY <1>1 DEF FailureTruthful, Ended, NoResult

\* The gateway: no hop yet.
LEMMA GatewayTrail ==
  ASSUME IInv, TInv, NEW k \in Credentials, NEW a \in Tenants \cup {Absent},
         Authenticate(k, a) \/ Reject(k, a)
  PROVE  TInv'
<1>1. /\ pc = "gateway" /\ pc' \in {"M1", "rejected"} /\ trace' = trace
      /\ routed' = routed /\ result' = result /\ services' = services
      /\ calls' = calls
  BY DEF Authenticate, Reject
<1>2. /\ trace.hops = <<>> /\ trace.event = Absent /\ services \subseteq Modules
      /\ ~routed
  BY <1>1 DEF TInv, TrailBound
<1>3. ASSUME pc' = "M1" PROVE Trail(0)'
  <2>1. SubSeq(Order, 1, 0) = <<>>
    BY OrderFacts, SubSeqProperties, EmptySeq
  <2>2. \A m \in services : calls[m] = NotCalled
    BY <1>1, <1>2 DEF IInv, CallsBound
  <2> QED  BY <1>1, <1>2, <1>3, <2>1, <2>2, OrderFacts DEF Trail
<1>4. TrailBound'
  BY <1>1, <1>2, <1>3 DEF TrailBound, Hops
<1> QED  BY <1>1, <1>4, NotEnded DEF TInv

\* A hop that succeeds and is not the last.
LEMMA HopTrail ==
  ASSUME IInv, TInv, pc \in Hops, CallsNow, NEW k \in 1 .. 8,
         pc = Order[k], pc' = Order[k + 1],
         trace'.hops = Hop, services' = services, routed' = routed,
         result' = result,
         trace'.event # Absent <=> k + 1 \in {7, 8, 9}
  PROVE  TInv'
<1>1. pc # "ended"
  BY DEF Hops
<1>2. FailureTruthful'
  BY <1>1, NotEnded
<1>3. PICK n \in 0 .. 8 : Trail(n)
  BY DEF TInv, TrailBound
<1>4. k = n + 1
  <2>1. n + 1 \in 1 .. 9 /\ k \in 1 .. 9 /\ Order[n + 1] = Order[k]
    BY <1>3 DEF Trail
  <2>2. k \in {1, 2, 3, 4, 5, 6, 7, 8}
    OBVIOUS
  <2> QED  BY <2>1, <2>2, OrderPlaces, OrderFacts
<1>5. n + 1 \in 0 .. 8
  BY <1>4
<1>6. trace'.hops = SubSeq(Order, 1, n + 1)
  <2>1. trace'.hops = Append(SubSeq(Order, 1, n), Order[n + 1])
    BY <1>3 DEF Trail, Hop
  <2> QED  BY <2>1, TrailGrows
<1>7. \A m \in services :
        calls'[m] # NotCalled <=> \E i \in 1 .. n + 1 : Order[i] = m
  <2> SUFFICES ASSUME NEW m \in services
               PROVE  calls'[m] # NotCalled <=> \E i \in 1 .. n + 1 : Order[i] = m
    OBVIOUS
  <2>1. calls[m] # NotCalled <=> \E i \in 1 .. n : Order[i] = m
    BY <1>3 DEF Trail
  <2>2. m = pc <=> Order[n + 1] = m
    BY <1>3 DEF Trail
  <2>3. (\E i \in 1 .. n + 1 : Order[i] = m)
          <=> (\E i \in 1 .. n : Order[i] = m) \/ Order[n + 1] = m
    OBVIOUS
  <2> QED  BY <2>1, <2>2, <2>3 DEF CallsNow
<1>8. Trail(n + 1)'
  BY <1>4, <1>6, <1>7 DEF Trail
<1>9. pc' \in {"M4", "M4_M5", "M5"} <=> k + 1 \in {7, 8, 9}
  BY OrderFacts
<1>10. pc' # "gateway" /\ pc' # "ended"
  BY OrderFacts
<1>11. TrailBound'
  BY <1>1, <1>5, <1>8, <1>9, <1>10 DEF TInv, TrailBound
<1> QED  BY <1>2, <1>11 DEF TInv

\* A failure: the trail is that of the hops before it.
LEMMA AbortTrail ==
  ASSUME IInv, TInv, Abort, pc \in Hops, CallsNow,
         pc = "M1" \/ vault' = vault,
         pc = "M5" \/ routed' = routed
  PROVE  TInv'
<1>1. PICK n \in 0 .. 8 : Trail(n)
  BY DEF TInv, TrailBound
<1>0. n + 1 \in 1 .. 9 /\ pc = Order[n + 1]
  BY <1>1 DEF Trail
<1>2. pc' = "ended" /\ services' = services
  BY DEF Abort
<1>3. TrailBound'
  BY <1>2 DEF TInv, TrailBound, Hops
<1>4. /\ trace \in [raw : {RawId, Absent}, event : {NewId, MadeId, Absent},
                    hops : {trace.hops}]
  BY DEF IInv, ContextBound
<1>5. PICK h : h = Append(trace.hops, "FAILED")
  OBVIOUS
<1>6. trace'.hops = h /\ trace'.raw = trace.raw
  BY <1>4, <1>5 DEF Abort
<1>7. h = Append(SubSeq(Order, 1, n), "FAILED")
  BY <1>1, <1>5 DEF Trail
<1>8. Len(h) - 1 = n
  <2>1. SubSeq(Order, 1, n) \in Seq(Hops \cup {"FAILED"}) /\ Len(SubSeq(Order, 1, n)) = n
    BY TrailGrows
  <2> QED  BY <1>7, <2>1, AppendProperties
<1>9. \A m \in services :
        calls'[m] # NotCalled <=> \E i \in 1 .. n + 1 : Order[i] = m
  <2> SUFFICES ASSUME NEW m \in services
               PROVE  calls'[m] # NotCalled <=> \E i \in 1 .. n + 1 : Order[i] = m
    OBVIOUS
  <2>1. calls[m] # NotCalled <=> \E i \in 1 .. n : Order[i] = m
    BY <1>1 DEF Trail
  <2>2. m = pc <=> Order[n + 1] = m
    BY <1>1 DEF Trail
  <2>3. (\E i \in 1 .. n + 1 : Order[i] = m)
          <=> (\E i \in 1 .. n : Order[i] = m) \/ Order[n + 1] = m
    OBVIOUS
  <2> QED  BY <2>1, <2>2, <2>3 DEF CallsNow
<1>10. routed' => n = 8
  <2>1. pc = "M5" => n + 1 = 9
    BY <1>0, OrderPlaces
  <2>2. ~routed
    BY DEF TInv, TrailBound, Hops
  <2>3. pc # "M5" => ~routed'
    BY <2>2
  <2> QED  BY <2>1, <2>3
<1>11. /\ result'.ended /\ ~result'.success
       /\ result'.raw = ReportedId /\ result'.event = trace.event
  BY DEF Abort
<1>12. result'.event # Absent <=> n >= 6
  <2>1. pc \in {"M4", "M4_M5", "M5"} <=> n + 1 \in {7, 8, 9}
    BY <1>0, OrderPlaces
  <2> QED  BY <1>11, <2>1 DEF TInv, TrailBound
<1>13. n = 0 <=> pc = "M1"
  <2>1. n + 1 = 1 <=> pc = "M1"
    BY <1>0, OrderPlaces
  <2> QED  BY <2>1
<1>14. n = 1 <=> pc = "M1_M2"
  <2>1. n + 1 = 2 <=> pc = "M1_M2"
    BY <1>0, OrderPlaces
  <2> QED  BY <2>1
<1>15. trace.raw \in {RawId, Absent} /\ RawId # Unknown /\ RawId # Absent
  BY <1>4, PipelineAssumption
<1>16. result'.raw = Unknown => n = 0 \/ (n = 1 /\ trace'.raw = Absent)
  <2>1. result'.raw = Unknown => trace.raw = Absent
    BY <1>11, <1>15 DEF ReportedId
  <2>2. pc \notin {"M1", "M1_M2"} => trace.raw = RawId
    BY DEF IInv, EvidenceBound
  <2> QED  BY <1>6, <1>13, <1>14, <1>15, <2>1, <2>2
<1>17. result'.raw # Unknown => n > 0 /\ result'.raw = vault'.raw
  <2> SUFFICES ASSUME result'.raw # Unknown
               PROVE  n > 0 /\ result'.raw = vault'.raw
    OBVIOUS
  <2>1. trace.raw = RawId /\ result'.raw = RawId
    BY <1>11, <1>15 DEF ReportedId
  <2>2. pc # "M1"
    BY <1>15, <2>1 DEF IInv, EvidenceBound
  <2>3. vault' = vault /\ vault.raw = RawId
    BY <2>2 DEF IInv, EvidenceBound
  <2> QED  BY <1>13, <2>1, <2>2, <2>3
<1>18. FailureTruthful'
  <2>1. n \in 0 .. 8 /\ Len(trace'.hops) - 1 = n
    BY <1>6, <1>8
  <2>2. trace'.hops = Append(SubSeq(Order, 1, n), "FAILED")
    BY <1>6, <1>7
  <2> QED  BY <1>2, <1>9, <1>10, <1>12, <1>16, <1>17, <2>1, <2>2
           DEF FailureTruthful
<1> QED  BY <1>3, <1>18 DEF TInv

\* The call of a module's hop.
LEMMA CalledNow ==
  ASSUME IInv, TInv, NEW m \in Modules, pc = m, calls' = Called(m, CallTenant),
         CallTenant # NotCalled
  PROVE  CallsNow
<1>1. services \subseteq Modules
  BY DEF TInv, TrailBound
<1>2. calls \in [Modules -> Tenants \cup {Absent, NotCalled}]
  BY DEF IInv, CallsBound
<1>3. PICK t : t = CallTenant
  OBVIOUS
<1> QED  BY <1>1, <1>2, <1>3 DEF CallsNow, Called

\* A hop without a call: an adapter's, or the runner's own module's.
LEMMA NotCalledNow ==
  ASSUME TInv, pc \notin services, calls' = calls
  PROVE  CallsNow
BY DEF CallsNow

\* The steps that fail.
LEMMA FailureTrail ==
  ASSUME IInv, TInv,
         (\E m \in Modules : ServiceFails(m)) \/ HashlibUnbound \/ Unusable
  PROVE  TInv'
<1>1. ASSUME NEW m \in Modules, ServiceFails(m) PROVE TInv'
  <2>1. pc \in Hops /\ pc = m /\ Abort
    BY <1>1 DEF ServiceFails, Modules, Hops
  <2>2. (pc = "M1" \/ vault' = vault) /\ (pc = "M5" \/ routed' = routed)
    BY <1>1 DEF ServiceFails
  <2>3. CallTenant # NotCalled
    BY <1>1, CallMade DEF ServiceFails, Abort
  <2>4. CallsNow
    BY <1>1, <2>3, CalledNow DEF ServiceFails
  <2> QED  BY <2>1, <2>2, <2>4, AbortTrail
<1>2. CASE HashlibUnbound \/ Unusable
  <2>1. pc \in Hops /\ Abort /\ calls' = calls /\ vault' = vault /\ routed' = routed
    BY <1>2 DEF HashlibUnbound, Unusable, Hops
  <2>2. pc \notin services
    <3>1. services \subseteq Modules
      BY DEF TInv, TrailBound
    <3> QED  BY <1>2, <3>1 DEF HashlibUnbound, Unusable, Modules
  <2> QED  BY <2>1, <2>2, NotCalledNow, AbortTrail
<1> QED  BY <1>1, <1>2

\* The hop of a module.
LEMMA ModuleTrail ==
  ASSUME IInv, TInv, NEW k \in {1, 3, 5, 7}, pc = Order[k], pc' = Order[k + 1],
         trace'.hops = Hop, trace'.event = trace.event,
         calls' = Called(pc, CallTenant), services' = services,
         routed' = routed, result' = result, context' = context
  PROVE  TInv'
<1>1. pc \in Modules /\ pc \in Hops /\ pc # "M5" /\ pc' # "gateway"
  BY OrderFacts DEF Modules, Hops
<1>2. CallTenant # NotCalled
  BY <1>1, CallMade
<1>3. CallsNow
  BY <1>1, <1>2, CalledNow
<1>4. trace'.event # Absent <=> k + 1 \in {7, 8, 9}
  <2>1. pc \in {"M4", "M4_M5", "M5"} <=> k = 7
    BY OrderFacts
  <2> QED  BY <1>1, <2>1 DEF TInv, TrailBound
<1>5. k \in 1 .. 8
  OBVIOUS
<1> QED  BY <1>1, <1>3, <1>4, <1>5, HopTrail

\* The hops of the modules.
LEMMA ModulesTrail ==
  ASSUME IInv, TInv,
         \/ \E e \in Envelopes : Ingest(e)
         \/ \E e \in Parsed : Parse(e)
         \/ \E e \in Normalized : Normalize(e)
         \/ \E a \in Returned : Enrich(a)
  PROVE  TInv'
<1>0. trace \in [raw : {RawId, Absent}, event : {NewId, MadeId, Absent},
                 hops : {trace.hops}]
  BY DEF IInv, ContextBound
<1>1. PICK h : h = Hop
  OBVIOUS
<1>2. ASSUME NEW e \in Envelopes, Ingest(e) PROVE TInv'
  <2>1. trace'.hops = h /\ trace'.event = trace.event
    BY <1>0, <1>1, <1>2 DEF Ingest
  <2>2. pc = Order[1] /\ pc' = Order[1 + 1] /\ calls' = Called(pc, CallTenant)
    <3>1. pc = "M1" /\ pc' = "M1_M2" /\ calls' = Called("M1", CallTenant)
      BY <1>2 DEF Ingest
    <3> QED  BY <3>1, OrderFacts
  <2> QED  BY <1>1, <1>2, <2>1, <2>2, ModuleTrail DEF Ingest
<1>3. ASSUME NEW e \in Parsed, Parse(e) PROVE TInv'
  <2>1. trace'.hops = h /\ trace'.event = trace.event
    BY <1>0, <1>1, <1>3 DEF Parse
  <2>2. pc = Order[3] /\ pc' = Order[3 + 1] /\ calls' = Called(pc, CallTenant)
    BY <1>3, OrderFacts DEF Parse
  <2> QED  BY <1>1, <1>3, <2>1, <2>2, ModuleTrail DEF Parse
<1>4. ASSUME NEW e \in Normalized, Normalize(e) PROVE TInv'
  <2>1. trace'.hops = h /\ trace'.event = trace.event
    BY <1>0, <1>1, <1>4 DEF Normalize
  <2>2. pc = Order[5] /\ pc' = Order[5 + 1] /\ calls' = Called(pc, CallTenant)
    BY <1>4, OrderFacts DEF Normalize
  <2> QED  BY <1>1, <1>4, <2>1, <2>2, ModuleTrail DEF Normalize
<1>5. ASSUME NEW a \in Returned, Enrich(a) PROVE TInv'
  <2>1. trace'.hops = h /\ trace'.event = trace.event
    BY <1>0, <1>1, <1>5 DEF Enrich
  <2>2. pc = Order[7] /\ pc' = Order[7 + 1] /\ calls' = Called(pc, CallTenant)
    BY <1>5, OrderFacts DEF Enrich
  <2> QED  BY <1>1, <1>5, <2>1, <2>2, ModuleTrail DEF Enrich
<1> QED  BY <1>2, <1>3, <1>4, <1>5

\* The hop of an adapter; the third one gives the event its identifier.
LEMMA AdapterTrail ==
  ASSUME IInv, TInv, NEW k \in {2, 4, 6, 8}, pc = Order[k], pc' = Order[k + 1],
         trace'.hops = Hop, k # 6 => trace'.event = trace.event,
         k = 6 => trace'.event # Absent,
         calls' = calls, services' = services, routed' = routed, result' = result
  PROVE  TInv'
<1>1. pc \in Hops /\ pc \notin Modules
  BY OrderFacts DEF Modules, Hops
<1>2. CallsNow
  BY <1>1, NotCalledNow DEF TInv, TrailBound
<1>3. trace'.event # Absent <=> k + 1 \in {7, 8, 9}
  <2>1. pc \in {"M4", "M4_M5", "M5"} <=> k = 8
    BY OrderFacts
  <2> QED  BY <1>1, <2>1 DEF TInv, TrailBound
<1>4. k \in 1 .. 8
  OBVIOUS
<1> QED  BY <1>1, <1>2, <1>3, <1>4, HopTrail

\* The hops of the adapters.
LEMMA AdaptersTrail ==
  ASSUME IInv, TInv, AdaptM1M2 \/ AdaptM2M3 \/ AdaptM3M4 \/ AdaptM4M5
  PROVE  TInv'
<1>0. trace \in [raw : {RawId, Absent}, event : {NewId, MadeId, Absent},
                 hops : {trace.hops}]
  BY DEF IInv, ContextBound
<1>1. PICK h : h = Hop
  OBVIOUS
<1>2. CASE AdaptM1M2
  <2>1. trace'.hops = h /\ trace'.event = trace.event
    BY <1>0, <1>1, <1>2 DEF AdaptM1M2
  <2>2. pc = Order[2] /\ pc' = Order[2 + 1]
    BY <1>2, OrderFacts DEF AdaptM1M2
  <2> QED  BY <1>1, <1>2, <2>1, <2>2, AdapterTrail DEF AdaptM1M2
<1>3. CASE AdaptM2M3
  <2>1. trace'.hops = h /\ trace'.event = trace.event
    BY <1>0, <1>1, <1>3 DEF AdaptM2M3
  <2>2. pc = Order[4] /\ pc' = Order[4 + 1]
    BY <1>3, OrderFacts DEF AdaptM2M3
  <2> QED  BY <1>1, <1>3, <2>1, <2>2, AdapterTrail DEF AdaptM2M3
<1>4. CASE AdaptM3M4
  <2>1. trace'.hops = h
    BY <1>0, <1>1, <1>4 DEF AdaptM3M4
  <2>2. pc = Order[6] /\ pc' = Order[6 + 1]
    BY <1>4, OrderFacts DEF AdaptM3M4
  <2>3. trace'.event # Absent
    BY <1>4, AdaptM3M4Step, PipelineAssumption
  <2> QED  BY <1>1, <1>4, <2>1, <2>2, <2>3, AdapterTrail DEF AdaptM3M4
<1>5. CASE AdaptM4M5
  <2>1. trace'.hops = h /\ trace'.event = trace.event
    BY <1>0, <1>1, <1>5 DEF AdaptM4M5
  <2>2. pc = Order[8] /\ pc' = Order[8 + 1]
    BY <1>5, OrderFacts DEF AdaptM4M5
  <2> QED  BY <1>1, <1>5, <2>1, <2>2, AdapterTrail DEF AdaptM4M5
<1> QED  BY <1>2, <1>3, <1>4, <1>5

\* A failed execution tells how far the event got, for any tenants, keys and
\* services.
THEOREM FailuresAreTruthful == Spec => []FailureTruthful
<1>1. IInv /\ TInv /\ [Next]_vars => TInv'
  <2> SUFFICES ASSUME IInv, TInv, [Next]_vars PROVE TInv'
    OBVIOUS
  <2>1. CASE Route
    <3>1. pc' = "ended" /\ result'.success /\ services' = services
      BY <2>1 DEF Route
    <3>2. TrailBound'
      BY <3>1 DEF TInv, TrailBound, Hops
    <3> QED  BY <3>1, <3>2 DEF TInv, FailureTruthful
  <2>2. CASE UNCHANGED vars
    BY <2>2 DEF vars, TInv, TrailBound, Trail, FailureTruthful, Ended
  <2>3. CASE Next /\ ~Route
    BY <2>3, GatewayTrail, ModulesTrail, AdaptersTrail, FailureTrail DEF Next
  <2> QED  BY <2>1, <2>2, <2>3
<1>2. TInv => FailureTruthful
  BY DEF TInv
<1> QED  BY <1>1, <1>2, InitTInv, PipelineInvariant, PTL DEF Spec
-----------------------------------------------------------------------------
(* run_stack.py. *)

\* Before the first process, during the start-up, and when all are READY.
Before == {"kill", "ports", "infra"}
Starting == {"popen", "record", "poll", "get", "banner", "stable"}
Ready == {"write", "supervise"}

\* Processes are those of this launch and of earlier ones, and one that runs
\* has not died.
Launched == /\ \A p \in alive : p[2] <= run
            /\ pidfile <= run /\ (at # "off" => run > 0)
            /\ \A n \in Names : Running(n) => diedAt[n] = 0

\* This launch has not come to n.
Untouched(n) == ~Running(n) /\ records[n] = "none" /\ diedAt[n] = 0

\* The components up to the current one have been started, the others not.
InOrder ==
  /\ created = {"topic", "bucket"}
  /\ step \in DOMAIN plan
  /\ \A j \in 1..step - 1 : records[plan[j]] = "READY"
  /\ \A n \in Names : (\A j \in 1..step : plan[j] # n) => Untouched(n)

\* Whatever died did so no earlier than at the waits among the first k.
Polled(k) ==
  \A n \in Names : diedAt[n] # 0 =>
    \A j \in DOMAIN plan : j <= k /\ plan[j] # Bridge => j <= diedAt[n]

\* What each place of the launcher knows.
PlaceFacts ==
  /\ at \in Before => (\A n \in Names : Untouched(n)) /\ pidfile # run
  /\ at \in {"kill", "ports"} => step = 1
  /\ at = "infra" => /\ step \in DOMAIN Infra
                     /\ \A j \in 1..step - 1 : Creates(Infra[j]) \subseteq created
  /\ at \in {"off", "cleanup"} => (\A n \in Names : Untouched(n)) \/ InOrder
  /\ at \in Starting \cup Ready => InOrder
  /\ at = "popen" => Untouched(plan[step])
  /\ at \in {"poll", "get"} => records[plan[step]] # "none"
  /\ at \in {"banner", "stable"} => plan[step] = Bridge
  /\ at \in Starting => Polled(step - 1)
  /\ at = "get" => Polled(step)
  /\ at = "write" \/ state = "PIPELINE_READY" =>
       InOrder /\ step = Len(plan) /\ Polled(step)
  /\ at \in Before \cup Starting \cup {"write"} => state # "PIPELINE_READY"
  /\ at = "supervise" => state = "PIPELINE_READY"

\* The inductive invariant.
StackInv == TypeOK /\ Launched /\ PlaceFacts /\ NothingLeftBehind

\* A plan lists different components, some of which are waited for with polls
\* of all the others.
LEMMA FullFacts ==
  ASSUME StackAssumption, NEW ui \in BOOLEAN
  PROVE  /\ Full(ui) \in Seq(Names) /\ Len(Full(ui)) \in Nat \ {0}
         /\ \A i, j \in DOMAIN Full(ui) : Full(ui)[i] = Full(ui)[j] => i = j
         /\ \E i \in DOMAIN Full(ui) :
              /\ Full(ui)[i] # Bridge
              /\ \A j \in DOMAIN Full(ui) : Full(ui)[j] # Bridge => j <= i
  <1> DEFINE u == IF ui THEN Frontends ELSE <<>>
             b == <<Bridge>>
             sb == Services \o b
             f == sb \o u
             n == Len(Services)
  <1>1. /\ Services \in Seq(Names) /\ u \in Seq(Names) /\ b \in Seq(Names)
        /\ n \in Nat \ {0} /\ Len(u) \in Nat
    <2>1. Services \in Seq(Range(Services)) /\ Frontends \in Seq(Range(Frontends))
      BY DEF StackAssumption, Listing
    <2>2. Services \in Seq(Names) /\ Frontends \in Seq(Names) /\ b \in Seq(Names)
      BY <2>1 DEF Names
    <2>3. Services # <<>>
      BY DEF StackAssumption, Range
    <2>4. QED BY <2>2, <2>3
  <1>2. /\ sb \in Seq(Names) /\ Len(sb) = n + 1
        /\ \A i \in 1..n : sb[i] = Services[i]
        /\ sb[n + 1] = Bridge
    BY <1>1, ConcatProperties
  <1>3. /\ f \in Seq(Names) /\ Len(f) = n + 1 + Len(u) /\ DOMAIN f = 1..Len(f)
        /\ \A i \in 1..Len(f) : f[i] = IF i <= n THEN Services[i]
                                      ELSE IF i = n + 1 THEN Bridge ELSE u[i - (n + 1)]
    <2> HIDE DEF u, sb
    <2>1. /\ f \in Seq(Names) /\ Len(f) = Len(sb) + Len(u)
          /\ \A i \in 1..Len(sb) + Len(u) :
               f[i] = IF i <= Len(sb) THEN sb[i] ELSE u[i - Len(sb)]
      <3>1. sb \in Seq(Names) /\ u \in Seq(Names)
        BY <1>1, <1>2
      <3>2. QED BY ONLY <3>1, ConcatProperties
    <2> HIDE DEF f
    <2>2. QED BY <1>1, <1>2, <2>1
  <1>4. /\ \A i \in 1..n : Services[i] \in Range(Services)
        /\ \A i \in 1..Len(u) : u[i] \in Range(Frontends)
        /\ \A i, j \in 1..n : Services[i] = Services[j] => i = j
        /\ \A i, j \in 1..Len(u) : u[i] = u[j] => i = j
    BY <1>1 DEF Range, StackAssumption, Listing
  <1>5. /\ Bridge \notin Range(Services) /\ Bridge \notin Range(Frontends)
        /\ \A x \in Range(Services) : x \notin Range(Frontends)
    BY DEF StackAssumption
  <1>8. Full(ui) = f
    BY DEF Full
  <1> HIDE DEF f, sb, u, b, n
  <1>6. ASSUME NEW i \in 1..Len(f), NEW j \in 1..Len(f), f[i] = f[j] PROVE i = j
    <2>1. \/ i <= n /\ f[i] = Services[i] /\ f[i] \in Range(Services)
          \/ i = n + 1 /\ f[i] = Bridge
          \/ i - (n + 1) \in 1..Len(u) /\ f[i] = u[i - (n + 1)] /\ f[i] \in Range(Frontends)
      BY <1>1, <1>3, <1>4
    <2>2. \/ j <= n /\ f[j] = Services[j] /\ f[j] \in Range(Services)
          \/ j = n + 1 /\ f[j] = Bridge
          \/ j - (n + 1) \in 1..Len(u) /\ f[j] = u[j - (n + 1)] /\ f[j] \in Range(Frontends)
      BY <1>1, <1>3, <1>4
    <2>3. CASE f[i] \in Range(Services)
      <3>1. i \in 1..n /\ j \in 1..n /\ Services[i] = Services[j]
        BY <1>1, <1>5, <1>6, <2>1, <2>2, <2>3
      <3>2. QED BY <1>4, <3>1
    <2>4. CASE f[i] = Bridge
      BY <1>5, <1>6, <2>1, <2>2, <2>4
    <2>5. CASE f[i] \in Range(Frontends)
      <3>1. /\ i - (n + 1) \in 1..Len(u) /\ j - (n + 1) \in 1..Len(u)
            /\ u[i - (n + 1)] = u[j - (n + 1)]
        BY <1>5, <1>6, <2>1, <2>2, <2>5
      <3>2. i - (n + 1) = j - (n + 1)
        BY <1>4, <3>1
      <3>3. QED BY <1>1, <3>2
    <2>6. QED BY <2>1, <2>3, <2>4, <2>5
  <1>7. ASSUME Len(u) = 0
        PROVE  n \in 1..Len(f) /\ f[n] # Bridge /\ \A j \in 1..Len(f) : f[j] # Bridge => j <= n
    <2>1. n \in 1..Len(f) /\ n \in 1..n /\ Len(f) = n + 1
      BY <1>1, <1>3, <1>7
    <2>2. f[n] = Services[n] /\ f[n + 1] = Bridge
      BY <1>1, <1>3, <2>1
    <2>3. QED BY <1>1, <1>4, <1>5, <2>1, <2>2
  <1>10. ASSUME Len(u) # 0
         PROVE  Len(f) \in 1..Len(f) /\ f[Len(f)] # Bridge
    <2>1. Len(f) \in 1..Len(f) /\ Len(f) - (n + 1) \in 1..Len(u) /\ ~(Len(f) <= n + 1)
      BY <1>1, <1>3, <1>10
    <2>2. f[Len(f)] = u[Len(f) - (n + 1)]
      BY <1>1, <1>3, <2>1
    <2>3. QED BY <1>4, <1>5, <2>1, <2>2
  <1>11. Len(f) \in Nat \ {0}
    BY <1>1, <1>3
  <1>12. \E i \in 1..Len(f) : f[i] # Bridge /\ \A j \in 1..Len(f) : f[j] # Bridge => j <= i
    <2>1. CASE Len(u) = 0
      BY <1>7, <2>1
    <2>2. CASE Len(u) # 0
      <3>1. \A j \in 1..Len(f) : j <= Len(f)
        BY <1>11
      <3>2. QED BY <1>10, <2>2, <3>1
    <2>3. QED BY <2>1, <2>2
  <1>13. QED BY <1>3, <1>6, <1>8, <1>11, <1>12

LEMMA PlanFacts ==
  ASSUME StackAssumption, TypeOK
  PROVE  /\ plan \in Seq(Names) /\ Len(plan) \in Nat \ {0} /\ DOMAIN plan = 1..Len(plan)
         /\ \A i, j \in DOMAIN plan : plan[i] = plan[j] => i = j
         /\ \E i \in DOMAIN plan : /\ plan[i] # Bridge
                                  /\ \A j \in DOMAIN plan : plan[j] # Bridge => j <= i
  <1>1. plan = Full(TRUE) \/ plan = Full(FALSE)
    BY DEF TypeOK
  <1>2. /\ Full(TRUE) \in Seq(Names) /\ Full(FALSE) \in Seq(Names)
        /\ Len(Full(TRUE)) \in Nat \ {0} /\ Len(Full(FALSE)) \in Nat \ {0}
    BY FullFacts
  <1>3. plan \in Seq(Names) /\ Len(plan) \in Nat \ {0}
    BY <1>1, <1>2
  <1>4. /\ \A i, j \in DOMAIN plan : plan[i] = plan[j] => i = j
        /\ \E i \in DOMAIN plan : /\ plan[i] # Bridge
                                 /\ \A j \in DOMAIN plan : plan[j] # Bridge => j <= i
    BY <1>1, FullFacts, Zenon
  <1>5. QED BY <1>3, <1>4

LEMMA InfraFacts ==
  ASSUME StackAssumption
  PROVE  /\ Len(Infra) \in Nat \ {0} /\ DOMAIN Infra = 1..Len(Infra)
         /\ \E i \in DOMAIN Infra : Infra[i] = "kafka"
         /\ \E i \in DOMAIN Infra : Infra[i] = "minio"
  <1>1. Infra \in Seq(Range(Infra)) /\ Infra # <<>>
    BY DEF StackAssumption
  <1>2. "kafka" \in Range(Infra) /\ "minio" \in Range(Infra)
    BY DEF StackAssumption
  <1>3. QED BY <1>1, <1>2 DEF Range

LEMMA StackTypesInit ==
  ASSUME StackAssumption, StackInit
  PROVE  TypeOK
  BY DEF StackAssumption, StackInit, TypeOK

\* The counters of TypeOK.
Numbers == /\ run \in 0..MaxRuns /\ step \in Nat /\ tries \in 0..MaxTries + Polls
           /\ pidfile \in 0..MaxRuns /\ faults \in 0..MaxFaults

LEMMA NumbersNext ==
  ASSUME StackAssumption, Numbers, [StackNext]_stackVars
  PROVE  Numbers'
  <1>a. MaxRuns \in Nat /\ MaxTries \in Nat /\ Polls \in Nat /\ MaxFaults \in Nat
    BY DEF StackAssumption
  <1> USE <1>a DEF Numbers
  <1>1. ASSUME NEW m \in {"supervise", "check", "infra"}, NEW ui \in BOOLEAN, Launch(m, ui)
        PROVE  Numbers'
    BY <1>1 DEF Launch
  <1>2. CASE KillBridges
    BY <1>2 DEF KillBridges
  <1>3. CASE KillListeners
    BY <1>3 DEF KillListeners
  <1>4. CASE ProbeSucceeds
    BY <1>4 DEF ProbeSucceeds
  <1>5. CASE ProbeFails
    BY <1>5 DEF ProbeFails
  <1>6. CASE StopBridges
    BY <1>6 DEF StopBridges, launcher
  <1>7. CASE StopListeners
    BY <1>7 DEF StopListeners, launcher
  <1>8. CASE Record
    BY <1>8 DEF Record
  <1>9. CASE Poll
    BY <1>9 DEF Poll, GiveUp
  <1>10. CASE GetAnswered
    BY <1>10 DEF GetAnswered, Advance
  <1>11. CASE GetFails
    BY <1>11 DEF GetFails, GiveUp
  <1>12. CASE BridgeBanner
    BY <1>12 DEF BridgeBanner, GiveUp
  <1>13. CASE BridgeStable
    BY <1>13 DEF BridgeStable, GiveUp, Advance
  <1>14. CASE Announce
    BY <1>14 DEF Announce
  <1>15. CASE Supervise
    BY <1>15 DEF Supervise
  <1>16. CASE Signal
    BY <1>16 DEF Signal
  <1>17. CASE Terminate
    BY <1>17 DEF Terminate, launcher
  <1>21. CASE cleanup
    BY <1>21 DEF cleanup
  <1>18. CASE Popen
    BY <1>18 DEF Popen
  <1>19. CASE Environment
    <2>1. UNCHANGED <<run, step, tries, pidfile>>
      BY <1>19 DEF Environment, Bind, PortTaken, Dies, StartContainer, Outage,
                   LauncherKilled, launcher
    <2>2. UNCHANGED faults \/ Fault
      BY <1>19 DEF Environment, Bind, PortTaken, Dies, StartContainer, Outage,
                   LauncherKilled
    <2>3. QED BY <2>1, <2>2 DEF Fault
  <1>20. CASE UNCHANGED stackVars
    BY <1>20 DEF stackVars, launcher
  <1>22. QED
    BY <1>1, <1>2, <1>3, <1>4, <1>5, <1>6, <1>7, <1>8, <1>9, <1>10, <1>11, <1>12,
       <1>13, <1>14, <1>15, <1>16, <1>17, <1>18, <1>19, <1>20, <1>21
       DEF StackNext, Launcher

LEMMA StackTypesNext ==
  ASSUME StackAssumption, TypeOK, StackInv, [StackNext]_stackVars
  PROVE  TypeOK'
  <1>a. Numbers'
    BY NumbersNext DEF TypeOK, Numbers
  <1>b. Creates(Infra[step]) \subseteq {"topic", "bucket"}
    BY DEF Creates
  <1>c. Containers \subseteq Range(Infra)
    BY DEF StackAssumption
  <1>e. ASSUME NEW gone, End(gone)
        PROVE  /\ alive' \subseteq Names \X (1..MaxRuns) /\ up' \subseteq alive'
               /\ diedAt' \in [Names -> Nat]
    BY <1>e DEF End, TypeOK
  <1>f. ASSUME UNCHANGED launcher
        PROVE  /\ mode' \in {"supervise", "check", "infra"}
               /\ plan' \in {Full(TRUE), Full(FALSE)}
               /\ at' \in {"off", "kill", "ports", "infra", "popen", "record", "poll",
                          "get", "banner", "stable", "write", "supervise", "cleanup"}
               /\ state' \in {"INFRASTRUCTURE_STARTING", "INFRASTRUCTURE_READY",
                             "SERVICES_STARTING", "SERVICES_READY", "PIPELINE_READY",
                             "FAILED"}
               /\ records' \in [Names -> {"none", "STARTING", "HEALTHY", "READY"}]
               /\ exit' \in {"none", "0", "1", "left", "killed"}
    <2>1. UNCHANGED <<mode, plan, at, state, records, exit>>
      BY <1>f DEF launcher
    <2>2. QED BY <2>1 DEF TypeOK
  <1>g. ASSUME UNCHANGED launcher, stopper' \in {"off", "ports"},
               available' \subseteq Range(Infra), created' \subseteq {"topic", "bucket"},
               alive' \subseteq Names \X (1..MaxRuns), up' \subseteq alive',
               diedAt' \in [Names -> Nat]
        PROVE  TypeOK'
    BY <1>a, <1>f, <1>g, Zenon DEF TypeOK, Numbers
  <1>h. ASSUME UNCHANGED <<launcher, available, created>>, stopper' \in {"off", "ports"},
               NEW gone, End(gone)
        PROVE  TypeOK'
    <2>1. available' \subseteq Range(Infra) /\ created' \subseteq {"topic", "bucket"}
      BY <1>h DEF TypeOK
    <2>2. QED BY <1>e, <1>g, <1>h, <2>1
  <1>d. step \in DOMAIN plan => plan[step] \in Names
    BY PlanFacts
  <1> USE <1>a DEF TypeOK, Numbers
  <1>1. ASSUME NEW m \in {"supervise", "check", "infra"}, NEW ui \in BOOLEAN, Launch(m, ui)
        PROVE  TypeOK'
    <2>1. plan' \in {Full(TRUE), Full(FALSE)}
      BY <1>1 DEF Launch
    <2>2. QED BY <1>1, <2>1 DEF Launch
  <1>2. CASE KillBridges
    BY <1>2, <1>e DEF KillBridges
  <1>3. CASE KillListeners
    BY <1>3, <1>e DEF KillListeners
  <1>4. CASE ProbeSucceeds
    BY <1>4, <1>b DEF ProbeSucceeds, Exit
  <1>5. CASE ProbeFails
    BY <1>5 DEF ProbeFails, Exit
  <1>6. CASE StopBridges
    BY <1>6, <1>h DEF StopBridges
  <1>7. CASE StopListeners
    BY <1>7, <1>h DEF StopListeners
  <1>8. CASE Record
    BY <1>8 DEF Record
  <1>9. CASE Poll
    BY <1>9 DEF Poll, GiveUp
  <1>10. CASE GetAnswered
    BY <1>10 DEF GetAnswered, Advance
  <1>11. CASE GetFails
    BY <1>11 DEF GetFails, GiveUp
  <1>12. CASE BridgeBanner
    BY <1>12 DEF BridgeBanner, GiveUp
  <1>13. CASE BridgeStable
    BY <1>13 DEF BridgeStable, GiveUp, Advance
  <1>14. CASE Announce
    BY <1>14 DEF Announce, Exit
  <1>15. CASE Supervise
    BY <1>15 DEF Supervise
  <1>16. CASE Signal
    BY <1>16 DEF Signal
  <1>17. CASE Terminate
    BY <1>17, <1>e DEF Terminate, launcher
  <1>21. CASE cleanup
    BY <1>21 DEF cleanup, Exit
  <1>18. CASE Popen
    <2>0. step \in DOMAIN plan /\ run > 0
      BY <1>18 DEF Popen, StackInv, Launched, PlaceFacts, InOrder, Starting
    <2>1. plan[step] \in Names /\ run \in 1..MaxRuns
      <3>1. run \in 0..MaxRuns /\ MaxRuns \in Nat
        BY DEF StackAssumption
      <3>2. run \in 1..MaxRuns
        BY <2>0, <3>1
      <3>3. QED BY <2>0, <3>2, <1>d
    <2>2. Own(plan[step]) \in Names \X (1..MaxRuns)
      BY <2>1 DEF Own
    <2>3. QED BY <1>18, <2>2 DEF Popen, Current
  <1>19. CASE Environment
    <2>1. ASSUME NEW p \in alive, Bind(p) PROVE TypeOK'
      <3>1. /\ UNCHANGED <<launcher, stopper, available, created, alive, diedAt>>
            /\ up' \subseteq alive
        BY <2>1 DEF Bind
      <3>2. /\ stopper' \in {"off", "ports"}
            /\ available' \subseteq Range(Infra) /\ created' \subseteq {"topic", "bucket"}
            /\ alive' \subseteq Names \X (1..MaxRuns) /\ diedAt' \in [Names -> Nat]
        BY <3>1
      <3>3. QED BY <1>g, <3>1, <3>2
    <2>2. ASSUME NEW p \in alive, PortTaken(p) PROVE TypeOK'
      <3>1. UNCHANGED <<launcher, available, created>> /\ UNCHANGED stopper /\ End({p})
        BY <2>2 DEF PortTaken
      <3>2. stopper' \in {"off", "ports"}
        BY <3>1
      <3>3. QED BY <1>h, <3>1, <3>2
    <2>3. ASSUME NEW p \in alive, Dies(p) PROVE TypeOK'
      <3>1. UNCHANGED <<launcher, available, created>> /\ UNCHANGED stopper /\ End({p})
        BY <2>3 DEF Dies
      <3>2. stopper' \in {"off", "ports"}
        BY <3>1
      <3>3. QED BY <1>h, <3>1, <3>2
    <2>b. ASSUME UNCHANGED <<launcher, stopper, created, alive, up, diedAt>>,
                 available' \subseteq Range(Infra)
          PROVE  TypeOK'
      <3>1. /\ stopper' \in {"off", "ports"}
            /\ created' \subseteq {"topic", "bucket"} /\ up' \subseteq alive'
            /\ alive' \subseteq Names \X (1..MaxRuns) /\ diedAt' \in [Names -> Nat]
        BY <2>b
      <3>2. QED BY <1>g, <2>b, <3>1
    <2>4. ASSUME NEW c \in Range(Infra), StartContainer(c) PROVE TypeOK'
      <3>1. /\ UNCHANGED <<launcher, stopper, created, alive, up, diedAt>>
            /\ available' \subseteq Range(Infra)
        BY <1>c, <2>4 DEF StartContainer
      <3>2. QED BY <2>b, <3>1
    <2>5. ASSUME NEW c \in Range(Infra), Outage(c) PROVE TypeOK'
      <3>1. /\ UNCHANGED <<launcher, stopper, created, alive, up, diedAt>>
            /\ available' \subseteq Range(Infra)
        BY <2>5 DEF Outage
      <3>2. QED BY <2>b, <3>1
    <2>6. CASE LauncherKilled
      BY <2>6 DEF LauncherKilled, Exit
    <2>7. QED BY <1>19, <2>1, <2>2, <2>3, <2>4, <2>5, <2>6 DEF Environment
  <1>20. CASE UNCHANGED stackVars
    <2>1. UNCHANGED <<launcher, stopper, alive, up, available, created, diedAt>>
      BY <1>20 DEF stackVars
    <2>2. /\ stopper' \in {"off", "ports"}
          /\ available' \subseteq Range(Infra) /\ created' \subseteq {"topic", "bucket"}
          /\ alive' \subseteq Names \X (1..MaxRuns) /\ up' \subseteq alive'
          /\ diedAt' \in [Names -> Nat]
      BY <2>1
    <2>3. QED BY <1>g, <2>1, <2>2
  <1>22. QED
    BY <1>1, <1>2, <1>3, <1>4, <1>5, <1>6, <1>7, <1>8, <1>9, <1>10, <1>11, <1>12,
       <1>13, <1>14, <1>15, <1>16, <1>17, <1>18, <1>19, <1>20, <1>21
       DEF StackNext, Launcher

Rest == PlaceFacts /\ NothingLeftBehind /\ Launched

\* The end of processes starts none, and a death is dated with the step.
LEMMA EndKeeps ==
  ASSUME StackAssumption, TypeOK, Launched, NEW gone, End(gone),
         UNCHANGED <<run, plan, step, records, created>>
  PROVE  /\ \A p \in alive' : p[2] <= run'
         /\ \A n \in Names : Running(n)' => Running(n) /\ diedAt'[n] = 0
         /\ \A n \in Names : Untouched(n) => Untouched(n)'
         /\ InOrder => InOrder'
         /\ \A k \in Nat : k <= step /\ Polled(k) => Polled(k)'
  <1>1. \A n \in Names : Own(n)' = Own(n)
    BY DEF Own
  <1>2. /\ alive' \subseteq alive
        /\ \A n \in Names : diedAt'[n] \in {diedAt[n], step}
        /\ \A n \in Names : ~Running(n) => diedAt'[n] = diedAt[n]
        /\ \A n \in Names : Own(n) \in alive' => diedAt'[n] = diedAt[n]
    BY DEF End, Running
  <1>3. \A p \in alive' : p[2] <= run'
    BY <1>2 DEF Launched
  <1>4. \A n \in Names : Running(n)' => Running(n) /\ diedAt'[n] = 0
    BY <1>1, <1>2 DEF Running, Launched
  <1>5. \A n \in Names : Untouched(n) => Untouched(n)'
    BY <1>2, <1>4 DEF Untouched
  <1>6. InOrder => InOrder'
    BY <1>5 DEF InOrder
  <1>7. ASSUME NEW k \in Nat, k <= step, Polled(k) PROVE Polled(k)'
    <2>1. ASSUME NEW n \in Names, diedAt'[n] # 0,
                 NEW j \in DOMAIN plan, j <= k, plan[j] # Bridge
          PROVE  j <= diedAt'[n]
      <3>1. j \in Nat /\ step \in Nat
        <4>1. step \in Nat
          BY DEF TypeOK
        <4>2. QED BY <4>1, PlanFacts
      <3>2. CASE diedAt'[n] = step
        BY <1>7, <2>1, <3>1, <3>2
      <3>3. CASE diedAt'[n] = diedAt[n]
        BY <1>7, <2>1, <3>3 DEF Polled
      <3>4. QED BY <1>2, <3>2, <3>3
    <2>2. QED BY <2>1 DEF Polled
  <1>8. QED BY <1>3, <1>4, <1>5, <1>6, <1>7

\* What the facts are about is unchanged.
LEMMA SameKeeps ==
  ASSUME UNCHANGED <<run, plan, step, records, created, alive, diedAt>>
  PROVE  /\ \A n \in Names :
              (Running(n)' <=> Running(n)) /\ (Untouched(n)' <=> Untouched(n))
         /\ InOrder' <=> InOrder
         /\ Untouched(plan[step])' <=> Untouched(plan[step])
         /\ Polled(step - 1)' <=> Polled(step - 1)
         /\ Polled(step)' <=> Polled(step)
  <1>1. \A n \in Names : (Running(n)' <=> Running(n)) /\ (Untouched(n)' <=> Untouched(n))
    BY DEF Running, Own, Untouched
  <1>2. InOrder' <=> InOrder
    BY <1>1 DEF InOrder
  <1>3. /\ Polled(step - 1)' <=> Polled(step - 1)
        /\ Polled(step)' <=> Polled(step)
    BY DEF Polled
  <1>4. Untouched(plan[step])' <=> Untouched(plan[step])
    BY DEF Running, Own, Untouched
  <1>5. QED BY <1>1, <1>2, <1>3, <1>4

\* Among the processes nothing happens, nor in the launcher's books.
LEMMA BooksKept ==
  ASSUME StackInv, UNCHANGED <<run, plan, step, records, created, alive, diedAt>>,
         pidfile' \in {run, pidfile}, at' # "off" => at # "off"
  PROVE  Launched'
  <1>1. Launched /\ run \in Nat
    BY DEF StackInv, TypeOK
  <1>2. QED BY <1>1, SameKeeps DEF Launched

\* Processes end while the launcher does nothing.
LEMMA EnvironmentEnds ==
  ASSUME StackAssumption, StackInv, NEW gone, End(gone), UNCHANGED launcher, UNCHANGED created,
         pidfile' \in {0, pidfile}
  PROVE  Rest'
  <1>t. TypeOK /\ Launched /\ PlaceFacts /\ NothingLeftBehind
    BY DEF StackInv
  <1>u. UNCHANGED <<run, plan, at, state, step, records, exit, created>>
    BY DEF launcher
  <1>1. /\ \A p \in alive' : p[2] <= run'
        /\ \A n \in Names : Running(n)' => Running(n) /\ diedAt'[n] = 0
        /\ \A n \in Names : Untouched(n) => Untouched(n)'
        /\ InOrder => InOrder'
        /\ \A k \in Nat : k <= step /\ Polled(k) => Polled(k)'
    BY <1>t, <1>u, EndKeeps
  <1>2. run \in Nat /\ pidfile \in Nat /\ step \in Nat
    BY <1>t DEF TypeOK
  <1>3. Launched'
    BY <1>t, <1>u, <1>1, <1>2 DEF Launched
  <1>4. NothingLeftBehind'
    BY <1>t, <1>u, <1>1 DEF NothingLeftBehind, procs
  <1>5. PlaceFacts'
    <2>1. at \in Starting => step - 1 \in Nat /\ step - 1 <= step
      BY <1>t, <1>2, PlanFacts DEF PlaceFacts, InOrder
    <2>2. /\ at \in Starting => Polled(step - 1)'
          /\ at = "get" => Polled(step)'
          /\ at = "write" \/ state = "PIPELINE_READY" => Polled(step)'
      <3>1. /\ at \in Starting => Polled(step - 1)
            /\ at = "get" => Polled(step)
            /\ at = "write" \/ state = "PIPELINE_READY" => Polled(step)
        BY <1>t DEF PlaceFacts
      <3>2. QED BY <1>u, <1>1, <1>2, <2>1, <3>1 DEF Polled
    <2>5. at = "popen" => Untouched(plan[step])'
      <3>1. at = "popen" => plan[step] \in Names /\ Untouched(plan[step])
        BY <1>t, PlanFacts DEF PlaceFacts, InOrder, Starting
      <3>2. QED BY <1>u, <1>1, <3>1 DEF Untouched, Running, Own
    <2>3. at \in Before => pidfile' # run
      BY <1>t, <1>2 DEF PlaceFacts, Launched, Before
    <2>4. QED BY <1>t, <1>u, <1>1, <2>2, <2>3, <2>5 DEF PlaceFacts
  <1>6. QED BY <1>3, <1>4, <1>5 DEF Rest

\* A new launch has no process yet: none carries its number.
LEMMA LaunchKeeps ==
  ASSUME StackAssumption, StackInv, NEW m \in {"supervise", "check", "infra"},
         NEW ui \in BOOLEAN, Launch(m, ui)
  PROVE  Rest'
  <1>t. TypeOK /\ Launched
    BY DEF StackInv
  <1>1. /\ run \in Nat /\ run' = run + 1 /\ run' # 0 /\ pidfile' = pidfile
        /\ pidfile <= run /\ pidfile \in Nat
    BY <1>t DEF TypeOK, Launched, Launch
  <1>2. \A n \in Names : Untouched(n)'
    <2>1. ASSUME NEW n \in Names PROVE ~(Own(n)' \in alive')
      <3>1. Own(n)' = <<n, run + 1>> /\ alive' = alive
        BY <1>1 DEF Own, Launch
      <3>2. \A p \in alive : p[2] <= run
        BY <1>t DEF Launched
      <3>3. <<n, run + 1>> \in alive => run + 1 <= run
        BY <3>2
      <3>4. QED BY <1>1, <3>1, <3>3
    <2>2. \A n \in Names : records'[n] = "none" /\ diedAt'[n] = 0
      BY DEF Launch
    <2>3. QED BY <2>1, <2>2 DEF Untouched, Running
  <1>3. Launched'
    <2>1. \A p \in alive : p[2] <= run /\ p[2] \in Nat
      BY <1>t DEF Launched, TypeOK
    <2>2. \A p \in alive' : p[2] <= run'
      BY <1>1, <2>1 DEF Launch
    <2>3. \A n \in Names : diedAt'[n] = 0
      BY DEF Launch
    <2>4. QED BY <1>1, <2>2, <2>3 DEF Launched
  <1>4. at' \in {"infra", "kill"} /\ step' = 1 /\ state' = "INFRASTRUCTURE_STARTING"
    BY DEF Launch
  <1>5. NothingLeftBehind'
    BY <1>4 DEF NothingLeftBehind
  <1>6. pidfile' # run'
    BY <1>1
  <1>7. step' \in DOMAIN Infra
    BY <1>4, InfraFacts
  <1>8. PlaceFacts'
    BY <1>2, <1>4, <1>6, <1>7 DEF PlaceFacts, Before, Starting, Ready
  <1>9. QED BY <1>3, <1>5, <1>8 DEF Rest

LEMMA KillKeeps ==
  ASSUME StackAssumption, StackInv, KillBridges \/ KillListeners
  PROVE  Rest'
  <1>t. TypeOK /\ Launched /\ PlaceFacts
    BY DEF StackInv
  <1>1. PICK gone : End(gone)
    BY DEF KillBridges, KillListeners
  <1>2. /\ at \in {"kill", "ports"} /\ at' \in {"ports", "infra"}
        /\ UNCHANGED <<run, plan, state, step, records, created, pidfile>>
    BY DEF KillBridges, KillListeners
  <1>3. /\ \A p \in alive' : p[2] <= run'
        /\ \A n \in Names : Running(n)' => Running(n) /\ diedAt'[n] = 0
        /\ \A n \in Names : Untouched(n) => Untouched(n)'
    BY <1>t, <1>1, <1>2, EndKeeps
  <1>4. /\ \A n \in Names : Untouched(n)
        /\ pidfile # run /\ step = 1 /\ state # "PIPELINE_READY"
    BY <1>t, <1>2 DEF PlaceFacts, Before
  <1>5. Launched'
    BY <1>t, <1>2, <1>3 DEF Launched
  <1>6. step' = 1 /\ step' \in DOMAIN Infra
    BY <1>2, <1>4, InfraFacts
  <1>7. NothingLeftBehind'
    BY <1>2 DEF NothingLeftBehind
  <1>8. PlaceFacts'
    BY <1>2, <1>3, <1>4, <1>6 DEF PlaceFacts, Before, Starting, Ready
  <1>9. QED BY <1>5, <1>7, <1>8 DEF Rest

\* The last probe has seen to the topic and the bucket.
LEMMA ProbeKeeps ==
  ASSUME StackAssumption, StackInv, ProbeSucceeds
  PROVE  Rest'
  <1>t. TypeOK /\ Launched /\ PlaceFacts
    BY DEF StackInv
  <1>1. /\ at = "infra" /\ UNCHANGED <<run, plan, records, alive, diedAt, pidfile>>
        /\ created' = created \cup Creates(Infra[step])
    BY DEF ProbeSucceeds
  <1>2. /\ \A n \in Names : Untouched(n)
        /\ pidfile # run /\ state # "PIPELINE_READY"
        /\ step \in DOMAIN Infra
        /\ \A j \in 1..step - 1 : Creates(Infra[j]) \subseteq created
    BY <1>t, <1>1 DEF PlaceFacts, Before
  <1>3. \A n \in Names : Untouched(n)' /\ (Running(n)' <=> Running(n))
    BY <1>1, <1>2 DEF Untouched, Running, Own
  <1>4. Launched'
    BY <1>t, <1>1, <1>3 DEF Launched
  <1>5. Len(Infra) \in Nat /\ DOMAIN Infra = 1..Len(Infra) /\ step \in 1..Len(Infra)
    BY <1>2, InfraFacts
  <1>6. \A j \in 1..step : Creates(Infra[j]) \subseteq created'
    BY <1>1, <1>2, <1>5
  <1>7. CASE step < Len(Infra)
    <2>1. step' = step + 1 /\ at' = at /\ state' = state
      BY <1>7 DEF ProbeSucceeds
    <2>2. step' \in DOMAIN Infra /\ \A j \in 1..step' - 1 : Creates(Infra[j]) \subseteq created'
      BY <1>5, <1>6, <1>7, <2>1
    <2>3. NothingLeftBehind'
      BY <1>1, <2>1 DEF NothingLeftBehind
    <2>4. PlaceFacts'
      BY <1>1, <1>2, <1>3, <2>1, <2>2 DEF PlaceFacts, Before, Starting, Ready
    <2>5. QED BY <1>4, <2>3, <2>4 DEF Rest
  <1>8. CASE ~(step < Len(Infra)) /\ mode = "infra"
    <2>1. at' = "off" /\ state' = "INFRASTRUCTURE_READY"
      BY <1>8 DEF ProbeSucceeds, Exit
    <2>2. NothingLeftBehind'
      BY <1>1, <1>2, <1>3 DEF NothingLeftBehind, procs, Untouched
    <2>3. PlaceFacts'
      BY <1>3, <2>1 DEF PlaceFacts, Before, Starting, Ready
    <2>4. QED BY <1>4, <2>2, <2>3 DEF Rest
  <1>9. CASE ~(step < Len(Infra)) /\ mode # "infra"
    <2>1. at' = "popen" /\ state' = "SERVICES_STARTING" /\ step' = 1
      BY <1>9 DEF ProbeSucceeds
    <2>2. \A j \in 1..Len(Infra) : Creates(Infra[j]) \subseteq created'
      BY <1>5, <1>6, <1>9
    <2>3. "topic" \in created' /\ "bucket" \in created'
      BY <2>2, InfraFacts DEF Creates
    <2>4. created' = {"topic", "bucket"}
      BY <1>1, <1>t, <2>3 DEF TypeOK, Creates
    <2>5. step' \in DOMAIN plan' /\ plan'[step'] \in Names /\ plan' = plan
      BY <1>t, <1>1, <2>1, PlanFacts
    <2>6. InOrder'
      BY <1>3, <2>1, <2>4, <2>5 DEF InOrder
    <2>7. Untouched(plan[step])' /\ Polled(step - 1)'
      BY <1>1, <1>3, <2>1, <2>5 DEF Untouched, Running, Own, Polled
    <2>8. NothingLeftBehind'
      BY <2>1 DEF NothingLeftBehind
    <2>9. PlaceFacts'
      BY <2>1, <2>6, <2>7 DEF PlaceFacts, Before, Starting, Ready
    <2>10. QED BY <1>4, <2>8, <2>9 DEF Rest
  <1>10. QED BY <1>7, <1>8, <1>9

\* The current component is the only one that is started.
LEMMA PopenKeeps ==
  ASSUME StackAssumption, StackInv, Popen
  PROVE  Rest'
  <1>t. TypeOK /\ Launched /\ PlaceFacts
    BY DEF StackInv
  <1>1. /\ at = "popen" /\ at' = "record"
        /\ UNCHANGED <<run, plan, state, step, records, created, diedAt, pidfile>>
        /\ alive' = alive \cup {<<plan[step], run>>}
    BY DEF Popen, Own, Current
  <1>2. /\ InOrder /\ Untouched(plan[step]) /\ Polled(step - 1) /\ state # "PIPELINE_READY"
    BY <1>t, <1>1 DEF PlaceFacts, Starting
  <1>3. step \in DOMAIN plan /\ plan[step] \in Names /\ step \in 1..step /\ run \in Nat
    <2>1. step \in DOMAIN plan /\ run \in Nat
      BY <1>t, <1>2 DEF InOrder, TypeOK
    <2>2. QED BY <1>t, <2>1, PlanFacts
  <1>4. \A n \in Names : n # plan[step] => (Running(n)' <=> Running(n))
    BY <1>1 DEF Running, Own
  <1>5. Launched'
    <2>1. \A p \in alive' : p[2] <= run'
      BY <1>t, <1>1, <1>3 DEF Launched
    <2>2. \A n \in Names : Running(n)' => diedAt'[n] = 0
      BY <1>t, <1>1, <1>2, <1>4 DEF Launched, Untouched
    <2>3. QED BY <1>t, <1>1, <2>1, <2>2 DEF Launched
  <1>6. InOrder'
    <2>1. ASSUME NEW n \in Names, \A j \in 1..step : plan[j] # n PROVE Untouched(n)'
      <3>1. n # plan[step] /\ Untouched(n)
        BY <1>2, <1>3, <2>1 DEF InOrder
      <3>2. QED BY <1>1, <1>4, <3>1 DEF Untouched
    <2>2. QED BY <1>1, <1>2, <2>1 DEF InOrder
  <1>7. Polled(step - 1)'
    BY <1>1, <1>2 DEF Polled
  <1>8. NothingLeftBehind'
    BY <1>1 DEF NothingLeftBehind
  <1>9. PlaceFacts'
    BY <1>1, <1>2, <1>6, <1>7 DEF PlaceFacts, Before, Starting, Ready
  <1>10. QED BY <1>5, <1>8, <1>9 DEF Rest

\* The status of the current component changes; nobody else's does.
LEMMA StatusSet ==
  ASSUME StackAssumption, TypeOK, InOrder, NEW st \in {"STARTING", "HEALTHY", "READY"},
         records' = [records EXCEPT ![plan[step]] = st],
         UNCHANGED <<run, plan, created, alive, diedAt>>
  PROVE  /\ records'[plan[step]] = st
         /\ \A j \in 1..step - 1 : records'[plan[j]] = "READY"
         /\ \A n \in Names : (\A j \in 1..step : plan[j] # n) => Untouched(n)'
         /\ \A n \in Names : Running(n)' <=> Running(n)
  <1>1. /\ step \in DOMAIN plan /\ step \in 1..step /\ DOMAIN plan = 1..Len(plan)
        /\ plan[step] \in Names /\ Len(plan) \in Nat /\ step \in Nat
        /\ \A i, j \in DOMAIN plan : plan[i] = plan[j] => i = j
    <2>1. step \in DOMAIN plan
      BY DEF InOrder
    <2>2. QED BY <2>1, PlanFacts
  <1>2. /\ records'[plan[step]] = st
        /\ \A n \in Names : n # plan[step] => records'[n] = records[n]
    BY <1>1 DEF TypeOK
  <1>3. ASSUME NEW j \in 1..step - 1 PROVE records'[plan[j]] = "READY"
    <2>1. j \in DOMAIN plan /\ j # step
      BY <1>1
    <2>2. plan[j] # plan[step] /\ plan[j] \in Names
      BY <1>1, <2>1, PlanFacts
    <2>3. QED BY <1>2, <2>2 DEF InOrder
  <1>4. \A n \in Names : Running(n)' <=> Running(n)
    BY DEF Running, Own
  <1>5. ASSUME NEW n \in Names, \A j \in 1..step : plan[j] # n PROVE Untouched(n)'
    <2>1. n # plan[step] /\ Untouched(n)
      BY <1>1, <1>5 DEF InOrder
    <2>2. QED BY <1>2, <1>4, <2>1 DEF Untouched
  <1>6. QED BY <1>2, <1>3, <1>4, <1>5

\* A component that stays the current one gets another status.
LEMMA StatusKeeps ==
  ASSUME StackAssumption, StackInv, NEW st \in {"STARTING", "HEALTHY"},
         at \in {"record", "get"}, at' \in {"poll", "banner"},
         at' = "banner" => plan[step] = Bridge,
         records' = [records EXCEPT ![plan[step]] = st],
         UNCHANGED <<run, plan, state, step, created, alive, diedAt, pidfile>>
  PROVE  Rest'
  <1>t. TypeOK /\ Launched /\ PlaceFacts
    BY DEF StackInv
  <1>1. InOrder /\ Polled(step - 1) /\ state # "PIPELINE_READY"
    BY <1>t DEF PlaceFacts, Starting
  <1>2. /\ records'[plan[step]] = st
        /\ \A j \in 1..step - 1 : records'[plan[j]] = "READY"
        /\ \A n \in Names : (\A j \in 1..step : plan[j] # n) => Untouched(n)'
        /\ \A n \in Names : Running(n)' <=> Running(n)
    BY <1>t, <1>1, StatusSet
  <1>3. Launched'
    BY <1>t, <1>2 DEF Launched
  <1>4. InOrder'
    BY <1>1, <1>2 DEF InOrder
  <1>5. Polled(step - 1)'
    BY <1>1 DEF Polled
  <1>6. NothingLeftBehind'
    BY DEF NothingLeftBehind
  <1>7. PlaceFacts'
    BY <1>1, <1>2, <1>4, <1>5 DEF PlaceFacts, Before, Starting, Ready
  <1>8. QED BY <1>3, <1>6, <1>7 DEF Rest

LEMMA RecordKeeps ==
  ASSUME StackAssumption, StackInv, Record
  PROVE  Rest'
  <1>1. /\ at = "record" /\ at' \in {"poll", "banner"}
        /\ at' = "banner" => plan[step] = Bridge
        /\ records' = [records EXCEPT ![plan[step]] = "STARTING"]
        /\ UNCHANGED <<run, plan, state, step, created, alive, diedAt, pidfile>>
    BY DEF Record, Current
  <1>2. QED BY <1>1, StatusKeeps

\* The next component's turn, or the end of the start-up.
LEMMA AdvanceKeeps ==
  ASSUME StackAssumption, StackInv, at \in {"get", "stable"}, Polled(step), Advance,
         UNCHANGED <<run, plan, created, alive, diedAt, pidfile>>
  PROVE  Rest'
  <1>t. TypeOK /\ Launched /\ PlaceFacts
    BY DEF StackInv
  <1>1. InOrder /\ state # "PIPELINE_READY"
    BY <1>t DEF PlaceFacts, Starting
  <1>2. state' # "PIPELINE_READY"
    BY <1>1 DEF Advance
  <1>3. /\ records'[plan[step]] = "READY"
        /\ \A j \in 1..step - 1 : records'[plan[j]] = "READY"
        /\ \A n \in Names : (\A j \in 1..step : plan[j] # n) => Untouched(n)'
        /\ \A n \in Names : Running(n)' <=> Running(n)
    <2>1. records' = [records EXCEPT ![plan[step]] = "READY"]
      BY DEF Advance, Current
    <2>2. QED BY <1>t, <1>1, <2>1, StatusSet
  <1>4. /\ step \in 1..Len(plan) /\ DOMAIN plan = 1..Len(plan) /\ Len(plan) \in Nat
        /\ \A i, j \in DOMAIN plan : plan[i] = plan[j] => i = j
        /\ plan \in Seq(Names)
    <2>1. step \in DOMAIN plan
      BY <1>1 DEF InOrder
    <2>2. QED BY <1>t, <2>1, PlanFacts
  <1>5. Launched'
    <2>1. at # "off"
      OBVIOUS
    <2>2. QED BY <1>t, <1>3, <2>1 DEF Launched
  <1>6. NothingLeftBehind'
    BY DEF NothingLeftBehind, Advance
  <1>7. \A j \in 1..step : records'[plan[j]] = "READY"
    BY <1>3, <1>4
  <1>8. CASE step < Len(plan)
    <2>1. step' = step + 1 /\ at' = "popen"
      BY <1>8 DEF Advance
    <2>2. step' \in DOMAIN plan /\ plan[step'] \in Names
      BY <1>4, <1>8, <2>1
    <2>3. \A j \in 1..step' - 1 : records'[plan[j]] = "READY"
      BY <1>4, <1>7, <2>1
    <2>4. \A n \in Names : (\A j \in 1..step' : plan[j] # n) => Untouched(n)'
      BY <1>3, <1>4, <2>1
    <2>5. InOrder'
      BY <1>1, <2>2, <2>3, <2>4 DEF InOrder
    <2>6. \A n \in Names : n = plan[step'] => Untouched(n)'
      <3>1. \A j \in 1..step : plan[j] # plan[step']
        BY <1>4, <2>1, <2>2
      <3>2. QED BY <1>3, <3>1
    <2>7. Untouched(plan[step])'
      BY <2>2, <2>6 DEF Untouched, Running, Own
    <2>8. Polled(step - 1)'
      <3>1. step' - 1 = step
        BY <1>4, <2>1
      <3>2. QED BY <3>1 DEF Polled
    <2>9. PlaceFacts'
      BY <1>2, <2>1, <2>5, <2>7, <2>8 DEF PlaceFacts, Before, Starting, Ready
    <2>10. QED BY <1>5, <1>6, <2>9 DEF Rest
  <1>9. CASE ~(step < Len(plan))
    <2>1. step' = step /\ at' = "write" /\ step = Len(plan)
      <3>1. step = Len(plan)
        <4>1. step \in Nat /\ step <= Len(plan) /\ Len(plan) \in Nat
          BY <1>4
        <4>2. QED BY <1>9, <4>1
      <3>2. QED BY <1>9, <3>1 DEF Advance
    <2>2. InOrder'
      BY <1>1, <1>3, <2>1 DEF InOrder
    <2>3. Polled(step)' /\ step' = Len(plan')
      BY <2>1 DEF Polled
    <2>4. PlaceFacts'
      BY <1>2, <2>1, <2>2, <2>3 DEF PlaceFacts, Before, Starting, Ready
    <2>5. QED BY <1>5, <1>6, <2>4 DEF Rest
  <1>10. QED BY <1>8, <1>9

\* The launcher gives up, is signalled or killed: what it did stays in order.
LEMMA LeaveKeeps ==
  ASSUME StackAssumption, StackInv, at # "off", at' \in {"cleanup", "off"},
         state' \in {state, "FAILED"},
         at' = "off" => \/ exit' = "killed"
                        \/ exit' = "1" /\ at = "infra",
         UNCHANGED <<run, plan, step, records, created, alive, diedAt, pidfile>>
  PROVE  Rest'
  <1>t. TypeOK /\ Launched /\ PlaceFacts
    BY DEF StackInv
  <1>1. (\A n \in Names : Untouched(n)) \/ InOrder
    BY <1>t DEF PlaceFacts, TypeOK, Before, Starting, Ready
  <1>2. (\A n \in Names : Untouched(n)') \/ InOrder'
    BY <1>1, SameKeeps
  <1>3. Launched'
    BY BooksKept
  <1>4. state' = "PIPELINE_READY" => InOrder' /\ step' = Len(plan') /\ Polled(step)'
    <2>1. state = "PIPELINE_READY" => InOrder /\ step = Len(plan) /\ Polled(step)
      BY <1>t DEF PlaceFacts
    <2>2. state' = "PIPELINE_READY" => state = "PIPELINE_READY"
      OBVIOUS
    <2>3. QED BY <2>1, <2>2, SameKeeps
  <1>5. NothingLeftBehind'
    <2>1. CASE at' = "off" /\ exit' = "1" /\ at = "infra"
      <3>1. (\A n \in Names : Untouched(n)) /\ pidfile # run
        BY <1>t, <2>1 DEF PlaceFacts, Before
      <3>2. \A n \in Names : ~Running(n)'
        BY <3>1, SameKeeps DEF Untouched
      <3>3. QED BY <3>1, <3>2 DEF NothingLeftBehind, procs
    <2>2. CASE at' # "off" \/ exit' = "killed"
      BY <2>2 DEF NothingLeftBehind
    <2>3. QED BY <2>1, <2>2
  <1>6. PlaceFacts'
    BY <1>2, <1>4 DEF PlaceFacts, Before, Starting, Ready
  <1>7. QED BY <1>3, <1>5, <1>6 DEF Rest

\* Waiting goes on where it was, or after a failed request with a poll.
LEMMA WaitKeeps ==
  ASSUME StackAssumption, StackInv,
         \/ at' = at
         \/ at = "get" /\ at' = "poll"
         \/ at = "banner" /\ at' = "stable",
         UNCHANGED <<run, plan, state, step, records, created, alive, diedAt, pidfile, exit>>
  PROVE  Rest'
  <1>t. PlaceFacts /\ NothingLeftBehind
    BY DEF StackInv
  <1>1. Launched'
    BY BooksKept
  <1>2. NothingLeftBehind'
    BY <1>t, SameKeeps DEF NothingLeftBehind, procs
  <1>3. /\ (\A n \in Names : Untouched(n))' <=> (\A n \in Names : Untouched(n))
        /\ InOrder' <=> InOrder
        /\ Untouched(plan[step])' <=> Untouched(plan[step])
        /\ Polled(step - 1)' <=> Polled(step - 1)
        /\ Polled(step)' <=> Polled(step)
    BY SameKeeps
  <1>4. PlaceFacts'
    BY <1>t, <1>3 DEF PlaceFacts, Before, Starting, Ready
  <1>5. QED BY <1>1, <1>2, <1>4 DEF Rest

\* Every recorded process runs when poll lets the request through, and nothing
\* but recorded processes was started.
LEMMA PollKeeps ==
  ASSUME StackAssumption, StackInv, Poll
  PROVE  Rest'
  <1>t. TypeOK /\ Launched /\ PlaceFacts
    BY DEF StackInv
  <1>1. at = "poll" /\ UNCHANGED <<run, plan, step, records, created, alive, diedAt, pidfile>>
    BY DEF Poll
  <1>2. CASE ~(\A n \in procs : Running(n))
    <2>1. at' = "cleanup" /\ state' = "FAILED"
      BY <1>2 DEF Poll, GiveUp
    <2>2. QED BY <1>1, <2>1, LeaveKeeps
  <1>3. CASE \A n \in procs : Running(n)
    <2>1. at' = "get" /\ state' = state
      BY <1>3 DEF Poll
    <2>2. InOrder /\ records[plan[step]] # "none" /\ Polled(step - 1) /\ state # "PIPELINE_READY"
      BY <1>t, <1>1 DEF PlaceFacts, Starting
    <2>3. ASSUME NEW n \in Names, diedAt[n] # 0 PROVE FALSE
      <3>1. ~Running(n)
        BY <1>t, <2>3 DEF Launched
      <3>2. records[n] = "none"
        BY <1>3, <3>1 DEF procs
      <3>3. PICK j \in 1..step : plan[j] = n
        BY <2>2, <2>3 DEF InOrder, Untouched
      <3>4. j = step \/ j \in 1..step - 1
        <4>1. step \in Nat
          BY <1>t DEF TypeOK
        <4>2. QED BY <4>1
      <3>5. QED BY <2>2, <3>2, <3>3, <3>4 DEF InOrder
    <2>4. Polled(step) /\ Polled(step)' /\ InOrder' /\ Polled(step - 1)'
      <3>1. Polled(step)
        BY <2>3 DEF Polled
      <3>2. QED BY <1>1, <2>2, <3>1, SameKeeps
    <2>5. Launched'
      BY <1>1, <2>1, BooksKept
    <2>6. NothingLeftBehind'
      BY <2>1 DEF NothingLeftBehind
    <2>7. PlaceFacts'
      BY <1>1, <2>1, <2>2, <2>4 DEF PlaceFacts, Before, Starting, Ready
    <2>8. QED BY <2>5, <2>6, <2>7 DEF Rest
  <1>4. QED BY <1>2, <1>3

LEMMA GetKeeps ==
  ASSUME StackAssumption, StackInv, GetAnswered \/ GetFails
  PROVE  Rest'
  <1>t. PlaceFacts
    BY DEF StackInv
  <1>1. at = "get" /\ UNCHANGED <<run, plan, created, alive, diedAt, pidfile, exit>>
    BY DEF GetAnswered, GetFails
  <1>2. CASE GetFails
    <2>1. /\ UNCHANGED <<step, records>>
          /\ \/ at' = "poll" /\ state' = state
             \/ at' = "cleanup" /\ state' = "FAILED"
      BY <1>2 DEF GetFails, GiveUp
    <2>2. QED BY <1>1, <2>1, WaitKeeps, LeaveKeeps
  <1>3. CASE GetAnswered
    <2>1. CASE /\ records' = [records EXCEPT ![M1] = "HEALTHY"] /\ Current = M1
               /\ at' = "poll" /\ UNCHANGED <<state, step>>
      BY <1>1, <2>1, StatusKeeps DEF Current
    <2>2. CASE Advance
      <3>1. Polled(step)
        BY <1>t, <1>1 DEF PlaceFacts
      <3>2. QED BY <1>1, <2>2, <3>1, AdvanceKeeps
    <2>3. QED BY <1>3, <2>1, <2>2 DEF GetAnswered
  <1>4. QED BY <1>2, <1>3

\* The bridge's start polls nobody else, and counts for nobody else.
LEMMA BridgeKeeps ==
  ASSUME StackAssumption, StackInv, BridgeBanner \/ BridgeStable
  PROVE  Rest'
  <1>t. TypeOK /\ PlaceFacts
    BY DEF StackInv
  <1>1. /\ at \in {"banner", "stable"}
        /\ UNCHANGED <<run, plan, created, alive, diedAt, pidfile, exit>>
    BY DEF BridgeBanner, BridgeStable
  <1>2. CASE BridgeBanner
    <2>1. /\ UNCHANGED <<step, records>>
          /\ \/ at = "banner" /\ at' = "stable" /\ state' = state
             \/ at' = at /\ state' = state
             \/ at' = "cleanup" /\ state' = "FAILED"
      BY <1>2 DEF BridgeBanner, GiveUp
    <2>2. QED BY <1>1, <2>1, WaitKeeps, LeaveKeeps
  <1>3. CASE BridgeStable
    <2>1. CASE at' = at /\ UNCHANGED <<state, step, records>>
      BY <1>1, <2>1, WaitKeeps
    <2>2. CASE at' = "cleanup" /\ state' = "FAILED" /\ UNCHANGED <<step, records>>
      BY <1>1, <2>2, LeaveKeeps
    <2>3. CASE Advance
      <3>1. at = "stable" /\ Polled(step - 1) /\ plan[step] = Bridge
        BY <1>t, <1>3 DEF PlaceFacts, Starting, BridgeStable
      <3>2. \A j \in DOMAIN plan : j <= step /\ plan[j] # Bridge => j <= step - 1
        <4>1. step \in Nat
          BY <1>t DEF TypeOK
        <4>2. \A j \in DOMAIN plan : j \in Nat
          BY <1>t, PlanFacts
        <4>3. QED BY <3>1, <4>1, <4>2
      <3>3. Polled(step)
        BY <3>1, <3>2 DEF Polled
      <3>4. QED BY <1>1, <2>3, <3>1, <3>3, AdvanceKeeps
    <2>4. QED BY <1>3, <2>1, <2>2, <2>3 DEF BridgeStable, GiveUp
  <1>4. QED BY <1>2, <1>3

LEMMA AnnounceKeeps ==
  ASSUME StackAssumption, StackInv, Announce
  PROVE  Rest'
  <1>t. PlaceFacts
    BY DEF StackInv
  <1>1. /\ at = "write" /\ pidfile' = run /\ state' = "PIPELINE_READY"
        /\ at' = "supervise" \/ (at' = "off" /\ exit' = "left")
        /\ UNCHANGED <<run, plan, step, records, created, alive, diedAt>>
    BY DEF Announce, Exit
  <1>2. InOrder /\ step = Len(plan) /\ Polled(step)
    BY <1>t, <1>1 DEF PlaceFacts
  <1>3. InOrder' /\ step' = Len(plan') /\ Polled(step)'
    BY <1>1, <1>2, SameKeeps
  <1>4. Launched'
    BY <1>1, BooksKept
  <1>5. NothingLeftBehind'
    BY <1>1 DEF NothingLeftBehind
  <1>6. PlaceFacts'
    BY <1>1, <1>3 DEF PlaceFacts, Before, Starting, Ready
  <1>7. QED BY <1>4, <1>5, <1>6 DEF Rest

\* The launcher leaves once no recorded process runs.
LEMMA CleanupKeeps ==
  ASSUME StackAssumption, StackInv, cleanup
  PROVE  Rest'
  <1>t. TypeOK /\ Launched /\ PlaceFacts
    BY DEF StackInv
  <1>1. /\ at = "cleanup" /\ at' = "off" /\ pidfile' = 0
        /\ \A n \in procs : ~Running(n)
        /\ UNCHANGED <<run, plan, state, step, records, created, alive, diedAt>>
    BY DEF cleanup, Exit
  <1>2. run \in Nat
    BY <1>t DEF TypeOK
  <1>3. Launched'
    BY <1>t, <1>1, <1>2, SameKeeps DEF Launched
  <1>4. NothingLeftBehind'
    <2>1. procs' = procs /\ \A n \in procs : n \in Names
      BY <1>1 DEF procs
    <2>2. \A n \in procs' : ~Running(n)'
      BY <1>1, <2>1, SameKeeps
    <2>3. QED BY <1>1, <2>2 DEF NothingLeftBehind
  <1>5. state' = "PIPELINE_READY" => InOrder' /\ step' = Len(plan') /\ Polled(step)'
    <2>1. state = "PIPELINE_READY" => InOrder /\ step = Len(plan) /\ Polled(step)
      BY <1>t DEF PlaceFacts
    <2>2. QED BY <1>1, <2>1, SameKeeps
  <1>6. (\A n \in Names : Untouched(n)') \/ InOrder'
    BY <1>t, <1>1, SameKeeps DEF PlaceFacts
  <1>7. PlaceFacts'
    BY <1>1, <1>5, <1>6 DEF PlaceFacts, Before, Starting, Ready
  <1>8. QED BY <1>3, <1>4, <1>7 DEF Rest
-----------------------------------------------------------------------------
LEMMA StackInvInit ==
  ASSUME StackAssumption, StackInit
  PROVE  StackInv
  <1>1. \A n \in Names : Untouched(n)
    BY DEF StackInit, Untouched, Running
  <1>2. Launched
    BY DEF StackInit, Launched, Running
  <1>3. PlaceFacts /\ NothingLeftBehind
    BY <1>1 DEF StackInit, PlaceFacts, NothingLeftBehind, Before, Starting, Ready
  <1>4. QED BY <1>2, <1>3, StackTypesInit DEF StackInv

LEMMA StackInvNext ==
  ASSUME StackAssumption, StackInv, [StackNext]_stackVars
  PROVE  StackInv'
  <1>1. TypeOK'
    BY StackTypesNext DEF StackInv
  <1> SUFFICES Rest'
    BY <1>1 DEF StackInv, Rest
  <1>2. ASSUME NEW m \in {"supervise", "check", "infra"}, NEW ui \in BOOLEAN, Launch(m, ui)
        PROVE  Rest'
    BY <1>2, LaunchKeeps
  <1>3. CASE KillBridges \/ KillListeners
    BY <1>3, KillKeeps
  <1>4. CASE StopBridges \/ StopListeners
    BY <1>4, EnvironmentEnds DEF StopBridges, StopListeners
  <1>5. CASE ProbeSucceeds
    BY <1>5, ProbeKeeps
  <1>6. CASE ProbeFails
    <2>1. /\ at = "infra"
          /\ UNCHANGED <<run, plan, step, records, created, alive, diedAt, pidfile>>
          /\ \/ at' = at /\ UNCHANGED <<state, exit>>
             \/ at' = "off" /\ exit' = "1" /\ state' = "FAILED"
      BY <1>6 DEF ProbeFails, Exit
    <2>2. QED BY <2>1, WaitKeeps, LeaveKeeps
  <1>7. CASE Popen
    BY <1>7, PopenKeeps
  <1>8. CASE Record
    BY <1>8, RecordKeeps
  <1>9. CASE Poll
    BY <1>9, PollKeeps
  <1>10. CASE GetAnswered \/ GetFails
    BY <1>10, GetKeeps
  <1>11. CASE BridgeBanner \/ BridgeStable
    BY <1>11, BridgeKeeps
  <1>12. CASE Announce
    BY <1>12, AnnounceKeeps
  <1>13. CASE Supervise
    BY <1>13, LeaveKeeps DEF Supervise
  <1>14. CASE Signal
    BY <1>14, LeaveKeeps DEF Signal
  <1>15. CASE cleanup
    BY <1>15, CleanupKeeps
  <1>19. CASE Terminate
    BY <1>19, EnvironmentEnds DEF Terminate
  <1>16. CASE Environment
    <2>1. ASSUME NEW p \in alive, Bind(p) PROVE Rest'
      BY <2>1, WaitKeeps DEF Bind, launcher
    <2>2. ASSUME NEW p \in alive, PortTaken(p) PROVE Rest'
      BY <2>2, EnvironmentEnds DEF PortTaken
    <2>3. ASSUME NEW p \in alive, Dies(p) PROVE Rest'
      BY <2>3, EnvironmentEnds DEF Dies
    <2>4. ASSUME NEW c \in Range(Infra), StartContainer(c) PROVE Rest'
      BY <2>4, WaitKeeps DEF StartContainer, launcher
    <2>5. ASSUME NEW c \in Range(Infra), Outage(c) PROVE Rest'
      BY <2>5, WaitKeeps DEF Outage, launcher
    <2>6. CASE LauncherKilled
      BY <2>6, LeaveKeeps DEF LauncherKilled, Exit
    <2>7. QED BY <1>16, <2>1, <2>2, <2>3, <2>4, <2>5, <2>6 DEF Environment
  <1>17. CASE UNCHANGED stackVars
    BY <1>17, WaitKeeps DEF stackVars, launcher
  <1>18. QED
    BY <1>2, <1>3, <1>4, <1>5, <1>6, <1>7, <1>8, <1>9, <1>10, <1>11, <1>12, <1>13,
       <1>14, <1>15, <1>16, <1>17, <1>19 DEF StackNext, Launcher

\* The inductive invariant of run_stack.py: what was started, recorded and polled
\* at each place of the launcher.
THEOREM StackInvariant == StackSpec => []StackInv
  <1>1. StackInit => StackInv
    BY StackInvInit, StackAssumption
  <1>2. StackInv /\ [StackNext]_stackVars => StackInv'
    BY StackInvNext, StackAssumption
  <1>3. QED BY <1>1, <1>2, PTL DEF StackSpec

LEMMA OrderFollows ==
  ASSUME StackAssumption, StackInv
  PROVE  StartedInOrder
  <1>t. TypeOK /\ PlaceFacts /\ Launched
    BY DEF StackInv
  <1>0. (\A n \in Names : Untouched(n)) \/ InOrder
    BY <1>t DEF PlaceFacts, TypeOK, Before, Starting, Ready
  <1>1. ASSUME NEW i \in DOMAIN plan, Running(plan[i])
        PROVE  /\ created = {"topic", "bucket"}
               /\ \A j \in 1..i - 1 : records[plan[j]] = "READY"
    <2>1. plan[i] \in Names /\ i \in Nat /\ step \in Nat
      <3>1. step \in Nat
        BY <1>t DEF TypeOK
      <3>2. QED BY <1>t, <3>1, PlanFacts
    <2>2. InOrder /\ ~(\A j \in 1..step : plan[j] # plan[i])
      BY <1>0, <1>1, <2>1 DEF Untouched, InOrder
    <2>3. PICK j \in 1..step : plan[j] = plan[i]
      BY <2>2
    <2>4. j = i
      <3>1. j \in DOMAIN plan
        <4>1. step \in DOMAIN plan
          BY <2>2 DEF InOrder
        <4>2. QED BY <1>t, <4>1, PlanFacts
      <3>2. QED BY <1>t, <2>3, <3>1, PlanFacts
    <2>5. \A k \in 1..i - 1 : k \in 1..step - 1
      BY <2>1, <2>3, <2>4
    <2>6. QED BY <2>2, <2>5 DEF InOrder
  <1>2. QED BY <1>1 DEF StartedInOrder

LEMMA DeathsFollow ==
  ASSUME StackAssumption, StackInv
  PROVE  DeathsNoticed
  <1>t. TypeOK /\ PlaceFacts
    BY DEF StackInv
  <1> SUFFICES ASSUME state = "PIPELINE_READY", NEW n \in procs, diedAt[n] # 0
               PROVE  diedAt[n] >= LastPoller
    BY DEF DeathsNoticed
  <1>1. Polled(step) /\ step = Len(plan) /\ n \in Names
    BY <1>t DEF PlaceFacts, procs
  <1>2. DOMAIN plan = 1..Len(plan) /\ Len(plan) \in Nat
    BY <1>t, PlanFacts
  <1>3. \E i \in DOMAIN plan : /\ plan[i] # Bridge
                             /\ \A j \in DOMAIN plan : plan[j] # Bridge => j <= i
    BY <1>t, PlanFacts
  <1>4. LastPoller \in DOMAIN plan /\ plan[LastPoller] # Bridge
    BY <1>3 DEF LastPoller
  <1>5. LastPoller <= diedAt[n]
    BY <1>1, <1>2, <1>4 DEF Polled
  <1>6. QED
    <2>1. diedAt[n] \in Nat
      BY <1>t, <1>1 DEF TypeOK
    <2>2. QED BY <1>2, <1>4, <1>5, <2>1

\* start_services: whatever dies, is stopped or restarted meanwhile, a component
\* runs only after the infrastructure is provided and its predecessors are READY.
THEOREM ComponentsStartInOrder == StackSpec => []StartedInOrder
  <1>1. StackInv => StartedInOrder
    BY OrderFollows, StackAssumption
  <1>2. QED BY <1>1, StackInvariant, PTL

\* cleanup: a launch that ends leaves no recorded process and no PID file.
THEOREM NothingStaysBehind == StackSpec => []NothingLeftBehind
  <1>1. StackInv => NothingLeftBehind
    BY DEF StackInv
  <1>2. QED BY <1>1, StackInvariant, PTL

\* wait_for_http: PIPELINE_READY is not announced over a component that died
\* before the last wait that polls all processes.
THEOREM DeathsAreNoticed == StackSpec => []DeathsNoticed
  <1>1. StackInv => DeathsNoticed
    BY DeathsFollow, StackAssumption
  <1>2. QED BY <1>1, StackInvariant, PTL
=============================================================================
