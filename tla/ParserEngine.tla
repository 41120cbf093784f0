----------------------------- MODULE ParserEngine ----------------------------
(***************************************************************************)
(* M2: the classifier, the in-memory parser registry and the requests that *)
(* use it.  The endpoints are plain functions, so FastAPI runs each        *)
(* request in a thread of its own; the registry has no lock.  A            *)
(* definition is a shared, mutable object: the store and the candidate     *)
(* lists of running requests refer to it, and a lifecycle change writes    *)
(* its status in place.                                                    *)
(*                                                                         *)
(* Objects are numbered in the order of their creation (heap).  The text   *)
(* of a payload is the set of its signals; what a Grok pattern extracts is *)
(* left out, whether it matches is kept.                                   *)
(***************************************************************************)
EXTENDS Integers, Sequences, FiniteSets, SequencesExt

CONSTANTS
  Global,      \* the owner of the baseline
  Tenants,     \* the other owners
  Ids,         \* parser ids
  MaxVersion,  \* bound: versions are 1..MaxVersion
  MaxObjects,  \* bound: definitions ever created
  MaxPriority, \* bound: priorities are 1..MaxPriority
  Threads,     \* requests
  Callers,     \* AuthContexts: [tenant, roles, system]
  Envelopes,   \* envelopes: [tenant, signals, hits, nested]
  Definitions, \* definitions a client may send: [owner, id, version, vendor,
               \* product, formats, priority, accepts, sound]
  Baseline     \* the YAML files of the parser directory, in order

\* The elements of a sequence that are in S.
Kept(s, S) ==
  FlattenSeq([k \in DOMAIN s |-> IF s[k] \in S THEN <<s[k]>> ELSE <<>>])

Owners == Tenants \cup {Global}
Versions == 1..MaxVersion

ASSUME ParserAssumption ==
  /\ Global \notin Tenants /\ MaxVersion \in Nat \ {0}
  /\ MaxObjects \in Nat /\ MaxPriority \in Nat
  /\ Baseline \in Seq(Definitions) /\ Len(Baseline) <= MaxObjects
  /\ \A d \in Definitions : /\ d.owner \in Owners /\ d.id \in Ids
                            /\ d.version \in Versions
                            /\ d.priority \in 1..MaxPriority
                            /\ d.sound \in BOOLEAN
  /\ \A c \in Callers : c.tenant \in Owners /\ c.system \in BOOLEAN
  /\ \A e \in Envelopes : e.tenant \in Owners
-----------------------------------------------------------------------------
(* The classifier. *)

\* FormatDetector.detect_format: the first test that succeeds.
FormatOrder == <<"cef", "leef", "json", "xml", "syslog", "kv", "csv">>

detect_format(signals) ==
  LET found == SelectSeq(FormatOrder, LAMBDA f : f \in signals)
  IN  IF found = <<>> THEN "plain_text" ELSE Head(found)

\* VENDOR_SIGNATURES: vendor, product and the number of keywords, in order.
Signatures == << [vendor |-> "Cisco",     product |-> "ASA",        words |-> 6],
                 [vendor |-> "Fortinet",  product |-> "FortiGate",  words |-> 5],
                 [vendor |-> "Palo Alto", product |-> "PAN-OS",     words |-> 5],
                 [vendor |-> "Linux",     product |-> "Syslog",     words |-> 4],
                 [vendor |-> "Windows",   product |-> "EventLog",   words |-> 3],
                 [vendor |-> "AWS",       product |-> "CloudTrail", words |-> 3] >>

\* Scores are in 1/6000: the keyword share of every signature is then whole.
Unit == 60
Least(a, b) == IF a < b THEN a ELSE b

\* 0.6 for a pattern; up to 0.4 for keywords, at least 0.2 for one.
Score(sig, hit) ==
  (IF hit.pattern THEN 60 * Unit ELSE 0)
  + Least(40 * Unit, (60 * Unit * hit.words) \div sig.words
                     + (IF hit.words > 0 THEN 20 * Unit ELSE 0))

NoHit == [pattern |-> FALSE, words |-> 0]
HitOf(hits, sig) == IF sig.vendor \in DOMAIN hits THEN hits[sig.vendor]
                                                  ELSE NoHit
Unknown == [vendor |-> "Unknown", product |-> "Unknown", score |-> 0]

\* detect_source: the first signature with the highest score of at least 0.25.
detect_source(hits) ==
  LET score == [i \in DOMAIN Signatures |->
                  Score(Signatures[i], HitOf(hits, Signatures[i]))]
      best == CHOOSE i \in DOMAIN score :
                \A j \in DOMAIN score : \/ score[j] < score[i]
                                        \/ score[j] = score[i] /\ i <= j
  IN  IF score[best] < 25 * Unit THEN Unknown
      ELSE [vendor  |-> Signatures[best].vendor,
            product |-> Signatures[best].product,
            score   |-> Least(100 * Unit, score[best])]

FormatConfidence(f) ==
  CASE f \in {"json", "cef", "leef", "xml"} -> 95
    [] f \in {"syslog", "kv", "csv"}        -> 85
    [] OTHER                                -> 50

\* Classifier.classify.
classify(signals, hits) ==
  LET f == detect_format(signals)
      s == detect_source(hits)
  IN  [format |-> f, vendor |-> s.vendor, product |-> s.product,
       confidence |-> IF s.vendor # "Unknown"
                      THEN (40 * FormatConfidence(f) + (60 * s.score) \div Unit)
                             \div 100
                      ELSE (80 * FormatConfidence(f)) \div 100]
-----------------------------------------------------------------------------
VARIABLES
  heap,     \* the definition objects, in order of creation
  active,   \* objects whose status is ACTIVE
  slot,     \* slot[o][i][v]: the object stored there, 0 for none
  order,    \* order[o]: the parser ids of owner o, in insertion order
  made,     \* made[o]: dictionaries created for owner o so far, 0 for none
  by,       \* by[x]: the caller that registered object x
  pc,       \* pc[t]: where the request is
  req,      \* req[t]: its caller, kind, event or definition, id and version
  stage,    \* stage[t]: which list of find_parser it is at
  walk,     \* walk[t]: the dictionary list_for_tenant iterates over: its place
            \* among Dictionaries, which one it is, its size at the beginning
            \* and the ids left
  todo,     \* todo[t]: parsers listed so far, then candidates still to be tried
  chosen,   \* chosen[t]: object in use, 0 for none, -1 for a built-in parser
  result,   \* result[t]: the answer
  steady    \* steady[t]: pairs <<step, object>> eligible for the event at every
            \* moment since the request began, up to its choice

store == <<heap, active, slot, order, made, by>>
request == <<pc, req, stage, walk, todo, chosen, result>>
parserVars == <<store, request, steady>>

NoRequest == [kind |-> "none"]
StartUp == [tenant |-> Global, roles |-> {}, system |-> TRUE]
NoWalk == [shelf |-> 0, made |-> 0, size |-> 0, left |-> <<>>]
Objects == 1..Len(heap)
BuiltIn == -1

\* What a request was called with.
Requests ==
  {NoRequest}
  \cup [kind : {"parse", "replay"}, caller : Callers, event : Envelopes]
  \cup [kind : {"register"}, caller : Callers, definition : Definitions]
  \cup [kind : {"list", "get", "enable", "disable"}, caller : Callers]

StoreTypes ==
  /\ heap \in Seq(Definitions) /\ Len(heap) <= MaxObjects
  /\ active \in SUBSET Objects
  /\ by \in Seq(Callers \cup {StartUp}) /\ Len(by) = Len(heap)
  /\ slot \in [Owners -> [Ids -> [Versions -> 0..Len(heap)]]]
  /\ order \in [Owners -> Seq(Ids)] /\ made \in [Owners -> Nat]

RequestTypes ==
  /\ pc \in [Threads -> {"idle", "list", "iterate", "try", "parse", "save",
                         "tenant", "id", "version", "set", "done"}]
  /\ req \in [Threads -> Requests]
  /\ stage \in [Threads -> 0..4]
  /\ walk \in [Threads -> [shelf : 0..2, made : Nat, size : Nat, left : Seq(Ids)]]
  /\ todo \in [Threads -> Seq(Objects)]
  /\ chosen \in [Threads -> {BuiltIn} \cup 0..Len(heap)]
  /\ result \in [Threads -> {"none", "refused", "missing", "error", "ok",
                             "PARSED", "FAILED", "UNPARSED", "skipped"}]

\* The type invariant.
ParserTypeOK ==
  /\ StoreTypes /\ RequestTypes
  /\ steady \in [Threads -> SUBSET ((1..3) \X Objects)]
-----------------------------------------------------------------------------
(* ParserRepository. *)

Holds(o, i) == \E v \in Versions : slot[o][i][v] # 0
Newest(S) == CHOOSE v \in S : \A w \in S : w <= v

\* _get_highest_active_version: if none is active, the newest of all.
HighestActive(o, i) ==
  LET held == {v \in Versions : slot[o][i][v] # 0}
      live == {v \in held : slot[o][i][v] \in active}
  IN  slot[o][i][Newest(IF live # {} THEN live ELSE held)]

\* Mutant: without a parser of one's own, any tenant's will do.
GetAnywhere(i, v, tenant) ==
  LET able == {o \in Owners : Holds(o, i)}
  IN  IF able = {} THEN 0
      ELSE LET o == IF tenant \in able THEN tenant
                    ELSE CHOOSE p \in able : Global \in able \ {p} \/ able = {p}
           IN  IF v = 0 THEN HighestActive(o, i) ELSE slot[o][i][v]

\* get: the tenant's store if it holds the id, else the baseline.
Get(i, v, tenant) ==
  LET From(o) == IF v = 0 THEN HighestActive(o, i) ELSE slot[o][i][v]
  IN  IF Holds(tenant, i) THEN From(tenant)
      ELSE IF Holds(Global, i) THEN From(Global) ELSE 0

\* The list is sorted by priority (the sort is stable).
ByPriority(s) ==
  FlattenSeq([p \in 1..MaxPriority |->
                Kept(s, {x \in Objects : heap[x].priority = p})])

\* save looks for the dictionaries it needs before it makes one: what the store
\* lacks, "version" if only the entry itself.
Lacks(d) == IF made[d.owner] = 0 THEN "tenant"
            ELSE IF ~Holds(d.owner, d.id) THEN "id" ELSE "version"

\* save stores x, after making the dictionaries it found lacking: a new one of
\* the owner, or of the id, is empty but for x, whatever was stored meanwhile.
Stored(d, x, lack) ==
  LET ids == IF lack = "tenant" THEN [i \in Ids |-> [v \in Versions |-> 0]]
             ELSE slot[d.owner]
      versions == IF lack = "version" THEN ids[d.id] ELSE [v \in Versions |-> 0]
  IN  /\ slot' = [slot EXCEPT ![d.owner] =
                    [ids EXCEPT ![d.id] = [versions EXCEPT ![d.version] = x]]]
      /\ order' = [order EXCEPT ![d.owner] =
                     IF lack = "tenant" THEN <<d.id>>
                     ELSE IF Holds(d.owner, d.id) THEN @ ELSE Append(@, d.id)]
      /\ made' = [made EXCEPT ![d.owner] = IF lack = "tenant" THEN @ + 1 ELSE @]
-----------------------------------------------------------------------------
(* find_parser. *)

Classification == [e \in Envelopes |-> classify(e.signals, e.hits)]
Class(e) == Classification[e]

\* What the three loops over registered parsers ask of a definition.
Matches(s, d, e) ==
  LET c == Class(e)
  IN  \/ /\ s = 1
         /\ d.vendor = c.vendor \/ c.vendor = "Unknown"
         /\ d.product \in {c.product, "Generic"} \/ c.product = "Unknown"
         /\ {c.format, "syslog"} \cap d.formats # {}
      \/ /\ s = 2
         /\ d.vendor = c.vendor
         /\ d.product \in {c.product, "Generic"}
         /\ c.format \in d.formats
      \/ s = 3 /\ d.vendor = "Generic" /\ c.format \in d.formats

\* GrokParser.can_parse, with the payload limit.
CanParse(d, e) == e \in d.accepts

\* Mutant: the generic step leaves the baseline out.
DictionariesOwn(s, r) ==
  LET tenant == IF r.kind = "parse" THEN r.event.tenant ELSE r.caller.tenant
      own == IF tenant = Global THEN <<>> ELSE <<tenant>>
  IN  IF r.kind = "parse" /\ s # 2 THEN own ELSE <<Global>>

\* The dictionaries list_for_tenant goes through: in the three steps of
\* find_parser, in list_parsers, and when the registry is counted.  A step that
\* does not apply lists nothing.
Dictionaries(s, r) ==
  LET tenant == IF r.kind = "parse" THEN r.event.tenant ELSE r.caller.tenant
      own == IF tenant = Global THEN <<>> ELSE <<tenant>>
  IN  IF r.kind = "parse" /\ s = 1 THEN own
      ELSE IF r.kind = "parse" /\ s = 2 /\ Class(r.event).vendor = "Unknown"
      THEN <<>>
      ELSE IF r.kind = "list" \/ (r.kind = "parse" /\ s = 3)
      THEN own \o <<Global>> ELSE <<Global>>

Takes(s, x, e) == x \in active /\ Matches(s, heap[x], e) /\ CanParse(heap[x], e)

\* What find_parser promises: at each step, the stored parsers that are the
\* highest active version of their id for their owner and take the event; at
\* step 3 a tenant's active version hides the baseline's.
Live(o, i) == {v \in Versions : slot[o][i][v] \in active}

EligibleAt(s, x, e) ==
  LET d == heap[x]
  IN  /\ \/ s = 1 /\ d.owner = e.tenant /\ e.tenant # Global
         \/ s = 2 /\ d.owner = Global /\ Class(e).vendor # "Unknown"
         \/ s = 3 /\ d.owner = e.tenant
         \/ s = 3 /\ d.owner = Global /\ Live(e.tenant, d.id) = {}
      /\ slot[d.owner][d.id][d.version] = x
      /\ \A v \in Live(d.owner, d.id) : v <= d.version
      /\ Matches(s, d, e) /\ CanParse(d, e)

Eligible(e) == {p \in (1..3) \X active : EligibleAt(p[1], p[2], e)}

\* CEFParser, LEEFParser, GenericJSONParser, GenericKVParser: the detected
\* format, or a payload that holds one of theirs inside.
BuiltInFits(e) ==
  \/ Class(e).format \in {"cef", "leef", "json", "kv"}
  \/ e.nested \cap {"cef", "leef", "json", "kv"} # {}
-----------------------------------------------------------------------------
\* load_from_directory: files that fail validation are left out, a later file
\* of the same id and version replaces an earlier one.
Loaded == Kept(Baseline, {d \in Definitions : d.sound})

ParserInit ==
  /\ heap = Loaded
  /\ active = 1..Len(Loaded)
  /\ slot = [o \in Owners |-> [i \in Ids |-> [v \in Versions |->
               LET at == {x \in 1..Len(Loaded) :
                            /\ Loaded[x].owner = o /\ Loaded[x].id = i
                            /\ Loaded[x].version = v}
               IN  IF at = {} THEN 0 ELSE Newest(at)]]]
  /\ order = [o \in Owners |->
                LET first == {x \in 1..Len(Loaded) :
                                /\ Loaded[x].owner = o
                                /\ \A y \in 1..x - 1 :
                                     \/ Loaded[y].owner # o
                                     \/ Loaded[y].id # Loaded[x].id}
                    mine == Kept([x \in 1..Len(Loaded) |-> x], first)
                IN  [k \in DOMAIN mine |-> Loaded[mine[k]].id]]
  /\ made = [o \in Owners |->
               IF \E x \in 1..Len(Loaded) : Loaded[x].owner = o THEN 1 ELSE 0]
  /\ by = [x \in 1..Len(Loaded) |-> StartUp]
  /\ pc = [t \in Threads |-> "idle"]
  /\ req = [t \in Threads |-> NoRequest]
  /\ stage = [t \in Threads |-> 0]
  /\ walk = [t \in Threads |-> NoWalk]
  /\ todo = [t \in Threads |-> <<>>]
  /\ chosen = [t \in Threads |-> 0]
  /\ result = [t \in Threads |-> "none"]
  /\ steady = [t \in Threads |-> {}]

\* What every request still finds for its event after this step.
Observe ==
  LET now == [e \in Envelopes |-> Eligible(e)]'
      watching(t) == pc'[t] \notin {"parse", "done"} /\ req'[t].kind = "parse"
  IN  steady' = [t \in Threads |->
        IF ~watching(t) THEN steady[t]
        ELSE IF pc[t] = "idle" THEN now[req'[t].event]
        ELSE IF UNCHANGED store THEN steady[t]
        ELSE now[req'[t].event] \cap steady[t]]

HasRole(c, r) == c.system \/ "admin" \in c.roles \/ r \in c.roles

Begin(t, r, where, obj) ==
  /\ pc[t] = "idle"
  /\ pc' = [pc EXCEPT ![t] = where]
  /\ req' = [req EXCEPT ![t] = r]
  /\ stage' = [stage EXCEPT ![t] = IF r.kind = "parse" THEN 1 ELSE 4]
  /\ chosen' = [chosen EXCEPT ![t] = obj]
  /\ UNCHANGED <<store, walk, todo>>

Answer(t, a) ==
  pc' = [pc EXCEPT ![t] = "done"] /\ result' = [result EXCEPT ![t] = a]

\* parse_event: 403 unless the caller may act for the envelope's tenant.
parse_event(t, c, e) ==
  /\ HasRole(c, "ingest") /\ (c.system \/ c.tenant = e.tenant)
  /\ Begin(t, [kind |-> "parse", caller |-> c, event |-> e], "list", 0)
  /\ UNCHANGED result

\* list_parsers.
list_parsers(t, c) ==
  /\ Begin(t, [kind |-> "list", caller |-> c], "list", 0)
  /\ UNCHANGED result

\* Mutant: whoever is authenticated may register for anyone.
MayRegisterAny(c, d) == HasRole(c, "studio") /\ d.sound

\* register_parser: the tenant boundary, validation and a test compilation.
MayRegister(c, d) ==
  /\ HasRole(c, "studio") /\ d.sound
  /\ c.system \/ c.tenant = Global \/ d.owner = c.tenant

register_parser(t, c, d) ==
  /\ MayRegister(c, d) /\ Len(heap) < MaxObjects
  /\ Begin(t, [kind |-> "register", caller |-> c, definition |-> d], "save", 0)
  /\ UNCHANGED result

\* disable_parser and enable_parser find their object first.
Lifecycle(t, c, kind, i, v) ==
  /\ HasRole(c, "admin")
  /\ Begin(t, [kind |-> kind, caller |-> c], "set", Get(i, v, c.tenant))
  /\ UNCHANGED result

\* get_parser.
get_parser(t, c, i, v) ==
  /\ Begin(t, [kind |-> "get", caller |-> c], "done", Get(i, v, c.tenant))
  /\ result' = [result EXCEPT ![t] = IF Get(i, v, c.tenant) = 0
                                     THEN "missing" ELSE "ok"]

\* ReplayService.replay_events, for one event: a disabled parser is used as
\* well; an event of another tenant is skipped.
replay_events(t, c, i, v, e) ==
  /\ HasRole(c, "analyst")
  /\ Begin(t, [kind |-> "replay", caller |-> c, event |-> e], "parse",
           Get(i, v, c.tenant))
  /\ UNCHANGED result

\* 401, 403, 404, 422: nothing is touched.
Refuse(t) ==
  /\ pc[t] = "idle" /\ Answer(t, "refused")
  /\ UNCHANGED <<store, req, stage, walk, todo, chosen>>

\* list_for_tenant: an iteration over the n-th dictionary begins.
Opened(t, n) ==
  LET o == Dictionaries(stage[t], req[t])[n]
  IN  walk' = [walk EXCEPT ![t] = [shelf |-> n, made |-> made[o],
                                   size |-> Len(order[o]), left |-> order[o]]]

ListBegin(t) ==
  /\ pc[t] = "list"
  /\ todo' = [todo EXCEPT ![t] = <<>>]
  /\ IF Dictionaries(stage[t], req[t]) = <<>>
     THEN pc' = [pc EXCEPT ![t] = "try"] /\ UNCHANGED walk
     ELSE pc' = [pc EXCEPT ![t] = "iterate"] /\ Opened(t, 1)
  /\ UNCHANGED <<store, req, stage, chosen, result>>

\* The dictionary under iteration; it has grown if it is still the owner's.
Shelf(t) == Dictionaries(stage[t], req[t])[walk[t].shelf]
Grown(t) == made[Shelf(t)] = walk[t].made /\ Len(order[Shelf(t)]) # walk[t].size

\* One id: its highest active version, looked up in the store as it is now; in
\* the baseline, which comes second, only if no parser was listed for it.
ListStep(t) ==
  /\ pc[t] = "iterate" /\ ~Grown(t) /\ walk[t].left # <<>>
  /\ LET i == Head(walk[t].left)
         x == Get(i, 0, Shelf(t))
         seen == walk[t].shelf = 2
                   /\ \E k \in DOMAIN todo[t] : heap[todo[t][k]].id = i
     IN  todo' = [todo EXCEPT ![t] = IF x \in active /\ ~seen THEN Append(@, x)
                                     ELSE @]
  /\ walk' = [walk EXCEPT ![t].left = Tail(@)]
  /\ UNCHANGED <<store, pc, req, stage, chosen, result>>

\* The tenant's dictionary is done, the baseline is next.
ListNext(t) ==
  /\ pc[t] = "iterate" /\ ~Grown(t) /\ walk[t].left = <<>>
  /\ walk[t].shelf < Len(Dictionaries(stage[t], req[t]))
  /\ Opened(t, walk[t].shelf + 1)
  /\ UNCHANGED <<store, pc, req, stage, todo, chosen, result>>

\* The list is complete, for find_parser or for the answer.
ListEnd(t) ==
  /\ pc[t] = "iterate" /\ ~Grown(t) /\ walk[t].left = <<>>
  /\ walk[t].shelf = Len(Dictionaries(stage[t], req[t]))
  /\ IF req[t].kind = "parse"
     THEN /\ todo' = [todo EXCEPT ![t] = ByPriority(@)]
          /\ pc' = [pc EXCEPT ![t] = "try"] /\ UNCHANGED result
     ELSE Answer(t, "ok") /\ todo' = [todo EXCEPT ![t] = <<>>]
  /\ walk' = [walk EXCEPT ![t] = NoWalk]
  /\ UNCHANGED <<store, req, stage, chosen>>

\* A parser id was added meanwhile: "dictionary changed size during
\* iteration", and the request ends in a 500.
ListFails(t) ==
  /\ pc[t] = "iterate" /\ Grown(t)
  /\ Answer(t, "error")
  /\ walk' = [walk EXCEPT ![t] = NoWalk]
  /\ todo' = [todo EXCEPT ![t] = <<>>]
  /\ UNCHANGED <<store, req, stage, chosen>>

\* One candidate: its status is read again.
Try(t) ==
  /\ pc[t] = "try" /\ todo[t] # <<>>
  /\ IF Takes(stage[t], Head(todo[t]), req[t].event)
     THEN /\ chosen' = [chosen EXCEPT ![t] = Head(todo[t])]
          /\ pc' = [pc EXCEPT ![t] = "parse"]
          /\ todo' = [todo EXCEPT ![t] = <<>>]
     ELSE todo' = [todo EXCEPT ![t] = Tail(@)] /\ UNCHANGED <<pc, chosen>>
  /\ UNCHANGED <<store, req, stage, walk, result>>

\* The next list, the built-in parsers after the last one, or UNPARSED.
NextStage(t) ==
  /\ pc[t] = "try" /\ todo[t] = <<>>
  /\ IF stage[t] < 3
     THEN /\ stage' = [stage EXCEPT ![t] = @ + 1]
          /\ pc' = [pc EXCEPT ![t] = "list"] /\ UNCHANGED <<chosen, result>>
     ELSE /\ UNCHANGED stage
          /\ IF BuiltInFits(req[t].event)
             THEN /\ chosen' = [chosen EXCEPT ![t] = BuiltIn]
                  /\ pc' = [pc EXCEPT ![t] = "parse"] /\ UNCHANGED result
             ELSE Answer(t, "UNPARSED") /\ UNCHANGED chosen
  /\ UNCHANGED <<store, req, walk, todo>>

\* The parser runs on the event: fields, an error or a timeout.
Parse(t) ==
  /\ pc[t] = "parse"
  /\ IF chosen[t] = 0 THEN Answer(t, "missing")
     ELSE LET c == req[t].caller
          IN  IF req[t].kind = "replay" /\ c.tenant # Global
                 /\ req[t].event.tenant # c.tenant
              THEN Answer(t, "skipped")
              ELSE \E a \in {"PARSED", "FAILED"} : Answer(t, a)
  /\ UNCHANGED <<store, req, stage, walk, todo, chosen>>

\* What a registration or a lifecycle change saves.
Target(t) == IF req[t].kind = "register" THEN req[t].definition
             ELSE heap[chosen[t]]

SaveBegin(t) ==
  /\ pc[t] = "save"
  /\ pc' = [pc EXCEPT ![t] = Lacks(Target(t))]
  /\ UNCHANGED <<store, req, stage, walk, todo, chosen, result>>

\* A new definition is stored ACTIVE; a lifecycle change stores its object
\* again.  Then the registry is counted for the metrics.
Save(t) ==
  /\ pc[t] \in {"tenant", "id", "version"}
  /\ pc[t] = "version" => Holds(Target(t).owner, Target(t).id)
  /\ IF req[t].kind = "register"
     THEN /\ Len(heap) < MaxObjects
          /\ heap' = Append(heap, req[t].definition)
          /\ active' = active \cup {Len(heap) + 1}
          /\ by' = Append(by, req[t].caller)
          /\ Stored(req[t].definition, Len(heap) + 1, pc[t])
     ELSE /\ Stored(heap[chosen[t]], chosen[t], pc[t])
          /\ UNCHANGED <<heap, active, by>>
  /\ pc' = [pc EXCEPT ![t] = "list"]
  /\ UNCHANGED <<req, stage, walk, todo, chosen, result>>

\* The id's dictionary went with the owner's: a KeyError.
SaveFails(t) ==
  /\ pc[t] = "version" /\ ~Holds(Target(t).owner, Target(t).id)
  /\ Answer(t, "error")
  /\ UNCHANGED <<store, req, stage, walk, todo, chosen>>

\* The status is written to the object found, or there was none.
SetStatus(t) ==
  /\ pc[t] = "set"
  /\ IF chosen[t] = 0
     THEN Answer(t, "missing") /\ UNCHANGED active
     ELSE /\ active' = IF req[t].kind = "enable" THEN active \cup {chosen[t]}
                                                 ELSE active \ {chosen[t]}
          /\ pc' = [pc EXCEPT ![t] = "save"] /\ UNCHANGED result
  /\ UNCHANGED <<heap, slot, order, made, by, req, stage, walk, todo, chosen>>
-----------------------------------------------------------------------------
Arrive(t) ==
  \/ \E c \in Callers :
       \/ \E e \in Envelopes : parse_event(t, c, e)
       \/ \E d \in Definitions : register_parser(t, c, d)
       \/ \E i \in Ids, v \in 0..MaxVersion :
            \/ Lifecycle(t, c, "disable", i, v) \/ Lifecycle(t, c, "enable", i, v)
            \/ get_parser(t, c, i, v)
            \/ \E e \in Envelopes : replay_events(t, c, i, v, e)
       \/ list_parsers(t, c)
  \/ Refuse(t)

Serve(t) == \/ ListBegin(t) \/ ListStep(t) \/ ListNext(t) \/ ListEnd(t)
            \/ ListFails(t) \/ Try(t) \/ NextStage(t) \/ Parse(t)
            \/ SaveBegin(t) \/ Save(t) \/ SaveFails(t) \/ SetStatus(t)

ParserNext == /\ \E t \in Threads : Arrive(t) \/ Serve(t)
              /\ Observe

ParserSpec == ParserInit /\ [][ParserNext]_parserVars
-----------------------------------------------------------------------------
(* Properties. *)

Parsed(t) == result[t] \in {"PARSED", "FAILED", "UNPARSED"}

\* Step of find_parser that a parsed event's answer came from; 4 for a
\* built-in parser, 5 for none.
StepOf(t) == IF chosen[t] = BuiltIn THEN 4 ELSE IF chosen[t] = 0 THEN 5
             ELSE stage[t]

\* "Deterministic 4-step parser resolution hierarchy": whatever is registered,
\* enabled and disabled meanwhile, an event is never answered from a later
\* step than one at which a parser was eligible for it all along, nor by a
\* parser of lower priority than such a one of the same step.
BestAvailable ==
  \A t \in Threads :
    req[t].kind = "parse" /\ (pc[t] = "parse" \/ Parsed(t)) =>
      \A p \in steady[t] :
        /\ StepOf(t) <= p[1]
        /\ StepOf(t) = p[1] => heap[chosen[t]].priority <= heap[p[2]].priority

\* No request sees or runs a definition of another tenant, and no answer is
\* about an event its caller may not act for.
Isolated ==
  \A t \in Threads :
    /\ chosen[t] > 0 =>
         heap[chosen[t]].owner \in
           {Global, IF req[t].kind = "parse" THEN req[t].event.tenant
                                             ELSE req[t].caller.tenant}
    /\ Parsed(t) =>
         \/ req[t].caller.system \/ req[t].caller.tenant = Global
         \/ req[t].event.tenant = req[t].caller.tenant

\* What the store holds for an owner was loaded at start-up or registered by
\* that owner's own caller, one of the global tenant or a system caller, passed
\* validation, and sits under its own id and version, even when registrations
\* and lifecycle changes that store their object a second time overlap.
StoreSound ==
  \A o \in Owners, i \in Ids, v \in Versions :
    slot[o][i][v] # 0 =>
      LET x == slot[o][i][v]
      IN  /\ heap[x].owner = o /\ heap[x].id = i /\ heap[x].version = v
          /\ heap[x].sound
          /\ by[x].system \/ by[x].tenant \in {o, Global}
          /\ \E k \in DOMAIN order[o] : order[o][k] = i
=============================================================================
