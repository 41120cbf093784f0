--------------------------- MODULE DeliveryEngine ----------------------------
(***************************************************************************)
(* M5: POST /v1/events/process routes an event by policy and delivers it   *)
(* to every destination concurrently, with retries, a delivery tracker and *)
(* a dead-letter file.                                                     *)
(*                                                                         *)
(* A delivery runs without interruption between its awaits: the call of a  *)
(* remote connector (whose effect and answer are two steps) and the sleep  *)
(* before a retry.  The data lake writer has no await inside, so its check *)
(* for duplicates, its write and its bookkeeping are one step.             *)
(***************************************************************************)
EXTENDS Naturals, Sequences, FiniteSets

CONSTANTS
  Requests,      \* calls of process_event
  EventOf,       \* EventOf[r]: the id of the event request r carries
  TenantOf,      \* TenantOf[r]: the tenant the event names
  Rules,         \* the policy rules loaded at start
  Absent,        \* Python's None
  Destinations,  \* destination names a rule may give
  Pool,          \* destinations with a connector
  Lake,          \* the data lake's name: deduplicates, writes local files
  Mock,          \* destinations whose connector is in mock mode (the default)
  Upsert,        \* destinations that key what they hold by the event id
  Invalid,       \* <<event, destination>>: send raises ValueError
  MaxRetries,    \* RetryEngine.max_retries
  CacheSize,     \* DataLakeWriter._max_processed_cache
  MaxFaults,     \* bound: sends and dead-letter writes that raise
  MaxCrashes     \* bound: crashes of the process

Events == {EventOf[r] : r \in Requests}
Deliveries == Requests \X Destinations

ASSUME DeliveryAssumption ==
  /\ IsFiniteSet(Requests)
  /\ Pool \subseteq Destinations /\ Lake \in Destinations
  /\ Mock \subseteq Destinations \ {Lake}
  /\ Upsert \subseteq Destinations \ {Lake}
  /\ Invalid \subseteq Events \X Destinations
  /\ MaxRetries \in Nat \ {0} /\ CacheSize \in Nat \ {0}
  /\ MaxFaults \in Nat /\ MaxCrashes \in Nat
  /\ \A u \in Rules : u.destinations \subseteq Destinations

VARIABLES
  req,         \* req[r]: where process_event is
  dpc,         \* dpc[<<r, d>>]: where deliver_to_connector is
  attempt,     \* attempt[<<r, d>>]
  stored,      \* stored[d][e]: copies of e at destination d
  seen,        \* the lake's processed ids, oldest first
  status,      \* AckTracker: status[<<e, d>>]
  dlqRecords,  \* DeadLetterQueue.dlq_records
  dlqFile,     \* what dlq_events.jsonl holds
  faults, crashes

vars == <<req, dpc, attempt, stored, seen, status, dlqRecords, dlqFile, faults,
          crashes>>

Active == {"ready", "wire", "answer", "backoff"}
DPC == Active \cup {"none", "acked", "dead", "raised", "lost"}
Statuses == {"none", "PENDING", "ACKNOWLEDGED", "RETRIABLE_FAILURE",
             "DLQ_PROMOTED"}

TypeOK ==
  /\ req \in [Requests -> {"new", "delivering", "processed", "unrouted",
                           "error", "lost"}]
  /\ dpc \in [Deliveries -> DPC]
  /\ attempt \in [Deliveries -> 0..MaxRetries]
  /\ stored \in [Destinations -> [Events -> Nat]]
  /\ seen \in Seq(Events) /\ Len(seen) <= CacheSize
  /\ status \in [Events \X Destinations -> Statuses]
  /\ dlqRecords \in SUBSET (Events \X Destinations)
  /\ dlqFile \in SUBSET (Events \X Destinations)
  /\ faults \in 0..MaxFaults /\ crashes \in 0..MaxCrashes

Init == /\ req = [r \in Requests |-> "new"]
        /\ dpc = [x \in Deliveries |-> "none"]
        /\ attempt = [x \in Deliveries |-> 0]
        /\ stored = [d \in Destinations |-> [e \in Events |-> 0]]
        /\ seen = <<>>
        /\ status = [x \in Events \X Destinations |-> "none"]
        /\ dlqRecords = {} /\ dlqFile = {}
        /\ faults = 0 /\ crashes = 0

Faults(n) == faults + n <= MaxFaults /\ faults' = faults + n
-----------------------------------------------------------------------------
(* SmartRouter.route and process_event. *)

Matches(u, r) == /\ u.enabled
                 /\ u.tenant \in {Absent, TenantOf[r]}
                 /\ EventOf[r] \in u.when

Route(r) == UNION {u.destinations : u \in {w \in Rules : Matches(w, r)}}

\* A destination without a connector is only logged.
Targets(r) == Route(r) \cap Pool

process_event(r) ==
  /\ req[r] = "new"
  /\ req' = [req EXCEPT ![r] = IF Route(r) = {} THEN "unrouted"
                               ELSE "delivering"]
  /\ dpc' = [x \in Deliveries |->
               IF x[1] = r /\ x[2] \in Targets(r) THEN "ready" ELSE dpc[x]]
  /\ UNCHANGED <<attempt, stored, seen, status, dlqRecords, dlqFile, faults,
                 crashes>>

\* Mutant: the answer waits for one delivery instead of all of them.
FirstAnswered(r) ==
  /\ req[r] = "delivering"
  /\ \E d \in Targets(r) : dpc[<<r, d>>] \in {"acked", "dead"}
  /\ req' = [req EXCEPT ![r] = "processed"]
  /\ UNCHANGED <<dpc, attempt, stored, seen, status, dlqRecords, dlqFile,
                 faults, crashes>>

\* gather returns when every delivery did; the answer is "processed" whether
\* they were acknowledged or dead-lettered.
Answer(r) ==
  /\ req[r] = "delivering"
  /\ \A d \in Targets(r) : dpc[<<r, d>>] \in {"acked", "dead"}
  /\ req' = [req EXCEPT ![r] = "processed"]
  /\ UNCHANGED <<dpc, attempt, stored, seen, status, dlqRecords, dlqFile,
                 faults, crashes>>

\* Mutant: the other deliveries of the request are cancelled.
GatherCancels(r) ==
  /\ req[r] = "delivering"
  /\ \E d \in Targets(r) : dpc[<<r, d>>] = "raised"
  /\ req' = [req EXCEPT ![r] = "error"]
  /\ dpc' = [x \in Deliveries |-> IF x[1] = r /\ dpc[x] \in Active
                                  THEN "lost" ELSE dpc[x]]
  /\ UNCHANGED <<attempt, stored, seen, status, dlqRecords, dlqFile, faults,
                 crashes>>

\* gather raises what the first failing delivery raised and leaves the others
\* running.
GatherRaises(r) ==
  /\ req[r] = "delivering"
  /\ \E d \in Targets(r) : dpc[<<r, d>>] = "raised"
  /\ req' = [req EXCEPT ![r] = "error"]
  /\ UNCHANGED <<dpc, attempt, stored, seen, status, dlqRecords, dlqFile,
                 faults, crashes>>
-----------------------------------------------------------------------------
(* deliver_to_connector. *)

Goto(x, where) == dpc' = [dpc EXCEPT ![x] = where]

\* The tracker's key: requests that carry the same event share it.
Key(x) == <<EventOf[x[1]], x[2]>>

\* record_attempt keeps the status of a record that exists.
Attempted(x) == IF status[Key(x)] = "none" THEN "PENDING" ELSE status[Key(x)]

SetStatus(x, s) == status' = [status EXCEPT ![Key(x)] = s]

Store(x) == stored' = [stored EXCEPT ![x[2]][EventOf[x[1]]] =
                         IF x[2] \in Upsert THEN 1 ELSE @ + 1]

NextAttempt(x) == /\ dpc[x] = "ready"
                  /\ attempt' = [attempt EXCEPT ![x] = @ + 1]

\* A connector whose client is awaited: the request is on the wire.
SendRemote(x) ==
  /\ NextAttempt(x) /\ x[2] \notin Mock \cup {Lake} /\ Key(x) \notin Invalid
  /\ SetStatus(x, Attempted(x))
  /\ Goto(x, "wire")
  /\ UNCHANGED <<req, stored, seen, dlqRecords, dlqFile, faults, crashes>>

Lands(x) ==
  /\ dpc[x] = "wire"
  /\ Store(x)
  /\ Goto(x, "answer")
  /\ UNCHANGED <<req, attempt, seen, status, dlqRecords, dlqFile, faults,
                 crashes>>

\* Mutant: the acknowledgement is recorded without waiting for the answer.
AckUnanswered(x) ==
  /\ dpc[x] \in {"wire", "answer"}
  /\ SetStatus(x, "ACKNOWLEDGED")
  /\ Goto(x, "acked")
  /\ UNCHANGED <<req, attempt, stored, seen, dlqRecords, dlqFile, faults,
                 crashes>>

\* Mutant: the loop goes on after a success.
AckAndRetry(x) ==
  /\ dpc[x] = "answer"
  /\ SetStatus(x, "ACKNOWLEDGED")
  /\ Goto(x, IF attempt[x] < MaxRetries THEN "ready" ELSE "acked")
  /\ UNCHANGED <<req, attempt, stored, seen, dlqRecords, dlqFile, faults,
                 crashes>>

Acknowledged(x) ==
  /\ dpc[x] = "answer"
  /\ SetStatus(x, "ACKNOWLEDGED")
  /\ Goto(x, "acked")
  /\ UNCHANGED <<req, attempt, stored, seen, dlqRecords, dlqFile, faults,
                 crashes>>

\* A connector in mock mode keeps the event in memory, without an await.
\* (is_healthy, which send tests first, is set in the constructors and never
\* cleared by the program.)
SendMock(x) ==
  /\ NextAttempt(x) /\ x[2] \in Mock /\ Key(x) \notin Invalid
  /\ Store(x)
  /\ SetStatus(x, "ACKNOWLEDGED")
  /\ Goto(x, "acked")
  /\ UNCHANGED <<req, seen, dlqRecords, dlqFile, faults, crashes>>

Seen(e) == \E i \in DOMAIN seen : seen[i] = e

\* DataLakeWriter.send: a known id is skipped; the oldest id makes room.
WriteLake(x) ==
  IF Seen(EventOf[x[1]]) THEN UNCHANGED <<stored, seen>>
  ELSE /\ Store(x)
       /\ seen' = Append(IF Len(seen) >= CacheSize THEN Tail(seen) ELSE seen,
                         EventOf[x[1]])

SendLake(x) ==
  /\ NextAttempt(x) /\ x[2] = Lake /\ Key(x) \notin Invalid
  /\ WriteLake(x)
  /\ SetStatus(x, "ACKNOWLEDGED")
  /\ Goto(x, "acked")
  /\ UNCHANGED <<req, dlqRecords, dlqFile, faults, crashes>>

\* dlq.push keeps the record in memory, then appends it to the file; n faults
\* brought the delivery here, and writing the file may be one more.
Promote(x, n) ==
  /\ SetStatus(x, "DLQ_PROMOTED")
  /\ dlqRecords' = dlqRecords \cup {Key(x)}
  /\ \/ /\ Faults(n)
        /\ dlqFile' = dlqFile \cup {Key(x)}
        /\ Goto(x, "dead")
     \/ /\ Faults(n + 1)
        /\ UNCHANGED dlqFile
        /\ Goto(x, "raised")

\* ValueError: no retry.
SendInvalid(x) ==
  /\ NextAttempt(x) /\ Key(x) \in Invalid
  /\ Promote(x, 0)
  /\ UNCHANGED <<req, stored, seen, crashes>>

\* Any other exception: back off, or dead-letter after the last attempt.
RetryOrPromote(x) ==
  \/ /\ attempt[x] < MaxRetries
     /\ SetStatus(x, "RETRIABLE_FAILURE")
     /\ Faults(1)
     /\ Goto(x, "backoff")
     /\ UNCHANGED <<dlqRecords, dlqFile>>
  \/ attempt[x] >= MaxRetries /\ Promote(x, 1)

\* The call fails before or after its effect.
SendRaises(x) ==
  /\ dpc[x] \in {"wire", "answer"}
  /\ RetryOrPromote(x)
  /\ UNCHANGED <<req, attempt, stored, seen, crashes>>

\* The lake is unhealthy, or writing its file raises.
LakeRaises(x) ==
  /\ dpc[x] = "ready" /\ x[2] = Lake /\ Key(x) \notin Invalid
  /\ attempt' = [attempt EXCEPT ![x] = @ + 1]
  /\ \/ /\ attempt[x] + 1 < MaxRetries
        /\ SetStatus(x, "RETRIABLE_FAILURE")
        /\ Faults(1)
        /\ Goto(x, "backoff")
        /\ UNCHANGED <<dlqRecords, dlqFile>>
     \/ attempt[x] + 1 >= MaxRetries /\ Promote(x, 1)
  /\ UNCHANGED <<req, stored, seen, crashes>>

Wake(x) ==
  /\ dpc[x] = "backoff"
  /\ Goto(x, "ready")
  /\ UNCHANGED <<req, attempt, stored, seen, status, dlqRecords, dlqFile,
                 faults, crashes>>

\* The process dies: real destinations and the dead-letter file survive; the
\* tracker, the lake's processed ids, the dead letters in memory and what mock
\* connectors hold do not.
Crash ==
  /\ crashes < MaxCrashes /\ crashes' = crashes + 1
  /\ req' = [r \in Requests |-> IF req[r] = "delivering" THEN "lost"
                                ELSE req[r]]
  /\ dpc' = [x \in Deliveries |-> IF dpc[x] \in Active THEN "lost" ELSE dpc[x]]
  /\ seen' = <<>>
  /\ status' = [x \in Events \X Destinations |-> "none"]
  /\ dlqRecords' = {}
  /\ stored' = [d \in Destinations |-> IF d \in Mock THEN [e \in Events |-> 0]
                                       ELSE stored[d]]
  /\ UNCHANGED <<attempt, dlqFile, faults>>
-----------------------------------------------------------------------------
Deliver(x) == \/ SendRemote(x) \/ Lands(x) \/ Acknowledged(x)
              \/ SendMock(x) \/ SendLake(x)
              \/ SendInvalid(x)
              \/ Wake(x)

Handle(r) == Answer(r) \/ GatherRaises(r)

Next == \/ \E r \in Requests : process_event(r) \/ Handle(r)
        \/ \E x \in Deliveries : Deliver(x) \/ SendRaises(x) \/ LakeRaises(x)
        \/ Crash

Spec == Init /\ [][Next]_vars

\* The event loop keeps every ready task and every request going, and a call
\* that is on the wire ends (every client has a time-out).
FairSpec == /\ Spec
            /\ \A x \in Deliveries : WF_vars(Deliver(x))
            /\ \A r \in Requests : WF_vars(Handle(r))
-----------------------------------------------------------------------------
(* Properties. *)

Accounted(e, d) == stored[d][e] > 0 \/ <<e, d>> \in dlqFile

\* An event answered "processed" is, for every destination with a connector,
\* at the destination or in the dead-letter file, whatever retries, concurrent
\* requests for the same event and crashes happened (a crash empties a mock).
ProcessedIsAccounted ==
  \A r \in Requests : req[r] = "processed" =>
    \A d \in Targets(r) :
      Accounted(EventOf[r], d) \/ (d \in Mock /\ crashes > 0)

\* The tracker tells the truth although requests with the same event share a
\* record: ACKNOWLEDGED only for what a destination holds, DLQ_PROMOTED only
\* for what the dead-letter queue holds.
StatusTruthful ==
  \A e \in Events, d \in Destinations :
    /\ status[<<e, d>>] = "ACKNOWLEDGED" => stored[d][e] > 0
    /\ status[<<e, d>>] = "DLQ_PROMOTED" => <<e, d>> \in dlqRecords

\* A destination holds more copies of an event than requests brought only
\* because an answer was lost: a retry follows a failure, never a success.
\* The lake has one copy per life of the process, however often and however
\* concurrently the event is sent, while its id is not evicted.
CopiesExplained ==
  \A e \in Events :
    /\ \A d \in Destinations :
         stored[d][e] <= Cardinality({r \in Requests : EventOf[r] = e}) + faults
    /\ Cardinality(Events) <= CacheSize => stored[Lake][e] <= 1 + crashes

\* Every request is answered, and every delivery runs to its end, acknowledged
\* or dead-lettered, even after the request it belongs to was answered with
\* another delivery's error; only a crash cuts one short (requests are
\* finitely many).
EveryDeliverySettles ==
  <>[](/\ \A r \in Requests : req[r] # "delivering"
       /\ \A x \in Deliveries :
            \/ dpc[x] \in {"none", "acked", "dead", "raised"}
            \/ dpc[x] = "lost" /\ crashes > 0)
=============================================================================
