---------------------------- MODULE RawIngestion ----------------------------
(***************************************************************************)
(* M1, the ingestion boundary: the transports, the dual-write pipeline     *)
(* (raw vault, then Kafka, then the SQLite outbox when Kafka fails), the   *)
(* outbox recovery worker, and the process life cycle (boot, graceful      *)
(* shutdown, crash).                                                       *)
(*                                                                         *)
(* A call to an external store is two steps, the call taking effect and    *)
(* its answer arriving, so that a time-out after the effect, a cancelled   *)
(* task and a crash can each fall between the two.  The vault, the topic   *)
(* and the outbox table survive a restart; everything else is lost.        *)
(***************************************************************************)
EXTENDS Naturals, Sequences, FiniteSets

CONSTANTS
  HttpEvents,    \* events POSTed to /v1/events, one per request
  UdpEvents,     \* events that arrive as UDP syslog datagrams
  Stream,        \* the lines of one TCP connection (or uploaded file), in order
  Oversized,     \* events the Kafka client refuses whatever the broker's state
  UdpQueueSize,  \* settings.udp_queue_size
  UdpWorkers,    \* settings.udp_workers
  BatchLimit,    \* limit of replay_pending
  MaxFaults      \* bound: failed calls, crashes and shutdowns of a behaviour

StreamEvents == {Stream[i] : i \in DOMAIN Stream}
Events == HttpEvents \cup UdpEvents \cup StreamEvents

ASSUME IngestAssumption ==
  /\ Stream \in Seq(StreamEvents)
  /\ \A i, j \in DOMAIN Stream : Stream[i] = Stream[j] => i = j
  /\ HttpEvents \cap UdpEvents = {}
  /\ (HttpEvents \cup UdpEvents) \cap StreamEvents = {}
  /\ Oversized \subseteq Events
  /\ UdpQueueSize \in Nat /\ UdpWorkers \in Nat
  /\ BatchLimit \in Nat \ {0}
  /\ MaxFaults \in Nat

VARIABLES
  phase,     \* lifespan: "down", "up", or the listener shutdown is about to stop
  running,   \* KafkaProducerWrapper._running
  udpQueue,  \* UdpSyslogServer.queue
  pc,        \* pc[e]: where process_raw_payload is with event e
  vault,     \* raw objects in MinIO
  topic,     \* the records of topic ulpf.raw, oldest first
  outbox,    \* rows of outbox_events, by raw_event_id
  created,   \* created_at of each row, as a rank
  clock,     \* the next created_at
  rpc,       \* where the recovery worker is
  batch,     \* what is left of the rows replay_pending fetched
  faults     \* failed calls, crashes and shutdowns so far

durable == <<vault, topic, outbox, created, clock>>
worker  == <<rpc, batch>>
vars == <<phase, running, udpQueue, pc, vault, topic, outbox, created, clock,
          rpc, batch, faults>>

InFlight == {"store", "stored", "publish", "sent", "spool"}
Answered == {"accepted", "spooled", "unspooled", "minio_error"}
PC == {"new", "queued", "dropped", "aborted"} \cup InFlight \cup Answered

Phases == {"down", "up", "stop_udp", "stop_tcp"}
RPC == {"off", "idle", "snapshot", "publish", "sent", "delete"}

Published == {topic[i] : i \in DOMAIN topic}

TypeOK == /\ phase \in Phases
          /\ running \in BOOLEAN
          /\ udpQueue \in Seq(UdpEvents) /\ Len(udpQueue) <= UdpQueueSize
          /\ pc \in [Events -> PC]
          /\ vault \in SUBSET Events
          /\ topic \in Seq(Events)
          /\ outbox \in SUBSET Events
          /\ created \in [Events -> Nat]
          /\ clock \in Nat
          /\ rpc \in RPC
          /\ batch \in SUBSET Events
          /\ faults \in 0..MaxFaults

Init == /\ phase = "down"
        /\ running = FALSE
        /\ udpQueue = <<>>
        /\ pc = [e \in Events |-> "new"]
        /\ vault = {} /\ topic = <<>> /\ outbox = {}
        /\ created = [e \in Events |-> 0] /\ clock = 0
        /\ rpc = "off" /\ batch = {}
        /\ faults = 0

Fault == faults < MaxFaults /\ faults' = faults + 1
NoFault == UNCHANGED faults

Go(e, from, to) == pc[e] = from /\ pc' = [pc EXCEPT ![e] = to]
-----------------------------------------------------------------------------
(* The transports hand an event to process_raw_payload. *)

\* handle_http_ingest: a request that passed authentication and admission.
HttpReceive(e) ==
  /\ phase = "up" /\ e \in HttpEvents
  /\ Go(e, "new", "store")
  /\ UNCHANGED <<phase, running, udpQueue, durable, worker, faults>>

\* datagram_received: put_nowait, or the datagram is dropped when full.
UdpReceive(e) ==
  /\ phase \in {"up", "stop_udp"} /\ e \in UdpEvents
  /\ \/ /\ Len(udpQueue) < UdpQueueSize
        /\ Go(e, "new", "queued")
        /\ udpQueue' = Append(udpQueue, e)
     \/ /\ Len(udpQueue) >= UdpQueueSize
        /\ Go(e, "new", "dropped")
        /\ UNCHANGED udpQueue
  /\ UNCHANGED <<phase, running, durable, worker, faults>>

\* One of the bounded pool of workers takes the oldest datagram.
UdpTake ==
  /\ phase \in {"up", "stop_udp"}
  /\ udpQueue # <<>>
  /\ Cardinality({e \in UdpEvents : pc[e] \in InFlight}) < UdpWorkers
  /\ udpQueue' = Tail(udpQueue)
  /\ Go(Head(udpQueue), "queued", "store")
  /\ UNCHANGED <<phase, running, durable, worker, faults>>

\* _handle_client and the file replay loops: a line is read only after
\* process_raw_payload returned for the one before it; an exception ends
\* the connection, so no later line of it is ever read.
StreamRead(i) ==
  /\ phase \in {"up", "stop_udp", "stop_tcp"}
  /\ \A j \in 1..(i - 1) : pc[Stream[j]] = "accepted"
  /\ Go(Stream[i], "new", "store")
  /\ UNCHANGED <<phase, running, udpQueue, durable, worker, faults>>
-----------------------------------------------------------------------------
(* process_raw_payload. *)

\* store_raw_event: MinIO holds the object; the answer is on its way.
StoreLands(e) ==
  /\ Go(e, "store", "stored")
  /\ vault' = vault \cup {e}
  /\ UNCHANGED <<phase, running, udpQueue, topic, outbox, created, clock,
                 worker, faults>>

StoreReturns(e) ==
  /\ Go(e, "stored", "publish")
  /\ UNCHANGED <<phase, running, udpQueue, durable, worker, faults>>

\* Mutant: a vault failure is logged and the pipeline goes on.
StoreFailsIgnored(e) ==
  /\ Fault
  /\ Go(e, "store", "publish")
  /\ UNCHANGED <<phase, running, udpQueue, durable, worker>>

\* store_raw_event raises, before or after the object landed: MinIOWriteError.
StoreFails(e) ==
  /\ Fault
  /\ \E from \in {"store", "stored"} : Go(e, from, "minio_error")
  /\ UNCHANGED <<phase, running, udpQueue, durable, worker>>

\* publish_envelope reaches the broker only through a running producer and
\* within the client's request limit.
CanPublish(e) == running /\ e \notin Oversized

PublishLands(e) ==
  /\ CanPublish(e)
  /\ Go(e, "publish", "sent")
  /\ topic' = Append(topic, e)
  /\ UNCHANGED <<phase, running, udpQueue, vault, outbox, created, clock,
                 worker, faults>>

PublishReturns(e) ==
  /\ Go(e, "sent", "accepted")
  /\ UNCHANGED <<phase, running, udpQueue, durable, worker, faults>>

\* Mutant: publish_envelope does not wait for the broker's answer.
PublishFailsUnseen(e) ==
  /\ Fault
  /\ \E from \in {"publish", "sent"} : Go(e, from, "accepted")
  /\ UNCHANGED <<phase, running, udpQueue, durable, worker>>

\* publish_envelope raises: refused, unreachable, or timed out after the
\* broker already appended the record.  lifespan hands every transport its
\* outbox (main.py 98, 112, 123), so the test "outbox is not None" succeeds.
PublishFails(e) ==
  /\ \/ ~CanPublish(e) /\ NoFault /\ Go(e, "publish", "spool")
     \/ Fault /\ \E from \in {"publish", "sent"} : Go(e, from, "spool")
  /\ UNCHANGED <<phase, running, udpQueue, durable, worker>>

\* spool_envelope commits the row, then KafkaPublishError is raised.
SpoolLands(e) ==
  /\ Go(e, "spool", "spooled")
  /\ outbox' = outbox \cup {e}
  /\ created' = [created EXCEPT ![e] = clock]
  /\ clock' = clock + 1
  /\ UNCHANGED <<phase, running, udpQueue, vault, topic, worker, faults>>

\* spool_envelope raises: logged only, then KafkaPublishError is raised.
SpoolFails(e) ==
  /\ Fault
  /\ Go(e, "spool", "unspooled")
  /\ UNCHANGED <<phase, running, udpQueue, durable, worker>>
-----------------------------------------------------------------------------
(* _recovery_loop and replay_pending. *)

\* Mutant: is_healthy reports the producer's state and does not restart it.
RecoveryCheckNoRestart ==
  /\ rpc = "idle" /\ outbox # {} /\ running
  /\ rpc' = "snapshot"
  /\ UNCHANGED <<phase, running, udpQueue, pc, durable, batch, faults>>

\* Rows are pending: is_healthy starts a producer that is not running.
RecoveryCheck ==
  /\ rpc = "idle" /\ outbox # {}
  /\ running' = TRUE
  /\ rpc' = "snapshot"
  /\ UNCHANGED <<phase, udpQueue, pc, durable, batch, faults>>

\* The producer cannot be started; the loop sleeps and checks again.
RecoveryUnhealthy ==
  /\ rpc = "idle" /\ outbox # {} /\ ~running
  /\ Fault
  /\ UNCHANGED <<phase, running, udpQueue, pc, durable, worker>>

\* _get_pending_sync: the oldest rows, at most limit of them.
Pending(limit) ==
  {e \in outbox : Cardinality({f \in outbox : created[f] < created[e]}) < limit}

ReplaySnapshot ==
  /\ rpc = "snapshot"
  /\ batch' = Pending(BatchLimit)
  /\ rpc' = IF batch' = {} THEN "idle" ELSE "publish"
  /\ UNCHANGED <<phase, running, udpQueue, pc, durable, faults>>

\* The row the loop over the fetched rows is at.
Current(e) == e \in batch /\ \A f \in batch : created[e] <= created[f]

ReplayLands(e) ==
  /\ rpc = "publish" /\ Current(e) /\ CanPublish(e)
  /\ topic' = Append(topic, e)
  /\ rpc' = "sent"
  /\ UNCHANGED <<phase, running, udpQueue, pc, vault, outbox, created, clock,
                 batch, faults>>

ReplayReturns ==
  /\ rpc = "sent" /\ rpc' = "delete"
  /\ UNCHANGED <<phase, running, udpQueue, pc, durable, batch, faults>>

\* Mutant: the row of a replayed event is not deleted.
ReplayDeleteForgotten(e) ==
  /\ rpc = "delete" /\ Current(e)
  /\ batch' = batch \ {e}
  /\ rpc' = IF batch' = {} THEN "idle" ELSE "publish"
  /\ UNCHANGED <<phase, running, udpQueue, pc, durable, faults>>

\* _mark_published_sync deletes the row; the loop goes on to the next one.
ReplayDelete(e) ==
  /\ rpc = "delete" /\ Current(e)
  /\ outbox' = outbox \ {e}
  /\ batch' = batch \ {e}
  /\ rpc' = IF batch' = {} THEN "idle" ELSE "publish"
  /\ UNCHANGED <<phase, running, udpQueue, pc, vault, topic, created, clock,
                 faults>>

\* Publishing or deleting raises: the attempt is recorded and the loop over
\* the fetched rows breaks.
ReplayFails ==
  /\ \/ /\ rpc = "publish" /\ NoFault
        /\ \E e \in Events : Current(e) /\ ~CanPublish(e)
     \/ rpc \in {"publish", "sent", "delete"} /\ Fault
  /\ rpc' = "idle" /\ batch' = {}
  /\ UNCHANGED <<phase, running, udpQueue, pc, durable>>
-----------------------------------------------------------------------------
(* lifespan. *)

\* The readiness probe's is_healthy also starts a producer that is not running.
ReadinessProbe ==
  /\ phase = "up" /\ ~running
  /\ running' = TRUE
  /\ UNCHANGED <<phase, udpQueue, pc, durable, worker, faults>>

\* The vault is mandatory at boot, Kafka is not.
Boot ==
  /\ phase = "down"
  /\ phase' = "up"
  /\ \/ running' = TRUE /\ NoFault
     \/ running' = FALSE /\ Fault
  /\ rpc' = "idle" /\ batch' = {}
  /\ UNCHANGED <<udpQueue, pc, durable>>

\* The tasks in S end without an answer: no handler of process_raw_payload
\* or of replay_pending catches a cancellation.
Abort(S) == [e \in Events |-> IF e \in S THEN "aborted" ELSE pc[e]]

\* The lines nobody will read once the connection they came on is closed.
Unread == {e \in StreamEvents : pc[e] = "new" /\ pc[Stream[1]] # "new"}

\* outbox.close: the server finished its HTTP requests; the recovery worker
\* is cancelled wherever it is.
CloseOutbox ==
  /\ phase = "up" /\ \A e \in HttpEvents : pc[e] \notin InFlight
  /\ Fault
  /\ phase' = "stop_udp"
  /\ rpc' = "off" /\ batch' = {}
  /\ UNCHANGED <<running, udpQueue, pc, durable>>

\* udp_server.stop: the workers are cancelled, the queue is dropped.
StopUdp ==
  /\ phase = "stop_udp"
  /\ phase' = "stop_tcp"
  /\ pc' = Abort({e \in UdpEvents : pc[e] \in InFlight \cup {"queued"}})
  /\ udpQueue' = <<>>
  /\ UNCHANGED <<running, durable, worker, faults>>

\* tcp_server.stop waits for the open connection; then the producer stops
\* and the process exits.
StopTcpAndKafka ==
  /\ phase = "stop_tcp" /\ \A e \in StreamEvents : pc[e] \notin InFlight
  /\ phase' = "down"
  /\ running' = FALSE
  /\ pc' = Abort(Unread)
  /\ UNCHANGED <<udpQueue, durable, worker, faults>>

\* The process dies: every task, the queue and the worker are gone.
Crash ==
  /\ phase # "down"
  /\ Fault
  /\ phase' = "down" /\ running' = FALSE
  /\ pc' = Abort({e \in Events : pc[e] \in InFlight \cup {"queued"}}
                  \cup Unread)
  /\ udpQueue' = <<>>
  /\ rpc' = "off" /\ batch' = {}
  /\ UNCHANGED durable
-----------------------------------------------------------------------------
\* The steps process_raw_payload takes when the scheduler runs its task.
Proceed(e) == \/ StoreLands(e) \/ StoreReturns(e)
              \/ PublishLands(e) \/ PublishReturns(e)
              \/ PublishFails(e)
              \/ SpoolLands(e)

Receive == \/ \E e \in HttpEvents : HttpReceive(e)
           \/ \E e \in UdpEvents : UdpReceive(e)
           \/ \E i \in DOMAIN Stream : StreamRead(i)

Replay == \/ RecoveryCheck \/ ReplaySnapshot \/ ReplayReturns
          \/ \E e \in Events : ReplayLands(e) \/ ReplayDelete(e)
          \/ ReplayFails

Next == \/ Receive
        \/ UdpTake
        \/ \E e \in Events : Proceed(e) \/ StoreFails(e) \/ SpoolFails(e)
        \/ Replay \/ RecoveryUnhealthy
        \/ ReadinessProbe \/ Boot
        \/ CloseOutbox \/ StopUdp \/ StopTcpAndKafka \/ Crash

Spec == Init /\ [][Next]_vars

\* The event loop keeps running every ready task, and the container's restart
\* policy boots a process that went down.  Faults are not fair: after the last
\* of the MaxFaults the broker, the vault and the database answer.
FairSpec == /\ Spec
            /\ WF_vars(Replay) /\ WF_vars(Boot)
            /\ WF_vars(StopUdp) /\ WF_vars(StopTcpAndKafka)
            /\ \A e \in Events : WF_vars(Proceed(e))
-----------------------------------------------------------------------------
(* Properties. *)

\* Raw evidence comes first: whatever the topic or the outbox refers to is in
\* the vault (pipeline.py stores before it publishes or spools).
EvidenceFirst == Published \cup outbox \subseteq vault

\* An answered event is where its answer says: an accepted one is on the
\* topic, and one answered with KafkaPublishError after a committed spool is
\* in the outbox or has been replayed from it, whatever crashes, shutdowns and
\* replays happened since.
AnswerIsDurable ==
  \A e \in Events : /\ pc[e] = "accepted" => e \in Published
                    /\ pc[e] = "spooled" => e \in outbox \cup Published

\* Every second copy on the topic is paid for by a fault: a time-out after the
\* append, a failed delete, a cancelled or crashed replay.  Without any of
\* them the raw topic has each event once.
DuplicatesExplained ==
  Len(topic) <= Cardinality(Published) + faults

\* The recovery worker iterates over rows it fetched earlier; none of them is
\* ever a row that is gone, so it never republishes a deleted row.
SnapshotIsFresh == batch \subseteq outbox

\* The row of e waits at or behind a row the Kafka client always refuses.
Stuck(e) == \E f \in outbox \cap Oversized : created[f] <= created[e]

\* outbox.py 18 says that spooled events "are eventually replayed".  What the
\* recovery loop achieves: once the faults are over, every row left in the
\* outbox is a row Kafka refuses or one created after such a row, because
\* replay_pending breaks at the first row that fails (outbox.py 194) and starts
\* again from the oldest.  A row with no refused row ahead of it always leaves.
EventuallyReplayed == <>[](\A e \in outbox : Stuck(e))

-----------------------------------------------------------------------------
(* The inductive invariant behind EvidenceFirst, AnswerIsDurable,            *)
(* SnapshotIsFresh and the refinement.                                       *)

\* Where the pipeline is past the vault, the object is in the vault; where the
\* broker has answered or is about to, the record is on the topic.
PipelineFacts ==
  \A e \in Events :
    /\ pc[e] \in {"stored", "publish", "sent", "spool", "accepted", "spooled"}
         => e \in vault
    /\ pc[e] \in {"sent", "accepted"} => e \in Published

\* A row belongs to an event answered after its spool, and rows differ in
\* created_at, so the loop over the fetched rows is at one row.
RowFacts ==
  /\ \A e \in outbox : pc[e] = "spooled" /\ created[e] < clock
  /\ \A e, f \in outbox : created[e] = created[f] => e = f

\* The row the worker is about to delete has been published.
ReplayFacts ==
  rpc \in {"sent", "delete"} => \A e \in Events : Current(e) => e \in Published

Safe == /\ EvidenceFirst
        /\ AnswerIsDurable
        /\ SnapshotIsFresh
        /\ PipelineFacts
        /\ RowFacts
        /\ ReplayFacts

IInv == TypeOK /\ Safe
-----------------------------------------------------------------------------
\* The pipeline implements the promise of DurableIngestion.
Promise == INSTANCE DurableIngestion WITH
             stored    <- vault,
             parked    <- outbox,
             delivered <- Published,
             accepted  <- {e \in Events : pc[e] = "accepted"}

ImplementsDurableIngestion == Promise!ASpec
=============================================================================
