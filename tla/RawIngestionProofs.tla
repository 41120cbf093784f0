------------------------ MODULE RawIngestionProofs --------------------------
(***************************************************************************)
(* RawIngestion for every set of events, queue size, batch limit and       *)
(* number of faults: its types, its safety invariants, and that it         *)
(* implements DurableIngestion.                                            *)
(***************************************************************************)
EXTENDS RawIngestion, SequenceTheorems, FiniteSetTheorems, TLAPS

LEMMA EventSets ==
  /\ HttpEvents \subseteq Events /\ UdpEvents \subseteq Events
  /\ StreamEvents \subseteq Events
  /\ \A i \in DOMAIN Stream : Stream[i] \in StreamEvents
  BY DEF Events, StreamEvents

\* Appending a record to the topic adds its event to what is published.
LEMMA PublishedAppend ==
  ASSUME NEW e \in Events, topic \in Seq(Events), topic' = Append(topic, e)
  PROVE  topic' \in Seq(Events) /\ Published' = Published \cup {e}
  <1>1. /\ topic' \in Seq(Events) /\ Len(topic') = Len(topic) + 1
        /\ Len(topic) \in Nat
        /\ \A i \in 1..Len(topic) : topic'[i] = topic[i]
        /\ topic'[Len(topic) + 1] = e
    BY AppendProperties
  <1>2. DOMAIN topic = 1..Len(topic) /\ DOMAIN topic' = 1..(Len(topic) + 1)
    BY <1>1
  <1>3. Published' \subseteq Published \cup {e}
    <2>1. ASSUME NEW i \in 1..(Len(topic) + 1) PROVE topic'[i] \in Published \cup {e}
      <3>1. CASE i = Len(topic) + 1
        BY <3>1, <1>1
      <3>2. CASE i # Len(topic) + 1
        BY <3>2, <1>1, <1>2 DEF Published
      <3>3. QED BY <3>1, <3>2
    <2>2. QED BY <2>1, <1>2 DEF Published
  <1>4. Published \subseteq Published'
    <2>1. ASSUME NEW i \in 1..Len(topic) PROVE topic[i] \in Published'
      BY <1>1, <1>2 DEF Published
    <2>2. QED BY <2>1, <1>2 DEF Published
  <1>5. e \in Published'
    BY <1>1, <1>2 DEF Published
  <1>6. QED BY <1>1, <1>3, <1>4, <1>5
-----------------------------------------------------------------------------
(* Types. *)

LEMMA FaultType ==
  ASSUME IngestAssumption, TypeOK
  PROVE  /\ Fault => faults' \in 0..MaxFaults
         /\ NoFault => faults' \in 0..MaxFaults
  BY DEF Fault, NoFault, IngestAssumption, TypeOK

LEMMA GoType ==
  ASSUME TypeOK, NEW e, NEW from, NEW to \in PC, Go(e, from, to)
  PROVE  pc' \in [Events -> PC]
  BY DEF Go, TypeOK

LEMMA AbortType ==
  ASSUME TypeOK, NEW S, pc' = Abort(S)
  PROVE  pc' \in [Events -> PC]
  BY DEF Abort, TypeOK, PC

\* Every step keeps every variable in its type and the UDP queue in its bound.
LEMMA NextType ==
  ASSUME IngestAssumption, TypeOK, [Next]_vars
  PROVE  TypeOK'
  <1> USE DEF durable, worker
  <1>1. ASSUME NEW e \in HttpEvents, HttpReceive(e) PROVE TypeOK'
    <2>1. pc' \in [Events -> PC]
      BY <1>1, GoType DEF HttpReceive, PC, InFlight
    <2>2. QED BY <1>1, <2>1 DEF HttpReceive, TypeOK
  <1>2. ASSUME NEW e \in UdpEvents, UdpReceive(e) PROVE TypeOK'
    <2>1. pc' \in [Events -> PC]
      BY <1>2, GoType DEF UdpReceive, PC
    <2>2. udpQueue' \in Seq(UdpEvents) /\ Len(udpQueue') <= UdpQueueSize
      <3>1. /\ udpQueue \in Seq(UdpEvents) /\ Len(udpQueue) \in Nat
            /\ Len(udpQueue) <= UdpQueueSize /\ UdpQueueSize \in Nat
        BY DEF TypeOK, IngestAssumption
      <3>2. CASE udpQueue' = Append(udpQueue, e) /\ Len(udpQueue) < UdpQueueSize
        BY <3>1, <3>2
      <3>3. CASE udpQueue' = udpQueue
        BY <3>1, <3>3
      <3>4. QED BY <1>2, <3>2, <3>3 DEF UdpReceive
    <2>3. QED BY <1>2, <2>1, <2>2 DEF UdpReceive, TypeOK
  <1>3. ASSUME UdpTake PROVE TypeOK'
    <2>1. pc' \in [Events -> PC]
      BY <1>3, GoType DEF UdpTake, PC, InFlight
    <2>2. udpQueue' \in Seq(UdpEvents) /\ Len(udpQueue') <= UdpQueueSize
      BY <1>3 DEF UdpTake, TypeOK, IngestAssumption
    <2>3. QED BY <1>3, <2>1, <2>2 DEF UdpTake, TypeOK
  <1>4. ASSUME NEW i \in DOMAIN Stream, StreamRead(i) PROVE TypeOK'
    <2>1. pc' \in [Events -> PC]
      BY <1>4, GoType DEF StreamRead, PC, InFlight
    <2>2. QED BY <1>4, <2>1 DEF StreamRead, TypeOK
  <1>5. ASSUME NEW e \in Events, StoreLands(e) PROVE TypeOK'
    <2>1. pc' \in [Events -> PC]
      BY <1>5, GoType DEF StoreLands, PC, InFlight
    <2>2. QED BY <1>5, <2>1 DEF StoreLands, TypeOK
  <1>6. ASSUME NEW e \in Events, StoreReturns(e) PROVE TypeOK'
    <2>1. pc' \in [Events -> PC]
      BY <1>6, GoType DEF StoreReturns, PC, InFlight
    <2>2. QED BY <1>6, <2>1 DEF StoreReturns, TypeOK
  <1>7. ASSUME NEW e \in Events, StoreFails(e) PROVE TypeOK'
    <2>1. pc' \in [Events -> PC]
      BY <1>7, GoType DEF StoreFails, PC, Answered
    <2>2. QED BY <1>7, <2>1, FaultType DEF StoreFails, TypeOK
  <1>8. ASSUME NEW e \in Events, PublishLands(e) PROVE TypeOK'
    <2>1. pc' \in [Events -> PC]
      BY <1>8, GoType DEF PublishLands, PC, InFlight
    <2>2. topic' \in Seq(Events)
      BY <1>8 DEF PublishLands, TypeOK
    <2>3. QED BY <1>8, <2>1, <2>2 DEF PublishLands, TypeOK
  <1>9. ASSUME NEW e \in Events, PublishReturns(e) PROVE TypeOK'
    <2>1. pc' \in [Events -> PC]
      BY <1>9, GoType DEF PublishReturns, PC, Answered
    <2>2. QED BY <1>9, <2>1 DEF PublishReturns, TypeOK
  <1>10. ASSUME NEW e \in Events, PublishFails(e) PROVE TypeOK'
    <2>1. pc' \in [Events -> PC]
      BY <1>10, GoType DEF PublishFails, PC, InFlight
    <2>2. faults' \in 0..MaxFaults
      BY <1>10, FaultType DEF PublishFails
    <2>3. QED BY <1>10, <2>1, <2>2 DEF PublishFails, TypeOK
  <1>11. ASSUME NEW e \in Events, SpoolLands(e) PROVE TypeOK'
    <2>1. pc' \in [Events -> PC]
      BY <1>11, GoType DEF SpoolLands, PC, Answered
    <2>2. created' \in [Events -> Nat] /\ clock' \in Nat
      BY <1>11 DEF SpoolLands, TypeOK
    <2>3. QED BY <1>11, <2>1, <2>2 DEF SpoolLands, TypeOK
  <1>12. ASSUME NEW e \in Events, SpoolFails(e) PROVE TypeOK'
    <2>1. pc' \in [Events -> PC]
      BY <1>12, GoType DEF SpoolFails, PC, Answered
    <2>2. QED BY <1>12, <2>1, FaultType DEF SpoolFails, TypeOK
  <1>13. ASSUME RecoveryCheck PROVE TypeOK'
    BY <1>13 DEF RecoveryCheck, TypeOK, RPC
  <1>14. ASSUME RecoveryUnhealthy PROVE TypeOK'
    BY <1>14, FaultType DEF RecoveryUnhealthy, TypeOK
  <1>15. ASSUME ReplaySnapshot PROVE TypeOK'
    <2>1. batch' \in SUBSET Events
      BY <1>15 DEF ReplaySnapshot, Pending, TypeOK
    <2>2. rpc' \in RPC
      BY <1>15 DEF ReplaySnapshot, RPC
    <2>3. QED BY <1>15, <2>1, <2>2 DEF ReplaySnapshot, TypeOK
  <1>16. ASSUME NEW e \in Events, ReplayLands(e) PROVE TypeOK'
    <2>1. topic' \in Seq(Events)
      BY <1>16 DEF ReplayLands, TypeOK
    <2>2. QED BY <1>16, <2>1 DEF ReplayLands, TypeOK, RPC
  <1>17. ASSUME ReplayReturns PROVE TypeOK'
    BY <1>17 DEF ReplayReturns, TypeOK, RPC
  <1>18. ASSUME NEW e \in Events, ReplayDelete(e) PROVE TypeOK'
    <2>1. rpc' \in RPC
      BY <1>18 DEF ReplayDelete, RPC
    <2>2. QED BY <1>18, <2>1 DEF ReplayDelete, TypeOK
  <1>19. ASSUME ReplayFails PROVE TypeOK'
    <2>1. faults' \in 0..MaxFaults
      BY <1>19, FaultType DEF ReplayFails
    <2>2. QED BY <1>19, <2>1 DEF ReplayFails, TypeOK, RPC
  <1>20. ASSUME ReadinessProbe PROVE TypeOK'
    BY <1>20 DEF ReadinessProbe, TypeOK
  <1>21. ASSUME Boot PROVE TypeOK'
    <2>1. faults' \in 0..MaxFaults /\ running' \in BOOLEAN
      BY <1>21, FaultType DEF Boot
    <2>2. QED BY <1>21, <2>1 DEF Boot, TypeOK, Phases, RPC
  <1>22. ASSUME CloseOutbox PROVE TypeOK'
    BY <1>22, FaultType DEF CloseOutbox, TypeOK, Phases, RPC
  <1>23. ASSUME StopUdp PROVE TypeOK'
    <2>1. pc' \in [Events -> PC]
      BY <1>23, AbortType DEF StopUdp
    <2>2. udpQueue' \in Seq(UdpEvents) /\ Len(udpQueue') <= UdpQueueSize
      BY <1>23 DEF StopUdp, IngestAssumption
    <2>3. QED BY <1>23, <2>1, <2>2 DEF StopUdp, TypeOK, Phases
  <1>24. ASSUME StopTcpAndKafka PROVE TypeOK'
    <2>1. pc' \in [Events -> PC]
      BY <1>24, AbortType DEF StopTcpAndKafka
    <2>2. QED BY <1>24, <2>1 DEF StopTcpAndKafka, TypeOK, Phases
  <1>25. ASSUME Crash PROVE TypeOK'
    <2>1. pc' \in [Events -> PC]
      BY <1>25, AbortType DEF Crash
    <2>2. udpQueue' \in Seq(UdpEvents) /\ Len(udpQueue') <= UdpQueueSize
      BY <1>25 DEF Crash, IngestAssumption
    <2>3. QED BY <1>25, <2>1, <2>2, FaultType DEF Crash, TypeOK, Phases, RPC
  <1>26. ASSUME UNCHANGED vars PROVE TypeOK'
    BY <1>26 DEF vars, TypeOK
  <1>27. QED
    BY <1>1, <1>2, <1>3, <1>4, <1>5, <1>6, <1>7, <1>8, <1>9, <1>10, <1>11, <1>12,
       <1>13, <1>14, <1>15, <1>16, <1>17, <1>18, <1>19, <1>20, <1>21, <1>22,
       <1>23, <1>24, <1>25, <1>26
    DEF Next, Receive, Proceed, Replay

LEMMA InitType == ASSUME IngestAssumption, Init PROVE TypeOK
  <1>1. <<>> \in Seq(UdpEvents) /\ <<>> \in Seq(Events) /\ Len(<<>>) = 0
    BY EmptySeq
  <1>2. pc \in [Events -> PC] /\ created \in [Events -> Nat]
    BY DEF Init, PC
  <1>3. udpQueue \in Seq(UdpEvents) /\ topic \in Seq(Events)
    BY <1>1 DEF Init
  <1>4. Len(udpQueue) <= UdpQueueSize
    BY <1>1 DEF Init, IngestAssumption
  <1>5. phase \in Phases /\ rpc \in RPC /\ running \in BOOLEAN
    BY DEF Init, Phases, RPC
  <1>6. faults \in 0..MaxFaults /\ clock \in Nat
    BY DEF Init, IngestAssumption
  <1>7. vault \in SUBSET Events /\ outbox \in SUBSET Events /\ batch \in SUBSET Events
    BY DEF Init
  <1>8. QED
    BY <1>2, <1>3, <1>4, <1>5, <1>6, <1>7 DEF TypeOK

\* Type correctness of the ingestion boundary, the bound of the UDP queue
\* included.
THEOREM IngestTypes == Spec => []TypeOK
  <1>1. Init => TypeOK
    BY InitType, IngestAssumption
  <1>2. TypeOK /\ [Next]_vars => TypeOK'
    BY NextType, IngestAssumption
  <1>3. QED BY <1>1, <1>2, PTL DEF Spec

-----------------------------------------------------------------------------
(* Safety. *)

\* A step of one event that leaves the stores and the worker alone keeps the
\* invariant when the place it reaches is justified by the stores.
LEMMA PcStep ==
  ASSUME IInv, NEW e \in Events, NEW from, NEW to \in PC, Go(e, from, to),
         UNCHANGED <<durable, worker>>,
         from # "spooled", to # "spooled",
         to \in {"stored", "publish", "sent", "spool", "accepted"} => e \in vault,
         to \in {"sent", "accepted"} => e \in Published
  PROVE  Safe'
  <1>1. /\ vault' = vault /\ topic' = topic /\ outbox' = outbox
        /\ created' = created /\ clock' = clock /\ rpc' = rpc /\ batch' = batch
        /\ Published' = Published
    BY DEF durable, worker, Published
  <1>2. /\ pc[e] = from /\ pc' = [pc EXCEPT ![e] = to]
        /\ pc'[e] = to /\ \A f \in Events : f # e => pc'[f] = pc[f]
    BY DEF Go, IInv, TypeOK
  <1>3. EvidenceFirst' /\ SnapshotIsFresh'
    BY <1>1 DEF IInv, Safe, EvidenceFirst, SnapshotIsFresh
  <1>4. AnswerIsDurable' /\ PipelineFacts'
    BY <1>1, <1>2 DEF IInv, Safe, AnswerIsDurable, PipelineFacts
  <1>5. RowFacts'
    BY <1>1, <1>2 DEF IInv, Safe, RowFacts, TypeOK
  <1>6. ReplayFacts'
    BY <1>1 DEF IInv, Safe, ReplayFacts, Current
  <1>7. QED BY <1>3, <1>4, <1>5, <1>6 DEF Safe

\* Ending the tasks of unanswered events, with the worker kept or cleared.
LEMMA AbortStep ==
  ASSUME IInv, NEW S, pc' = Abort(S), UNCHANGED durable,
         \A e \in S \cap Events : pc[e] # "spooled",
         UNCHANGED worker \/ (rpc' \in {"off", "idle"} /\ batch' = {})
  PROVE  Safe'
  <1>1. /\ vault' = vault /\ topic' = topic /\ outbox' = outbox
        /\ created' = created /\ clock' = clock /\ Published' = Published
    BY DEF durable, Published
  <1>2. \A e \in Events : pc'[e] = pc[e] \/ (pc'[e] = "aborted" /\ pc[e] # "spooled")
    BY DEF Abort, IInv, TypeOK
  <1>3. EvidenceFirst' /\ SnapshotIsFresh'
    BY <1>1 DEF IInv, Safe, EvidenceFirst, SnapshotIsFresh, worker
  <1>4. AnswerIsDurable' /\ PipelineFacts'
    BY <1>1, <1>2 DEF IInv, Safe, AnswerIsDurable, PipelineFacts
  <1>5. RowFacts'
    BY <1>1, <1>2 DEF IInv, Safe, RowFacts, TypeOK
  <1>6. ReplayFacts'
    BY <1>1 DEF IInv, Safe, ReplayFacts, Current, worker
  <1>7. QED BY <1>3, <1>4, <1>5, <1>6 DEF Safe

\* A step of the worker or the life cycle that touches neither the stores nor
\* the tasks, and claims no published row.
LEMMA WorkerStep ==
  ASSUME IInv, UNCHANGED pc, UNCHANGED durable,
         batch' \subseteq outbox,
         rpc' \in {"sent", "delete"} => UNCHANGED batch /\ rpc \in {"sent", "delete"}
  PROVE  Safe'
  <1>1. /\ vault' = vault /\ topic' = topic /\ outbox' = outbox /\ pc' = pc
        /\ created' = created /\ clock' = clock /\ Published' = Published
    BY DEF durable, Published
  <1>2. QED
    BY <1>1 DEF IInv, Safe, EvidenceFirst, SnapshotIsFresh, AnswerIsDurable,
                PipelineFacts, RowFacts, ReplayFacts, Current

LEMMA NextSafe ==
  ASSUME IngestAssumption, IInv, [Next]_vars
  PROVE  Safe'
  <1> USE EventSets
  <1>1. ASSUME NEW e \in HttpEvents, HttpReceive(e) PROVE Safe'
    BY <1>1, PcStep DEF HttpReceive, PC, InFlight
  <1>2. ASSUME NEW e \in UdpEvents, UdpReceive(e) PROVE Safe'
    <2>1. \E to \in {"queued", "dropped"} : Go(e, "new", to)
      BY <1>2 DEF UdpReceive
    <2>2. UNCHANGED <<durable, worker>>
      BY <1>2 DEF UdpReceive
    <2>3. QED BY <2>1, <2>2, PcStep DEF PC
  <1>3. ASSUME UdpTake PROVE Safe'
    <2>1. Head(udpQueue) \in UdpEvents
      BY <1>3 DEF UdpTake, IInv, TypeOK
    <2>2. QED BY <1>3, <2>1, PcStep DEF UdpTake, PC, InFlight
  <1>4. ASSUME NEW i \in DOMAIN Stream, StreamRead(i) PROVE Safe'
    BY <1>4, PcStep DEF StreamRead, PC, InFlight
  <1>5. ASSUME NEW e \in Events, StoreLands(e) PROVE Safe'
    <2>1. /\ vault' = vault \cup {e} /\ topic' = topic /\ outbox' = outbox
          /\ created' = created /\ clock' = clock /\ rpc' = rpc /\ batch' = batch
          /\ Published' = Published
      BY <1>5 DEF StoreLands, worker, Published
    <2>2. /\ pc[e] = "store" /\ pc'[e] = "stored"
          /\ \A f \in Events : f # e => pc'[f] = pc[f]
      BY <1>5 DEF StoreLands, Go, IInv, TypeOK
    <2>3. EvidenceFirst' /\ SnapshotIsFresh'
      BY <2>1 DEF IInv, Safe, EvidenceFirst, SnapshotIsFresh
    <2>4. AnswerIsDurable' /\ PipelineFacts'
      BY <2>1, <2>2 DEF IInv, Safe, AnswerIsDurable, PipelineFacts
    <2>5. RowFacts'
      BY <2>1, <2>2 DEF IInv, Safe, RowFacts, TypeOK
    <2>6. ReplayFacts'
      BY <2>1 DEF IInv, Safe, ReplayFacts, Current
    <2>7. QED BY <2>3, <2>4, <2>5, <2>6 DEF Safe
  <1>6. ASSUME NEW e \in Events, StoreReturns(e) PROVE Safe'
    <2>1. e \in vault
      BY <1>6 DEF StoreReturns, Go, IInv, Safe, PipelineFacts
    <2>2. QED BY <1>6, <2>1, PcStep DEF StoreReturns, PC, InFlight
  <1>7. ASSUME NEW e \in Events, StoreFails(e) PROVE Safe'
    <2>1. \E from \in {"store", "stored"} : Go(e, from, "minio_error")
      BY <1>7 DEF StoreFails
    <2>2. UNCHANGED <<durable, worker>> /\ "minio_error" \in PC
      BY <1>7 DEF StoreFails, PC, Answered
    <2>3. QED BY <2>1, <2>2, PcStep
  <1>8. ASSUME NEW e \in Events, PublishLands(e) PROVE Safe'
    <2>1. /\ vault' = vault /\ outbox' = outbox /\ topic' = Append(topic, e)
          /\ created' = created /\ clock' = clock /\ rpc' = rpc /\ batch' = batch
      BY <1>8 DEF PublishLands, worker
    <2>2. Published' = Published \cup {e}
      BY <2>1, PublishedAppend DEF IInv, TypeOK
    <2>3. /\ pc[e] = "publish" /\ pc'[e] = "sent"
          /\ \A f \in Events : f # e => pc'[f] = pc[f]
      BY <1>8 DEF PublishLands, Go, IInv, TypeOK
    <2>4. e \in vault
      BY <2>3 DEF IInv, Safe, PipelineFacts
    <2>5. EvidenceFirst' /\ SnapshotIsFresh'
      BY <2>1, <2>2, <2>4 DEF IInv, Safe, EvidenceFirst, SnapshotIsFresh
    <2>6. AnswerIsDurable' /\ PipelineFacts'
      BY <2>1, <2>2, <2>3, <2>4 DEF IInv, Safe, AnswerIsDurable, PipelineFacts
    <2>7. RowFacts'
      BY <2>1, <2>3 DEF IInv, Safe, RowFacts, TypeOK
    <2>8. ReplayFacts'
      BY <2>1, <2>2 DEF IInv, Safe, ReplayFacts, Current
    <2>9. QED BY <2>5, <2>6, <2>7, <2>8 DEF Safe
  <1>9. ASSUME NEW e \in Events, PublishReturns(e) PROVE Safe'
    <2>1. e \in vault /\ e \in Published
      BY <1>9 DEF PublishReturns, Go, IInv, Safe, PipelineFacts
    <2>2. QED BY <1>9, <2>1, PcStep DEF PublishReturns, PC, Answered
  <1>10. ASSUME NEW e \in Events, PublishFails(e) PROVE Safe'
    <2>1. \E from \in {"publish", "sent"} : Go(e, from, "spool")
      BY <1>10 DEF PublishFails
    <2>2. UNCHANGED <<durable, worker>> /\ "spool" \in PC
      BY <1>10 DEF PublishFails, PC, InFlight
    <2>3. e \in vault
      BY <2>1 DEF Go, IInv, Safe, PipelineFacts
    <2>4. QED BY <2>1, <2>2, <2>3, PcStep
  <1>11. ASSUME NEW e \in Events, SpoolLands(e) PROVE Safe'
    <2>1. /\ vault' = vault /\ topic' = topic /\ rpc' = rpc /\ batch' = batch
          /\ outbox' = outbox \cup {e} /\ Published' = Published
          /\ clock' = clock + 1 /\ clock \in Nat
      BY <1>11 DEF SpoolLands, worker, Published, IInv, TypeOK
    <2>2. /\ pc[e] = "spool" /\ pc'[e] = "spooled"
          /\ \A f \in Events : f # e => pc'[f] = pc[f]
      BY <1>11 DEF SpoolLands, Go, IInv, TypeOK
    <2>3. /\ created'[e] = clock
          /\ \A f \in Events : f # e => created'[f] = created[f]
          /\ created \in [Events -> Nat] /\ outbox \subseteq Events
      BY <1>11 DEF SpoolLands, IInv, TypeOK
    <2>4. e \in vault /\ e \notin outbox
      BY <2>2 DEF IInv, Safe, PipelineFacts, RowFacts
    <2>5. EvidenceFirst' /\ SnapshotIsFresh'
      BY <2>1, <2>4 DEF IInv, Safe, EvidenceFirst, SnapshotIsFresh
    <2>6. AnswerIsDurable' /\ PipelineFacts'
      BY <2>1, <2>2, <2>4 DEF IInv, Safe, AnswerIsDurable, PipelineFacts
    <2>7. RowFacts'
      BY <2>1, <2>2, <2>3, <2>4 DEF IInv, Safe, RowFacts
    <2>8. \A f \in batch : f # e /\ created'[f] = created[f]
      BY <2>3, <2>4 DEF IInv, Safe, SnapshotIsFresh
    <2>9. ReplayFacts'
      BY <2>1, <2>8 DEF IInv, Safe, ReplayFacts, Current
    <2>10. QED BY <2>5, <2>6, <2>7, <2>9 DEF Safe
  <1>12. ASSUME NEW e \in Events, SpoolFails(e) PROVE Safe'
    BY <1>12, PcStep DEF SpoolFails, PC, Answered
  <1>13. ASSUME RecoveryCheck PROVE Safe'
    BY <1>13, WorkerStep DEF RecoveryCheck, IInv, Safe, SnapshotIsFresh
  <1>14. ASSUME RecoveryUnhealthy PROVE Safe'
    BY <1>14, WorkerStep DEF RecoveryUnhealthy, worker, IInv, Safe, SnapshotIsFresh
  <1>15. ASSUME ReplaySnapshot PROVE Safe'
    <2>1. batch' \subseteq outbox /\ rpc' \notin {"sent", "delete"}
      BY <1>15 DEF ReplaySnapshot, Pending
    <2>2. QED BY <1>15, <2>1, WorkerStep DEF ReplaySnapshot
  <1>16. ASSUME NEW e \in Events, ReplayLands(e) PROVE Safe'
    <2>1. /\ vault' = vault /\ outbox' = outbox /\ topic' = Append(topic, e)
          /\ created' = created /\ clock' = clock /\ batch' = batch /\ pc' = pc
          /\ rpc' = "sent" /\ Current(e)
      BY <1>16 DEF ReplayLands
    <2>2. Published' = Published \cup {e}
      BY <2>1, PublishedAppend DEF IInv, TypeOK
    <2>3. e \in outbox /\ e \in vault
      BY <2>1 DEF Current, IInv, Safe, SnapshotIsFresh, EvidenceFirst
    <2>4. \A f \in Events : Current(f) => f = e
      <3> SUFFICES ASSUME NEW f \in Events, Current(f) PROVE f = e
        OBVIOUS
      <3>1. f \in outbox /\ created[e] <= created[f] /\ created[f] <= created[e]
        BY <2>1 DEF Current, IInv, Safe, SnapshotIsFresh
      <3>2. created[e] \in Nat /\ created[f] \in Nat
        BY DEF IInv, TypeOK
      <3>3. created[e] = created[f]
        BY <3>1, <3>2
      <3>4. QED BY <3>1, <3>3, <2>3 DEF IInv, Safe, RowFacts
    <2>5. EvidenceFirst' /\ SnapshotIsFresh'
      BY <2>1, <2>2, <2>3 DEF IInv, Safe, EvidenceFirst, SnapshotIsFresh
    <2>6. AnswerIsDurable' /\ PipelineFacts' /\ RowFacts'
      BY <2>1, <2>2 DEF IInv, Safe, AnswerIsDurable, PipelineFacts, RowFacts
    <2>7. ReplayFacts'
      BY <2>1, <2>2, <2>4 DEF ReplayFacts, Current
    <2>8. QED BY <2>5, <2>6, <2>7 DEF Safe
  <1>17. ASSUME ReplayReturns PROVE Safe'
    BY <1>17, WorkerStep DEF ReplayReturns, IInv, Safe, SnapshotIsFresh
  <1>18. ASSUME NEW e \in Events, ReplayDelete(e) PROVE Safe'
    <2>1. /\ vault' = vault /\ topic' = topic /\ pc' = pc
          /\ created' = created /\ clock' = clock /\ Published' = Published
          /\ outbox' = outbox \ {e} /\ batch' = batch \ {e}
          /\ rpc = "delete" /\ rpc' \notin {"sent", "delete"} /\ Current(e)
      BY <1>18 DEF ReplayDelete, Published
    <2>2. e \in Published
      BY <2>1 DEF IInv, Safe, ReplayFacts
    <2>3. EvidenceFirst' /\ SnapshotIsFresh'
      BY <2>1 DEF IInv, Safe, EvidenceFirst, SnapshotIsFresh
    <2>4. AnswerIsDurable' /\ PipelineFacts'
      BY <2>1, <2>2 DEF IInv, Safe, AnswerIsDurable, PipelineFacts
    <2>5. RowFacts'
      BY <2>1 DEF IInv, Safe, RowFacts
    <2>6. ReplayFacts'
      BY <2>1 DEF ReplayFacts
    <2>7. QED BY <2>3, <2>4, <2>5, <2>6 DEF Safe
  <1>19. ASSUME ReplayFails PROVE Safe'
    BY <1>19, WorkerStep DEF ReplayFails
  <1>20. ASSUME ReadinessProbe PROVE Safe'
    BY <1>20, WorkerStep DEF ReadinessProbe, worker, IInv, Safe, SnapshotIsFresh
  <1>21. ASSUME Boot PROVE Safe'
    BY <1>21, WorkerStep DEF Boot
  <1>22. ASSUME CloseOutbox PROVE Safe'
    BY <1>22, WorkerStep DEF CloseOutbox
  <1>23. ASSUME StopUdp PROVE Safe'
    <2> DEFINE S == {e \in UdpEvents : pc[e] \in InFlight \cup {"queued"}}
    <2>1. pc' = Abort(S) /\ UNCHANGED durable /\ UNCHANGED worker
      BY <1>23 DEF StopUdp
    <2>2. \A e \in S \cap Events : pc[e] # "spooled"
      BY DEF InFlight
    <2>3. QED BY <2>1, <2>2, AbortStep
  <1>24. ASSUME StopTcpAndKafka PROVE Safe'
    <2>1. \A e \in Unread \cap Events : pc[e] # "spooled"
      BY DEF Unread
    <2>2. QED BY <1>24, <2>1, AbortStep DEF StopTcpAndKafka
  <1>25. ASSUME Crash PROVE Safe'
    <2> DEFINE S == {e \in Events : pc[e] \in InFlight \cup {"queued"}} \cup Unread
    <2>1. /\ pc' = Abort(S) /\ UNCHANGED durable
          /\ rpc' \in {"off", "idle"} /\ batch' = {}
      BY <1>25 DEF Crash
    <2>2. \A e \in S \cap Events : pc[e] # "spooled"
      BY DEF InFlight, Unread
    <2>3. QED BY <2>1, <2>2, AbortStep
  <1>26. ASSUME UNCHANGED vars PROVE Safe'
    BY <1>26, WorkerStep DEF vars, durable, IInv, Safe, SnapshotIsFresh
  <1>27. QED
    BY <1>1, <1>2, <1>3, <1>4, <1>5, <1>6, <1>7, <1>8, <1>9, <1>10, <1>11, <1>12,
       <1>13, <1>14, <1>15, <1>16, <1>17, <1>18, <1>19, <1>20, <1>21, <1>22,
       <1>23, <1>24, <1>25, <1>26
    DEF Next, Receive, Proceed, Replay

LEMMA InitSafe == ASSUME Init PROVE Safe
  <1>1. Published = {} /\ outbox = {} /\ batch = {} /\ rpc = "off"
        /\ \A e \in Events : pc[e] = "new"
    BY DEF Init, Published
  <1>2. QED
    BY <1>1 DEF Safe, EvidenceFirst, AnswerIsDurable, SnapshotIsFresh,
                PipelineFacts, RowFacts, ReplayFacts

\* The inductive invariant of the ingestion boundary.
THEOREM IngestInvariant == Spec => []IInv
  <1>1. Init => IInv
    BY InitType, InitSafe, IngestAssumption DEF IInv
  <1>2. IInv /\ [Next]_vars => IInv'
    BY NextType, NextSafe, IngestAssumption DEF IInv
  <1>3. QED BY <1>1, <1>2, PTL DEF Spec

\* Nothing is published or spooled whose bytes are not in the vault.
THEOREM EvidenceAlwaysFirst == Spec => []EvidenceFirst
  <1>1. IInv => EvidenceFirst
    BY DEF IInv, Safe
  <1>2. QED BY <1>1, IngestInvariant, PTL

\* An accepted event stays on the topic and a spooled one in the outbox until
\* it is on the topic, across every crash, shutdown and replay.
THEOREM AnswersStayDurable == Spec => []AnswerIsDurable
  <1>1. IInv => AnswerIsDurable
    BY DEF IInv, Safe
  <1>2. QED BY <1>1, IngestInvariant, PTL
-----------------------------------------------------------------------------
(* The refinement: every step is a step of DurableIngestion or a stutter.    *)

AcceptedEvents == {e \in Events : pc[e] = "accepted"}

\* A task that neither leaves nor reaches "accepted" leaves the answers alone.
LEMMA GoStutters ==
  ASSUME TypeOK, NEW e \in Events, NEW from, NEW to, Go(e, from, to),
         from # "accepted", to # "accepted"
  PROVE  AcceptedEvents' = AcceptedEvents
  <1>1. /\ pc[e] # "accepted" /\ pc'[e] # "accepted"
        /\ \A f \in Events : f # e => pc'[f] = pc[f]
    BY DEF Go, TypeOK
  <1>2. QED BY <1>1 DEF AcceptedEvents

\* Nor does the end of tasks that have not been answered.
LEMMA AbortStutters ==
  ASSUME TypeOK, NEW S, pc' = Abort(S), \A e \in S \cap Events : pc[e] # "accepted"
  PROVE  AcceptedEvents' = AcceptedEvents
  <1>1. \A e \in Events : pc'[e] = IF e \in S THEN "aborted" ELSE pc[e]
    BY DEF Abort
  <1>2. QED BY <1>1 DEF AcceptedEvents

\* The stores of a step that changes none of them.
LEMMA DurableStutters ==
  ASSUME UNCHANGED durable
  PROVE  vault' = vault /\ outbox' = outbox /\ Published' = Published
  BY DEF durable, Published

LEMMA NextRefines ==
  ASSUME IngestAssumption, IInv, [Next]_vars
  PROVE  [Promise!ANext]_(Promise!avars)
  <1> USE EventSets
  <1> DEFINE Still == /\ vault' = vault /\ outbox' = outbox
                      /\ Published' = Published
                      /\ AcceptedEvents' = AcceptedEvents
             Goal == [Promise!ANext]_(Promise!avars)
  <1>t. TypeOK
    BY DEF IInv
  <1>s. Still => Goal
    BY DEF Promise!avars, AcceptedEvents
  <1>a. ASSUME UNCHANGED durable, UNCHANGED pc PROVE Goal
    BY <1>a, <1>s, DurableStutters DEF AcceptedEvents
  <1>1. ASSUME NEW e \in HttpEvents, HttpReceive(e) PROVE Goal
    BY <1>1, <1>s, <1>t, GoStutters, DurableStutters DEF HttpReceive
  <1>2. ASSUME NEW e \in UdpEvents, UdpReceive(e) PROVE Goal
    <2>1. \E to \in {"queued", "dropped"} : Go(e, "new", to)
      BY <1>2 DEF UdpReceive
    <2>2. UNCHANGED durable
      BY <1>2 DEF UdpReceive
    <2>3. QED BY <2>1, <2>2, <1>s, <1>t, GoStutters, DurableStutters
  <1>3. ASSUME UdpTake PROVE Goal
    <2>1. Head(udpQueue) \in UdpEvents
      BY <1>3 DEF UdpTake, IInv, TypeOK
    <2>2. QED BY <1>3, <2>1, <1>s, <1>t, GoStutters, DurableStutters DEF UdpTake
  <1>4. ASSUME NEW i \in DOMAIN Stream, StreamRead(i) PROVE Goal
    BY <1>4, <1>s, <1>t, GoStutters, DurableStutters DEF StreamRead
  <1>5. ASSUME NEW e \in Events, StoreLands(e) PROVE Goal
    <2>1. /\ vault' = vault \cup {e} /\ outbox' = outbox /\ Published' = Published
          /\ AcceptedEvents' = AcceptedEvents
      BY <1>5, <1>t, GoStutters DEF StoreLands, Published
    <2>2. Promise!AStore(e)
      BY <2>1 DEF Promise!AStore, AcceptedEvents
    <2>3. QED BY <2>2 DEF Promise!ANext
  <1>6. ASSUME NEW e \in Events, StoreReturns(e) PROVE Goal
    BY <1>6, <1>s, <1>t, GoStutters, DurableStutters DEF StoreReturns
  <1>7. ASSUME NEW e \in Events, StoreFails(e) PROVE Goal
    <2>1. \E from \in {"store", "stored"} : Go(e, from, "minio_error")
      BY <1>7 DEF StoreFails
    <2>2. UNCHANGED durable
      BY <1>7 DEF StoreFails
    <2>3. QED BY <2>1, <2>2, <1>s, <1>t, GoStutters, DurableStutters
  <1>8. ASSUME NEW e \in Events, PublishLands(e) PROVE Goal
    <2>1. vault' = vault /\ outbox' = outbox /\ AcceptedEvents' = AcceptedEvents
      BY <1>8, <1>t, GoStutters DEF PublishLands
    <2>2. Published' = Published \cup {e}
      BY <1>8, <1>t, PublishedAppend DEF PublishLands, TypeOK
    <2>3. e \in vault
      BY <1>8 DEF PublishLands, Go, IInv, Safe, PipelineFacts
    <2>4. Promise!ADeliver(e)
      BY <2>1, <2>2, <2>3 DEF Promise!ADeliver, AcceptedEvents
    <2>5. QED BY <2>4 DEF Promise!ANext
  <1>9. ASSUME NEW e \in Events, PublishReturns(e) PROVE Goal
    <2>1. vault' = vault /\ outbox' = outbox /\ Published' = Published
      BY <1>9, DurableStutters DEF PublishReturns
    <2>2. /\ pc'[e] = "accepted" /\ \A f \in Events : f # e => pc'[f] = pc[f]
          /\ e \in Published
      BY <1>9 DEF PublishReturns, Go, IInv, TypeOK, Safe, PipelineFacts
    <2>3. AcceptedEvents' = AcceptedEvents \cup {e}
      BY <2>2 DEF AcceptedEvents
    <2>4. Promise!AAccept(e)
      BY <2>1, <2>2, <2>3 DEF Promise!AAccept, AcceptedEvents
    <2>5. QED BY <2>4 DEF Promise!ANext
  <1>10. ASSUME NEW e \in Events, PublishFails(e) PROVE Goal
    <2>1. \E from \in {"publish", "sent"} : Go(e, from, "spool")
      BY <1>10 DEF PublishFails
    <2>2. UNCHANGED durable
      BY <1>10 DEF PublishFails
    <2>3. QED BY <2>1, <2>2, <1>s, <1>t, GoStutters, DurableStutters
  <1>11. ASSUME NEW e \in Events, SpoolLands(e) PROVE Goal
    <2>1. /\ vault' = vault /\ outbox' = outbox \cup {e} /\ Published' = Published
          /\ AcceptedEvents' = AcceptedEvents
      BY <1>11, <1>t, GoStutters DEF SpoolLands, Published
    <2>2. e \in vault
      BY <1>11 DEF SpoolLands, Go, IInv, Safe, PipelineFacts
    <2>3. Promise!APark(e)
      BY <2>1, <2>2 DEF Promise!APark, AcceptedEvents
    <2>4. QED BY <2>3 DEF Promise!ANext
  <1>12. ASSUME NEW e \in Events, SpoolFails(e) PROVE Goal
    BY <1>12, <1>s, <1>t, GoStutters, DurableStutters DEF SpoolFails
  <1>13. ASSUME RecoveryCheck \/ RecoveryUnhealthy \/ ReplaySnapshot
                \/ ReplayReturns \/ ReplayFails \/ ReadinessProbe \/ Boot
                \/ CloseOutbox
         PROVE  Goal
    BY <1>13, <1>a DEF RecoveryCheck, RecoveryUnhealthy, ReplaySnapshot,
       ReplayReturns, ReplayFails, ReadinessProbe, Boot, CloseOutbox
  <1>14. ASSUME NEW e \in Events, ReplayLands(e) PROVE Goal
    <2>1. vault' = vault /\ outbox' = outbox /\ AcceptedEvents' = AcceptedEvents
      BY <1>14 DEF ReplayLands, AcceptedEvents
    <2>2. Published' = Published \cup {e}
      BY <1>14, <1>t, PublishedAppend DEF ReplayLands, TypeOK
    <2>3. e \in vault
      BY <1>14 DEF ReplayLands, Current, IInv, Safe, SnapshotIsFresh, EvidenceFirst
    <2>4. Promise!ADeliver(e)
      BY <2>1, <2>2, <2>3 DEF Promise!ADeliver, AcceptedEvents
    <2>5. QED BY <2>4 DEF Promise!ANext
  <1>15. ASSUME NEW e \in Events, ReplayDelete(e) PROVE Goal
    <2>1. /\ vault' = vault /\ outbox' = outbox \ {e} /\ Published' = Published
          /\ AcceptedEvents' = AcceptedEvents
      BY <1>15 DEF ReplayDelete, AcceptedEvents, Published
    <2>2. e \in Published
      BY <1>15 DEF ReplayDelete, IInv, Safe, ReplayFacts
    <2>3. Promise!AForget(e)
      BY <2>1, <2>2 DEF Promise!AForget, AcceptedEvents
    <2>4. QED BY <2>3 DEF Promise!ANext
  <1>16. ASSUME StopUdp PROVE Goal
    <2> DEFINE S == {e \in UdpEvents : pc[e] \in InFlight \cup {"queued"}}
    <2>1. pc' = Abort(S) /\ UNCHANGED durable
      BY <1>16 DEF StopUdp
    <2>2. \A e \in S \cap Events : pc[e] # "accepted"
      BY DEF InFlight
    <2>3. AcceptedEvents' = AcceptedEvents
      BY <2>1, <2>2, <1>t, AbortStutters
    <2>4. QED BY <2>1, <2>3, <1>s, DurableStutters
  <1>17. ASSUME StopTcpAndKafka PROVE Goal
    <2>1. pc' = Abort(Unread) /\ UNCHANGED durable
      BY <1>17 DEF StopTcpAndKafka
    <2>2. \A e \in Unread \cap Events : pc[e] # "accepted"
      BY DEF Unread
    <2>3. AcceptedEvents' = AcceptedEvents
      BY <2>1, <2>2, <1>t, AbortStutters
    <2>4. QED BY <2>1, <2>3, <1>s, DurableStutters
  <1>18. ASSUME Crash PROVE Goal
    <2> DEFINE S == {e \in Events : pc[e] \in InFlight \cup {"queued"}} \cup Unread
    <2>1. pc' = Abort(S) /\ UNCHANGED durable
      BY <1>18 DEF Crash
    <2>2. \A e \in S \cap Events : pc[e] # "accepted"
      BY DEF InFlight, Unread
    <2>3. AcceptedEvents' = AcceptedEvents
      BY <2>1, <2>2, <1>t, AbortStutters
    <2>4. QED BY <2>1, <2>3, <1>s, DurableStutters
  <1>19. ASSUME UNCHANGED vars PROVE Goal
    BY <1>19, <1>a DEF vars, durable
  <1>20. QED
    BY <1>1, <1>2, <1>3, <1>4, <1>5, <1>6, <1>7, <1>8, <1>9, <1>10, <1>11, <1>12,
       <1>13, <1>14, <1>15, <1>16, <1>17, <1>18, <1>19
    DEF Next, Receive, Proceed, Replay

\* The ingestion boundary keeps the promise of DurableIngestion: bytes are
\* stored before anything else, only stored events are delivered or parked, a
\* parked one is forgotten only once delivered, and "accepted" is said only of
\* a delivered one.
THEOREM IngestionKeepsPromise == Spec => ImplementsDurableIngestion
  <1>1. Init => Promise!AInit
    <2> SUFFICES ASSUME Init PROVE Promise!AInit
      OBVIOUS
    <2>1. Published = {} /\ vault = {} /\ outbox = {} /\ AcceptedEvents = {}
      BY DEF Init, Published, AcceptedEvents
    <2>2. QED BY <2>1 DEF Promise!AInit, AcceptedEvents
  <1>2. IInv /\ [Next]_vars => [Promise!ANext]_(Promise!avars)
    BY NextRefines, IngestAssumption
  <1>3. QED
    BY <1>1, <1>2, IngestInvariant, PTL DEF Spec, ImplementsDurableIngestion, Promise!ASpec
-----------------------------------------------------------------------------
(* Duplicates.  A second copy of an event is appended only by a replay, and   *)
(* long before that a fault decided that it would be: the invariant counts    *)
(* the copies still owed as well as those on the topic.                       *)

\* The row the worker published and has not deleted yet.
BeingDeleted(e) == rpc \in {"sent", "delete"} /\ Current(e)

\* Published events that will be published once more unless something fails:
\* their time-out came after the append, or the deletion of their row was lost.
Owed == {e \in Published : pc[e] = "spool" \/ (e \in outbox /\ ~BeingDeleted(e))}

\* Only an event past its publish step is on the topic.
Unpublished ==
  \A e \in Events :
    pc[e] \in {"new", "queued", "store", "stored", "publish"} => e \notin Published

\* The recovery worker runs only while the process is fully up.
WorkerUp == phase # "up" => rpc = "off"

CopiesPaid == /\ IsFiniteSet(Published)
              /\ Len(topic) + Cardinality(Owed) <= Cardinality(Published) + faults

DInv == Unpublished /\ WorkerUp /\ CopiesPaid

LEMMA OwedIsFinite ==
  ASSUME CopiesPaid
  PROVE  /\ IsFiniteSet(Owed) /\ Cardinality(Owed) \in Nat
         /\ Cardinality(Published) \in Nat
  <1>1. Owed \in SUBSET Published
    BY DEF Owed
  <1>2. IsFiniteSet(Owed)
    BY <1>1, FS_Subset DEF CopiesPaid
  <1>3. QED BY <1>2, FS_CardinalityType DEF CopiesPaid

\* With the topic as it was, a step owes no new copy or one that a fault pays.
LEMMA CopiesStillPaid ==
  ASSUME TypeOK, TypeOK', CopiesPaid, topic' = topic, NEW x,
         \/ Owed' \subseteq Owed /\ (faults' = faults \/ faults' = faults + 1)
         \/ Owed' \subseteq Owed \cup {x} /\ faults' = faults + 1
  PROVE  CopiesPaid'
  <1>1. /\ Published' = Published /\ Len(topic') = Len(topic) /\ Len(topic) \in Nat
        /\ faults \in Nat /\ faults' \in Nat
    BY DEF Published, TypeOK
  <1>2. /\ IsFiniteSet(Owed) /\ Cardinality(Owed) \in Nat
        /\ Cardinality(Published) \in Nat /\ IsFiniteSet(Published)
    BY OwedIsFinite DEF CopiesPaid
  <1>3. /\ IsFiniteSet(Owed \cup {x})
        /\ Cardinality(Owed \cup {x}) \in Nat
        /\ Cardinality(Owed \cup {x}) <= Cardinality(Owed) + 1
    <2>1. /\ IsFiniteSet(Owed \cup {x})
          /\ Cardinality(Owed \cup {x}) =
               IF x \in Owed THEN Cardinality(Owed) ELSE Cardinality(Owed) + 1
      BY <1>2, FS_AddElement
    <2>2. QED BY <1>2, <2>1
  <1>4. CASE Owed' \subseteq Owed /\ (faults' = faults \/ faults' = faults + 1)
    <2>1. Cardinality(Owed') <= Cardinality(Owed) /\ Cardinality(Owed') \in Nat
      BY <1>2, <1>4, FS_Subset, FS_CardinalityType
    <2>2. QED BY <1>1, <1>2, <1>4, <2>1 DEF CopiesPaid
  <1>5. CASE Owed' \subseteq Owed \cup {x} /\ faults' = faults + 1
    <2>1. /\ Cardinality(Owed') <= Cardinality(Owed \cup {x})
          /\ Cardinality(Owed') \in Nat
      BY <1>3, <1>5, FS_Subset, FS_CardinalityType
    <2>2. QED BY <1>1, <1>2, <1>3, <1>5, <2>1 DEF CopiesPaid
  <1>6. QED BY <1>4, <1>5

\* The places of an event before its publish step.
Early == {"new", "queued", "store", "stored", "publish"}

\* A step of one event that leaves the stores and the worker alone.
LEMMA GoOwes ==
  ASSUME TypeOK, TypeOK', DInv, NEW e \in Events, NEW from, NEW to,
         Go(e, from, to), UNCHANGED <<durable, worker>>,
         to \in Early => from \in Early,
         faults' = faults \/ faults' = faults + 1,
         to = "spool" => faults' = faults + 1 \/ from = "publish"
  PROVE  Unpublished' /\ CopiesPaid'
  <1>1. /\ topic' = topic /\ outbox' = outbox /\ created' = created
        /\ rpc' = rpc /\ batch' = batch /\ Published' = Published
    BY DEF durable, worker, Published
  <1>2. /\ pc[e] = from /\ pc'[e] = to
        /\ \A f \in Events : f # e => pc'[f] = pc[f]
    BY DEF Go, TypeOK
  <1>3. Unpublished'
    BY <1>1, <1>2 DEF DInv, Unpublished, Early
  <1>4. \A f : BeingDeleted(f)' <=> BeingDeleted(f)
    BY <1>1 DEF BeingDeleted, Current
  <1>5. Published \subseteq Events
    BY DEF TypeOK, Published
  <1>6. Owed' \subseteq Owed \cup {e}
    BY <1>1, <1>2, <1>4, <1>5 DEF Owed
  <1>7. to # "spool" => Owed' \subseteq Owed
    BY <1>1, <1>2, <1>4, <1>5 DEF Owed
  <1>8. from = "publish" => Owed' \subseteq Owed
    <2>1. from = "publish" => e \notin Published
      BY <1>2 DEF DInv, Unpublished
    <2>2. QED BY <1>1, <1>2, <1>4, <1>5, <2>1 DEF Owed
  <1>9. CopiesPaid'
    BY <1>1, <1>6, <1>7, <1>8, CopiesStillPaid DEF DInv
  <1>10. QED BY <1>3, <1>9

\* A step that leaves the stores alone and may end tasks: either the worker
\* is at no published row before it, or a fault pays for the one it is at.
LEMMA StopOwes ==
  ASSUME IngestAssumption, IInv, TypeOK', DInv, UNCHANGED durable,
         \A e \in Events : pc'[e] = pc[e] \/ pc'[e] = "aborted",
         \/ /\ \A e \in Events : BeingDeleted(e) => BeingDeleted(e)'
            /\ faults' = faults \/ faults' = faults + 1
         \/ faults' = faults + 1
  PROVE  Unpublished' /\ CopiesPaid'
  <1>1. topic' = topic /\ outbox' = outbox /\ Published' = Published
    BY DEF durable, Published
  <1>2. Published \subseteq Events /\ TypeOK
    BY DEF IInv, TypeOK, Published
  <1>3. Unpublished'
    BY <1>1 DEF DInv, Unpublished
  <1>4. \A e, f \in Events : BeingDeleted(e) /\ BeingDeleted(f) => e = f
    <2> SUFFICES ASSUME NEW e \in Events, NEW f \in Events,
                        BeingDeleted(e), BeingDeleted(f)
                 PROVE  e = f
      OBVIOUS
    <2>1. e \in outbox /\ f \in outbox /\ created[e] <= created[f]
          /\ created[f] <= created[e]
      BY DEF BeingDeleted, Current, IInv, Safe, SnapshotIsFresh
    <2>2. created[e] \in Nat /\ created[f] \in Nat
      BY DEF IInv, TypeOK
    <2>3. created[e] = created[f]
      BY <2>1, <2>2
    <2>4. QED BY <2>1, <2>3 DEF IInv, Safe, RowFacts
  <1>5. CASE \A e \in Events : BeingDeleted(e) => BeingDeleted(e)'
    <2>1. Owed' \subseteq Owed
      BY <1>1, <1>2, <1>5 DEF Owed
    <2>2. QED BY <1>1, <1>2, <1>3, <2>1, CopiesStillPaid DEF DInv
  <1>6. CASE faults' = faults + 1
    <2>1. PICK x : \A e \in Events : BeingDeleted(e) => e = x
      BY <1>4
    <2>2. Owed' \subseteq Owed \cup {x}
      BY <1>1, <1>2, <2>1 DEF Owed
    <2>3. QED BY <1>1, <1>2, <1>3, <1>6, <2>2, CopiesStillPaid DEF DInv
  <1>7. QED BY <1>5, <1>6

\* Appending the record of e: the topic grows by one, and either what is
\* published does too, or a copy owed is paid back.
LEMMA AppendOwes ==
  ASSUME IngestAssumption, TypeOK, TypeOK', CopiesPaid, NEW e \in Events,
         topic' = Append(topic, e), faults' = faults,
         Owed' \subseteq Owed \ {e}, e \in Published => e \in Owed
  PROVE  CopiesPaid'
  <1>1. /\ Published' = Published \cup {e}
        /\ Len(topic') = Len(topic) + 1 /\ Len(topic) \in Nat
    BY PublishedAppend, AppendProperties DEF TypeOK
  <1>2. /\ IsFiniteSet(Owed) /\ Cardinality(Owed) \in Nat
        /\ Cardinality(Published) \in Nat /\ IsFiniteSet(Published)
        /\ faults \in Nat
    BY OwedIsFinite DEF CopiesPaid, TypeOK
  <1>3. /\ IsFiniteSet(Published \cup {e})
        /\ Cardinality(Published \cup {e}) =
             IF e \in Published THEN Cardinality(Published)
                                ELSE Cardinality(Published) + 1
    BY <1>2, FS_AddElement
  <1>4. /\ IsFiniteSet(Owed \ {e})
        /\ Cardinality(Owed \ {e}) =
             IF e \in Owed THEN Cardinality(Owed) - 1 ELSE Cardinality(Owed)
    BY <1>2, FS_RemoveElement
  <1>5. Cardinality(Owed') <= Cardinality(Owed \ {e}) /\ Cardinality(Owed') \in Nat
    BY <1>4, FS_Subset, FS_CardinalityType
  <1>6. Owed \subseteq Published
    BY DEF Owed
  <1>7. QED BY <1>1, <1>2, <1>3, <1>4, <1>5, <1>6 DEF CopiesPaid

LEMMA NextWorkerUp ==
  ASSUME TypeOK, WorkerUp, [Next]_vars
  PROVE  WorkerUp'
  <1> USE DEF WorkerUp
  <1>1. CASE Receive
    BY <1>1 DEF Receive, HttpReceive, UdpReceive, StreamRead, worker
  <1>2. CASE UdpTake
    BY <1>2 DEF UdpTake, worker
  <1>3. CASE \E e \in Events : Proceed(e) \/ StoreFails(e) \/ SpoolFails(e)
    BY <1>3 DEF Proceed, StoreLands, StoreReturns, PublishLands, PublishReturns,
       PublishFails, SpoolLands, StoreFails, SpoolFails, worker
  <1>4. CASE Replay \/ RecoveryUnhealthy
    BY <1>4 DEF Replay, RecoveryCheck, ReplaySnapshot, ReplayReturns, ReplayLands,
       ReplayDelete, ReplayFails, RecoveryUnhealthy, worker
  <1>5. CASE ReadinessProbe \/ Boot \/ CloseOutbox \/ Crash
    BY <1>5 DEF ReadinessProbe, Boot, CloseOutbox, Crash, worker
  <1>6. CASE StopUdp \/ StopTcpAndKafka
    BY <1>6 DEF StopUdp, StopTcpAndKafka, worker
  <1>7. CASE UNCHANGED vars
    BY <1>7 DEF vars
  <1>8. QED BY <1>1, <1>2, <1>3, <1>4, <1>5, <1>6, <1>7 DEF Next

LEMMA NextCopies ==
  ASSUME IngestAssumption, IInv, TypeOK', DInv, [Next]_vars
  PROVE  Unpublished' /\ CopiesPaid'
  <1> USE EventSets
  <1> DEFINE Goal == Unpublished' /\ CopiesPaid'
  <1>t. TypeOK /\ Published \subseteq Events
    BY DEF IInv, TypeOK, Published
  <1>1. ASSUME NEW e \in HttpEvents, HttpReceive(e) PROVE Goal
    BY <1>1, <1>t, GoOwes DEF HttpReceive, Early
  <1>2. ASSUME NEW e \in UdpEvents, UdpReceive(e) PROVE Goal
    <2>1. \E to \in {"queued", "dropped"} : Go(e, "new", to)
      BY <1>2 DEF UdpReceive
    <2>2. UNCHANGED <<durable, worker>> /\ faults' = faults
      BY <1>2 DEF UdpReceive
    <2>3. QED BY <2>1, <2>2, <1>t, GoOwes DEF Early
  <1>3. ASSUME UdpTake PROVE Goal
    <2>1. Head(udpQueue) \in UdpEvents
      BY <1>3 DEF UdpTake, IInv, TypeOK
    <2>2. QED BY <1>3, <2>1, <1>t, GoOwes DEF UdpTake, Early
  <1>4. ASSUME NEW i \in DOMAIN Stream, StreamRead(i) PROVE Goal
    BY <1>4, <1>t, GoOwes DEF StreamRead, Early
  <1>5. ASSUME NEW e \in Events, StoreLands(e) PROVE Goal
    <2>1. /\ topic' = topic /\ outbox' = outbox /\ created' = created
          /\ rpc' = rpc /\ batch' = batch /\ Published' = Published
          /\ faults' = faults
      BY <1>5 DEF StoreLands, worker, Published
    <2>2. /\ pc[e] = "store" /\ pc'[e] = "stored"
          /\ \A f \in Events : f # e => pc'[f] = pc[f]
      BY <1>5, <1>t DEF StoreLands, Go, TypeOK
    <2>3. Owed' \subseteq Owed
      BY <2>1, <2>2, <1>t DEF Owed, BeingDeleted, Current
    <2>4. Unpublished'
      BY <2>1, <2>2 DEF DInv, Unpublished
    <2>5. QED BY <2>1, <2>3, <2>4, <1>t, CopiesStillPaid DEF DInv
  <1>6. ASSUME NEW e \in Events, StoreReturns(e) PROVE Goal
    BY <1>6, <1>t, GoOwes DEF StoreReturns, Early
  <1>7. ASSUME NEW e \in Events, StoreFails(e) PROVE Goal
    <2>1. \E from \in {"store", "stored"} : Go(e, from, "minio_error")
      BY <1>7 DEF StoreFails
    <2>2. UNCHANGED <<durable, worker>> /\ faults' = faults + 1
      BY <1>7 DEF StoreFails, Fault
    <2>3. QED BY <2>1, <2>2, <1>t, GoOwes DEF Early
  <1>8. ASSUME NEW e \in Events, PublishLands(e) PROVE Goal
    <2>1. /\ outbox' = outbox /\ topic' = Append(topic, e) /\ created' = created
          /\ rpc' = rpc /\ batch' = batch /\ faults' = faults
      BY <1>8 DEF PublishLands, worker
    <2>2. Published' = Published \cup {e}
      BY <2>1, <1>t, PublishedAppend DEF TypeOK
    <2>3. /\ pc[e] = "publish" /\ pc'[e] = "sent"
          /\ \A f \in Events : f # e => pc'[f] = pc[f]
      BY <1>8, <1>t DEF PublishLands, Go, TypeOK
    <2>4. e \notin Published /\ e \notin outbox
      BY <2>3 DEF DInv, Unpublished, IInv, Safe, RowFacts
    <2>5. Owed' \subseteq Owed \ {e}
      BY <2>1, <2>2, <2>3, <2>4, <1>t DEF Owed, BeingDeleted, Current
    <2>6. Unpublished'
      BY <2>2, <2>3 DEF DInv, Unpublished
    <2>7. QED BY <2>1, <2>4, <2>5, <2>6, <1>t, AppendOwes DEF DInv
  <1>9. ASSUME NEW e \in Events, PublishReturns(e) PROVE Goal
    BY <1>9, <1>t, GoOwes DEF PublishReturns, Early
  <1>10. ASSUME NEW e \in Events, PublishFails(e) PROVE Goal
    <2>1. UNCHANGED <<durable, worker>>
      BY <1>10 DEF PublishFails
    <2>2. CASE NoFault /\ Go(e, "publish", "spool")
      BY <2>1, <2>2, <1>t, GoOwes DEF NoFault, Early
    <2>3. CASE Fault /\ \E from \in {"publish", "sent"} : Go(e, from, "spool")
      <3>1. faults' = faults + 1
        BY <2>3 DEF Fault
      <3>2. QED BY <2>1, <2>3, <3>1, <1>t, GoOwes DEF Early
    <2>4. QED BY <1>10, <2>2, <2>3 DEF PublishFails
  <1>11. ASSUME NEW e \in Events, SpoolLands(e) PROVE Goal
    <2>1. /\ topic' = topic /\ rpc' = rpc /\ batch' = batch /\ faults' = faults
          /\ outbox' = outbox \cup {e} /\ Published' = Published
      BY <1>11 DEF SpoolLands, worker, Published
    <2>2. /\ pc[e] = "spool" /\ pc'[e] = "spooled"
          /\ \A f \in Events : f # e => pc'[f] = pc[f]
      BY <1>11, <1>t DEF SpoolLands, Go, TypeOK
    <2>3. \A f \in Events : f # e => created'[f] = created[f]
      BY <1>11, <1>t DEF SpoolLands, TypeOK
    <2>4. e \notin batch /\ batch \subseteq Events
      BY <2>2, <1>t DEF IInv, Safe, RowFacts, SnapshotIsFresh, TypeOK
    <2>5. \A f \in Events : BeingDeleted(f)' <=> BeingDeleted(f)
      BY <2>1, <2>3, <2>4 DEF BeingDeleted, Current
    <2>6. Owed' \subseteq Owed
      BY <2>1, <2>2, <2>5, <1>t DEF Owed
    <2>7. Unpublished'
      BY <2>1, <2>2 DEF DInv, Unpublished
    <2>8. QED BY <2>1, <2>6, <2>7, <1>t, CopiesStillPaid DEF DInv
  <1>12. ASSUME NEW e \in Events, SpoolFails(e) PROVE Goal
    BY <1>12, <1>t, GoOwes DEF SpoolFails, Fault, Early
  <1>13. ASSUME RecoveryCheck \/ ReplaySnapshot PROVE Goal
    <2>1. /\ UNCHANGED durable /\ pc' = pc /\ faults' = faults
          /\ rpc \notin {"sent", "delete"}
      BY <1>13 DEF RecoveryCheck, ReplaySnapshot
    <2>2. QED BY <2>1, StopOwes DEF BeingDeleted
  <1>14. ASSUME RecoveryUnhealthy \/ CloseOutbox PROVE Goal
    BY <1>14, StopOwes DEF RecoveryUnhealthy, CloseOutbox, Fault
  <1>15. ASSUME ReplayFails PROVE Goal
    <2>1. UNCHANGED durable /\ pc' = pc
      BY <1>15 DEF ReplayFails
    <2>2. \/ faults' = faults /\ \A e \in Events : ~BeingDeleted(e)
          \/ faults' = faults + 1
      BY <1>15 DEF ReplayFails, BeingDeleted, Fault, NoFault
    <2>3. QED BY <2>1, <2>2, StopOwes
  <1>16. ASSUME ReplayReturns \/ ReadinessProbe PROVE Goal
    <2>1. UNCHANGED durable /\ pc' = pc /\ faults' = faults
      BY <1>16 DEF ReplayReturns, ReadinessProbe
    <2>2. \A e \in Events : BeingDeleted(e) => BeingDeleted(e)'
      BY <1>16 DEF ReplayReturns, ReadinessProbe, BeingDeleted, Current, durable, worker
    <2>3. QED BY <2>1, <2>2, StopOwes
  <1>17. ASSUME NEW e \in Events, ReplayLands(e) PROVE Goal
    <2>1. /\ outbox' = outbox /\ topic' = Append(topic, e) /\ created' = created
          /\ pc' = pc /\ rpc = "publish" /\ rpc' = "sent" /\ batch' = batch
          /\ faults' = faults /\ Current(e)
      BY <1>17 DEF ReplayLands
    <2>2. Published' = Published \cup {e}
      BY <2>1, <1>t, PublishedAppend DEF TypeOK
    <2>3. e \in outbox /\ BeingDeleted(e)' /\ ~BeingDeleted(e)
      BY <2>1 DEF BeingDeleted, Current, IInv, Safe, SnapshotIsFresh
    <2>4. e \in Published => e \in Owed
      BY <2>3 DEF Owed
    <2>5. pc[e] = "spooled"
      BY <2>3 DEF IInv, Safe, RowFacts
    <2>6. Owed' \subseteq Owed \ {e}
      BY <2>1, <2>2, <2>3, <2>5, <1>t DEF Owed, BeingDeleted
    <2>7. Unpublished'
      BY <2>1, <2>2, <2>5 DEF DInv, Unpublished
    <2>8. QED BY <2>1, <2>4, <2>6, <2>7, <1>t, AppendOwes DEF DInv
  <1>18. ASSUME NEW e \in Events, ReplayDelete(e) PROVE Goal
    <2>1. /\ topic' = topic /\ pc' = pc /\ created' = created /\ faults' = faults
          /\ Published' = Published /\ outbox' = outbox \ {e}
          /\ rpc = "delete" /\ Current(e)
      BY <1>18 DEF ReplayDelete, Published
    <2>2. \A f \in outbox : f # e => ~BeingDeleted(f)
      <3> SUFFICES ASSUME NEW f \in outbox, Current(f) PROVE f = e
        BY DEF BeingDeleted
      <3>1. e \in outbox /\ created[e] <= created[f] /\ created[f] <= created[e]
        BY <2>1 DEF Current, IInv, Safe, SnapshotIsFresh
      <3>2. created[e] \in Nat /\ created[f] \in Nat
        BY <1>t DEF TypeOK
      <3>3. created[e] = created[f]
        BY <3>1, <3>2
      <3>4. QED BY <3>1, <3>3 DEF IInv, Safe, RowFacts
    <2>3. Owed' \subseteq Owed
      BY <2>1, <2>2 DEF Owed
    <2>4. Unpublished'
      BY <2>1 DEF DInv, Unpublished
    <2>5. QED BY <2>1, <2>3, <2>4, <1>t, CopiesStillPaid DEF DInv
  <1>19. ASSUME Boot PROVE Goal
    <2>1. UNCHANGED durable /\ pc' = pc /\ (faults' = faults \/ faults' = faults + 1)
      BY <1>19 DEF Boot, Fault, NoFault
    <2>2. rpc = "off"
      BY <1>19 DEF Boot, DInv, WorkerUp
    <2>3. QED BY <2>1, <2>2, StopOwes DEF BeingDeleted
  <1>20. ASSUME StopUdp \/ StopTcpAndKafka PROVE Goal
    <2>1. UNCHANGED durable /\ UNCHANGED worker /\ faults' = faults
      BY <1>20 DEF StopUdp, StopTcpAndKafka
    <2>2. \A e \in Events : pc'[e] = pc[e] \/ pc'[e] = "aborted"
      BY <1>20 DEF StopUdp, StopTcpAndKafka, Abort
    <2>3. \A e \in Events : BeingDeleted(e) => BeingDeleted(e)'
      BY <2>1 DEF BeingDeleted, Current, durable, worker
    <2>4. QED BY <2>1, <2>2, <2>3, StopOwes
  <1>21. ASSUME Crash PROVE Goal
    <2>1. \A e \in Events : pc'[e] = pc[e] \/ pc'[e] = "aborted"
      BY <1>21 DEF Crash, Abort
    <2>2. UNCHANGED durable /\ faults' = faults + 1
      BY <1>21 DEF Crash, Fault
    <2>3. QED BY <2>1, <2>2, StopOwes
  <1>22. ASSUME UNCHANGED vars PROVE Goal
    <2>1. UNCHANGED durable /\ pc' = pc /\ faults' = faults
      BY <1>22 DEF vars, durable
    <2>2. \A e \in Events : BeingDeleted(e) => BeingDeleted(e)'
      BY <1>22 DEF BeingDeleted, Current, vars
    <2>3. QED BY <2>1, <2>2, StopOwes
  <1>23. QED
    BY <1>1, <1>2, <1>3, <1>4, <1>5, <1>6, <1>7, <1>8, <1>9, <1>10, <1>11, <1>12,
       <1>13, <1>14, <1>15, <1>16, <1>17, <1>18, <1>19, <1>20, <1>21, <1>22
    DEF Next, Receive, Proceed, Replay

LEMMA InitCopies == ASSUME IngestAssumption, Init PROVE DInv
  <1>1. Published = {} /\ Owed = {} /\ topic = <<>> /\ faults = 0
    BY DEF Init, Published, Owed
  <1>2. Len(topic) = 0 /\ Cardinality({}) = 0 /\ IsFiniteSet({})
    BY <1>1, FS_EmptySet
  <1>3. QED BY <1>1, <1>2 DEF DInv, Unpublished, WorkerUp, CopiesPaid, Init

\* However often the broker times out, a delete fails or the process dies in a
\* replay, the raw topic holds at most one extra copy for each of these faults.
THEOREM DuplicatesAreExplained == Spec => []DuplicatesExplained
  <1>1. Init => DInv
    BY InitCopies, IngestAssumption
  <1>2. IInv /\ IInv' /\ DInv /\ [Next]_vars => DInv'
    <2>1. IInv' => TypeOK'
      BY DEF IInv
    <2>2. IInv => TypeOK
      BY DEF IInv
    <2>3. QED BY <2>1, <2>2, NextCopies, NextWorkerUp, IngestAssumption DEF DInv
  <1>3. IInv /\ DInv => DuplicatesExplained
    <2> SUFFICES ASSUME IInv, DInv PROVE DuplicatesExplained
      OBVIOUS
    <2>1. /\ Cardinality(Owed) \in Nat /\ Cardinality(Published) \in Nat
          /\ Len(topic) \in Nat /\ faults \in Nat
      BY OwedIsFinite DEF DInv, IInv, TypeOK
    <2>2. QED BY <2>1 DEF DInv, CopiesPaid, DuplicatesExplained
  <1>4. QED BY <1>1, <1>2, <1>3, IngestInvariant, PTL DEF Spec
=============================================================================
