------------------------ MODULE DeliveryEngineProofs -------------------------
(***************************************************************************)
(* DeliveryEngine for every set of requests, events, rules and             *)
(* destinations, every retry limit and number of faults and crashes: what  *)
(* a processed event, the tracker and the copies at a destination say.     *)
(***************************************************************************)
EXTENDS DeliveryEngine, SequenceTheorems, FiniteSetTheorems, TLAPS

\* The copies a delivery's event has at its destination.
Copies(x) == stored[x[2]][EventOf[x[1]]]

\* Where each place of deliver_to_connector leaves the attempt, the stores and
\* the dead-letter file.
PlaceFacts ==
  \A x \in Deliveries :
    /\ req[x[1]] = "new" => dpc[x] = "none"
    /\ dpc[x] = "none" => attempt[x] = 0
    /\ dpc[x] \in {"ready", "backoff"} => attempt[x] < MaxRetries
    /\ dpc[x] \in {"wire", "answer"} => x[2] \notin Mock \cup {Lake}
    /\ dpc[x] = "answer" => Copies(x) > 0
    /\ dpc[x] = "acked" => Copies(x) > 0 \/ (x[2] \in Mock /\ crashes > 0)
    /\ dpc[x] = "dead" => Key(x) \in dlqFile

\* What the lake remembers, it holds.
SeenFacts == \A i \in DOMAIN seen : stored[Lake][seen[i]] > 0

\* The requests for e that may still reach d without a further fault.
Carriers(e) == {r \in Requests : EventOf[r] = e}
MayLand == {"none", "ready", "wire", "backoff"}
Unlanded(e, d) == {r \in Carriers(e) : dpc[<<r, d>>] \in MayLand}

CopiesPaid ==
  \A e \in Events, d \in Destinations :
    stored[d][e] + Cardinality(Unlanded(e, d)) <= Cardinality(Carriers(e)) + faults

\* While the ids fit the lake's cache none is forgotten but by a crash.
Distinct(s) == \A i, j \in DOMAIN s : s[i] = s[j] => i = j
LakePaid ==
  Cardinality(Events) <= CacheSize =>
    /\ Distinct(seen)
    /\ \A e \in Events : stored[Lake][e] + (IF Seen(e) THEN 0 ELSE 1) <= 1 + crashes

IInv == /\ TypeOK
        /\ PlaceFacts
        /\ SeenFacts
        /\ StatusTruthful
        /\ ProcessedIsAccounted
        /\ CopiesPaid
        /\ LakePaid
-----------------------------------------------------------------------------
LEMMA DeliveryParts ==
  ASSUME NEW x \in Deliveries
  PROVE  /\ x[1] \in Requests /\ x[2] \in Destinations /\ x = <<x[1], x[2]>>
         /\ EventOf[x[1]] \in Events /\ Key(x) \in Events \X Destinations
  BY DEF Deliveries, Events, Key

LEMMA PairParts ==
  ASSUME NEW r \in Requests, NEW d \in Destinations
  PROVE  /\ <<r, d>> \in Deliveries /\ EventOf[r] \in Events
         /\ Key(<<r, d>>) = <<EventOf[r], d>>
  BY DEF Deliveries, Events, Key

LEMMA TargetsAreDestinations ==
  \A r \in Requests : Targets(r) \subseteq Destinations
  BY DeliveryAssumption DEF Targets

\* Storing one event adds a copy, or keeps the one an upsert replaces.
LEMMA StoreAdds ==
  ASSUME TypeOK, NEW x \in Deliveries, Store(x)
  PROVE  /\ stored' \in [Destinations -> [Events -> Nat]]
         /\ stored'[x[2]][EventOf[x[1]]] > 0
         /\ stored'[x[2]][EventOf[x[1]]] <= stored[x[2]][EventOf[x[1]]] + 1
         /\ \A d \in Destinations, e \in Events :
              <<e, d>> # Key(x) => stored'[d][e] = stored[d][e]
  <1> DEFINE r == x[1]
             d == x[2]
             e == EventOf[r]
             n == IF d \in Upsert THEN 1 ELSE stored[d][e] + 1
  <1>1. /\ d \in Destinations /\ e \in Events /\ Key(x) = <<e, d>>
        /\ stored \in [Destinations -> [Events -> Nat]]
    BY DeliveryParts DEF TypeOK, Key
  <1>2. stored[d] \in [Events -> Nat] /\ stored[d][e] \in Nat /\ n \in Nat
    BY <1>1
  <1>3. stored' = [stored EXCEPT ![d] = [stored[d] EXCEPT ![e] = n]]
    BY <1>1, <1>2 DEF Store
  <1> HIDE DEF d, e, n
  <1>4. [stored[d] EXCEPT ![e] = n] \in [Events -> Nat]
    BY <1>1, <1>2
  <1>5. stored' \in [Destinations -> [Events -> Nat]]
    BY <1>1, <1>3, <1>4
  <1>6. stored'[d][e] = n
    BY <1>1, <1>2, <1>3
  <1>7. n > 0 /\ n <= stored[d][e] + 1
    BY <1>2 DEF n
  <1>8. ASSUME NEW c \in Destinations, NEW f \in Events, <<f, c>> # Key(x)
        PROVE  stored'[c][f] = stored[c][f]
    <2>1. CASE c # d
      BY <1>1, <1>3, <2>1
    <2>2. CASE c = d
      <3>1. f # e
        BY <1>1, <1>8, <2>2
      <3>2. QED BY <1>1, <1>2, <1>3, <2>2, <3>1
    <2>3. QED BY <2>1, <2>2
  <1>9. QED BY <1>5, <1>6, <1>7, <1>8 DEF d, e

\* What every delivery step of the process keeps: the places, the tracker and
\* the answers already given.
LEMMA DeliveryKeeps ==
  ASSUME DeliveryAssumption, IInv, NEW x \in Deliveries, NEW to \in DPC, NEW s \in Statuses,
         dpc[x] # "none", to # "none",
         dpc' = [dpc EXCEPT ![x] = to], status' = [status EXCEPT ![Key(x)] = s],
         UNCHANGED <<req, crashes>>,
         stored' \in [Destinations -> [Events -> Nat]],
         \A d \in Destinations, e \in Events : stored[d][e] > 0 => stored'[d][e] > 0,
         \A y \in Deliveries : y # x => attempt'[y] = attempt[y],
         dlqRecords \subseteq dlqRecords', dlqFile \subseteq dlqFile',
         to \in {"ready", "backoff"} => attempt'[x] < MaxRetries,
         to \in {"wire", "answer"} => x[2] \notin Mock \cup {Lake},
         to \in {"answer", "acked"} => Copies(x)' > 0,
         to = "dead" => Key(x) \in dlqFile',
         s = "ACKNOWLEDGED" => Copies(x)' > 0,
         s = "DLQ_PROMOTED" => Key(x) \in dlqRecords'
  PROVE  PlaceFacts' /\ StatusTruthful' /\ ProcessedIsAccounted'
  <1>1. /\ dpc'[x] = to /\ \A y \in Deliveries : y # x => dpc'[y] = dpc[y]
        /\ status'[Key(x)] = s
        /\ \A k \in Events \X Destinations : k # Key(x) => status'[k] = status[k]
    BY DeliveryParts DEF IInv, TypeOK
  <1>2. \A y \in Deliveries : Copies(y) > 0 => Copies(y)' > 0
    BY DeliveryParts DEF Copies
  <1>3. PlaceFacts'
    <2> SUFFICES ASSUME NEW y \in Deliveries
                 PROVE  /\ req'[y[1]] = "new" => dpc'[y] = "none"
                        /\ dpc'[y] = "none" => attempt'[y] = 0
                        /\ dpc'[y] \in {"ready", "backoff"} => attempt'[y] < MaxRetries
                        /\ dpc'[y] \in {"wire", "answer"} => y[2] \notin Mock \cup {Lake}
                        /\ dpc'[y] = "answer" => Copies(y)' > 0
                        /\ dpc'[y] = "acked" =>
                             Copies(y)' > 0 \/ (y[2] \in Mock /\ crashes' > 0)
                        /\ dpc'[y] = "dead" => Key(y)' \in dlqFile'
      BY DEF PlaceFacts
    <2>1. Key(y)' = Key(y)
      BY DEF Key
    <2>2. CASE y = x
      <3>1. req[x[1]] # "new"
        BY DEF IInv, PlaceFacts
      <3>2. QED BY <1>1, <2>1, <2>2, <3>1
    <2>3. CASE y # x
      <3>1. /\ dpc'[y] = dpc[y] /\ attempt'[y] = attempt[y] /\ req' = req
            /\ crashes' = crashes
        BY <1>1, <2>3
      <3>2. QED BY <1>2, <2>1, <3>1 DEF IInv, PlaceFacts
    <2>4. QED BY <2>2, <2>3
  <1>4. StatusTruthful'
    <2> SUFFICES ASSUME NEW e \in Events, NEW d \in Destinations
                 PROVE  /\ status'[<<e, d>>] = "ACKNOWLEDGED" => stored'[d][e] > 0
                        /\ status'[<<e, d>>] = "DLQ_PROMOTED" => <<e, d>> \in dlqRecords'
      BY DEF StatusTruthful
    <2>1. CASE <<e, d>> = Key(x)
      <3>1. e = EventOf[x[1]] /\ d = x[2]
        BY <2>1 DEF Key
      <3>2. QED BY <1>1, <2>1, <3>1 DEF Copies
    <2>2. CASE <<e, d>> # Key(x)
      <3>1. status'[<<e, d>>] = status[<<e, d>>]
        BY <1>1, <2>2
      <3>2. QED BY <3>1 DEF IInv, StatusTruthful
    <2>3. QED BY <2>1, <2>2
  <1>5. ProcessedIsAccounted'
    <2> SUFFICES ASSUME NEW r \in Requests, req[r] = "processed", NEW d \in Targets(r)
                 PROVE  \/ stored'[d][EventOf[r]] > 0 \/ <<EventOf[r], d>> \in dlqFile'
                        \/ d \in Mock /\ crashes' > 0
      BY DEF ProcessedIsAccounted, Accounted, Targets, Route, Matches
    <2>1. d \in Destinations /\ EventOf[r] \in Events
      BY TargetsAreDestinations DEF Events
    <2>2. \/ stored[d][EventOf[r]] > 0 \/ <<EventOf[r], d>> \in dlqFile
          \/ d \in Mock /\ crashes > 0
      BY DEF IInv, ProcessedIsAccounted, Accounted
    <2>3. QED BY <2>1, <2>2
  <1>6. QED BY <1>3, <1>4, <1>5
-----------------------------------------------------------------------------
(* Counting copies. *)

LEMMA UnlandedIsFinite ==
  ASSUME DeliveryAssumption, NEW e, NEW d
  PROVE  /\ IsFiniteSet(Carriers(e)) /\ Cardinality(Carriers(e)) \in Nat
         /\ IsFiniteSet(Unlanded(e, d)) /\ Cardinality(Unlanded(e, d)) \in Nat
         /\ Cardinality(Unlanded(e, d)) <= Cardinality(Carriers(e))
  <1>1. Carriers(e) \in SUBSET Requests /\ Unlanded(e, d) \in SUBSET Carriers(e)
    BY DEF Carriers, Unlanded
  <1>2. IsFiniteSet(Carriers(e))
    BY <1>1, FS_Subset DEF DeliveryAssumption
  <1>3. /\ IsFiniteSet(Unlanded(e, d))
        /\ Cardinality(Unlanded(e, d)) <= Cardinality(Carriers(e))
    BY <1>1, <1>2, FS_Subset
  <1>4. QED BY <1>2, <1>3, FS_CardinalityType

\* A delivery that stores a copy will not store another without a fault; one
\* that may store once more was brought there by a fault.
LEMMA CopiesStep ==
  ASSUME DeliveryAssumption, TypeOK, CopiesPaid, NEW x \in Deliveries, NEW to,
         dpc' = [dpc EXCEPT ![x] = to],
         stored' \in [Destinations -> [Events -> Nat]], faults' \in Nat,
         \A d \in Destinations, e \in Events :
           <<e, d>> # Key(x) => stored'[d][e] = stored[d][e],
         \/ /\ Copies(x)' = Copies(x) /\ faults' >= faults
            /\ to \in MayLand => dpc[x] \in MayLand
         \/ Copies(x)' = Copies(x) /\ faults' >= faults + 1
         \/ /\ Copies(x)' <= Copies(x) + 1 /\ faults' >= faults
            /\ dpc[x] \in MayLand /\ to \notin MayLand
  PROVE  CopiesPaid'
  <1> SUFFICES ASSUME NEW e \in Events, NEW d \in Destinations
               PROVE  stored'[d][e] + Cardinality(Unlanded(e, d)')
                        <= Cardinality(Carriers(e)) + faults'
    BY DEF CopiesPaid, Carriers
  <1> DEFINE U == Unlanded(e, d)
             V == Unlanded(e, d)'
             r == x[1]
  <1>1. /\ stored[d][e] + Cardinality(U) <= Cardinality(Carriers(e)) + faults
        /\ IsFiniteSet(U) /\ Cardinality(U) \in Nat /\ Cardinality(Carriers(e)) \in Nat
        /\ stored[d][e] \in Nat /\ faults \in Nat /\ stored'[d][e] \in Nat
    BY UnlandedIsFinite DEF CopiesPaid, TypeOK
  <1>2. dpc'[x] = to /\ \A y \in Deliveries : y # x => dpc'[y] = dpc[y]
    BY DEF TypeOK
  <1>3. V = {c \in Carriers(e) : dpc'[<<c, d>>] \in MayLand}
    BY DEF Unlanded, Carriers, MayLand
  <1>4. \A c \in Carriers(e) : <<c, d>> \in Deliveries /\ Key(<<c, d>>) = <<e, d>>
    BY PairParts DEF Carriers
  <1>5. CASE <<e, d>> # Key(x)
    <2>1. \A c \in Carriers(e) : dpc'[<<c, d>>] = dpc[<<c, d>>]
      BY <1>2, <1>4, <1>5
    <2>2. V = U
      BY <1>3, <2>1 DEF Unlanded
    <2>3. stored'[d][e] = stored[d][e] /\ faults' >= faults
      BY <1>1, <1>5
    <2> HIDE DEF U, V
    <2>4. QED BY <1>1, <2>2, <2>3 DEF V
  <1>6. CASE <<e, d>> = Key(x)
    <2>1. e = EventOf[r] /\ d = x[2] /\ x = <<r, d>> /\ r \in Carriers(e)
      BY <1>6, DeliveryParts DEF Key, Carriers
    <2>2. Copies(x) = stored[d][e] /\ Copies(x)' = stored'[d][e]
      BY <2>1 DEF Copies
    <2>3. \A c \in Carriers(e) : c # r => dpc'[<<c, d>>] = dpc[<<c, d>>]
      BY <1>2, <1>4, <2>1
    <2>4. V \subseteq U \cup {r}
      BY <1>3, <2>3 DEF Unlanded
    <2>5. CASE /\ Copies(x)' = Copies(x) /\ faults' >= faults
               /\ to \in MayLand => dpc[x] \in MayLand
      <3>1. V \subseteq U
        BY <1>2, <1>3, <2>1, <2>3, <2>5 DEF Unlanded
      <3>2. Cardinality(V) <= Cardinality(U) /\ Cardinality(V) \in Nat
        BY <1>1, <3>1, FS_Subset, FS_CardinalityType
      <3> HIDE DEF U, V
      <3>3. QED BY <1>1, <2>2, <2>5, <3>2 DEF V
    <2>6. CASE Copies(x)' = Copies(x) /\ faults' >= faults + 1
      <3>1. /\ IsFiniteSet(U \cup {r})
            /\ Cardinality(U \cup {r}) = IF r \in U THEN Cardinality(U) ELSE Cardinality(U) + 1
        BY <1>1, FS_AddElement
      <3>2. Cardinality(V) <= Cardinality(U \cup {r}) /\ Cardinality(V) \in Nat
        BY <2>4, <3>1, FS_Subset, FS_CardinalityType
      <3> HIDE DEF U, V
      <3>3. QED BY <1>1, <2>2, <2>6, <3>1, <3>2 DEF V
    <2>7. CASE /\ Copies(x)' <= Copies(x) + 1 /\ faults' >= faults
               /\ dpc[x] \in MayLand /\ to \notin MayLand
      <3>a. dpc[<<r, d>>] \in MayLand /\ dpc'[<<r, d>>] \notin MayLand
        BY <1>2, <2>1, <2>7
      <3>b. r \in U
        BY <2>1, <3>a DEF Unlanded
      <3>c. r \notin V
        BY <1>3, <3>a
      <3>1. r \in U /\ V \subseteq U \ {r}
        <4> HIDE DEF U, V
        <4> QED BY <2>4, <3>b, <3>c
      <3>2. /\ IsFiniteSet(U \ {r}) /\ Cardinality(U \ {r}) = Cardinality(U) - 1
        BY <1>1, <3>1, FS_RemoveElement
      <3>3. Cardinality(V) <= Cardinality(U \ {r}) /\ Cardinality(V) \in Nat
        BY <3>1, <3>2, FS_Subset, FS_CardinalityType
      <3> HIDE DEF U, V
      <3>4. QED BY <1>1, <2>2, <2>7, <3>2, <3>3 DEF V
    <2>8. QED BY <2>5, <2>6, <2>7
  <1>7. QED BY <1>5, <1>6

LEMMA EventsAreFinite ==
  ASSUME DeliveryAssumption PROVE IsFiniteSet(Events) /\ Cardinality(Events) \in Nat
  <1> DEFINE f == [r \in Requests |-> EventOf[r]]
  <1>1. f \in Surjection(Requests, Events)
    BY DEF Surjection, Events
  <1>2. IsFiniteSet(Events)
    BY <1>1, FS_Surjection DEF DeliveryAssumption
  <1>3. QED BY <1>2, FS_CardinalityType

\* Ids that fit leave room for one more: none is forgotten.
LEMMA SeenHasRoom ==
  ASSUME DeliveryAssumption, TypeOK, Cardinality(Events) <= CacheSize,
         Distinct(seen), NEW e \in Events, ~Seen(e)
  PROVE  Len(seen) < CacheSize
  <1> DEFINE T == Events \ {e}
  <1>1. seen \in Seq(Events) /\ Len(seen) \in Nat /\ DOMAIN seen = 1..Len(seen)
    BY DEF TypeOK
  <1>2. seen \in Injection(1..Len(seen), T)
    <2>1. \A i \in 1..Len(seen) : seen[i] \in T
      BY <1>1 DEF Seen
    <2>2. seen \in [1..Len(seen) -> T]
      BY <1>1, <2>1
    <2>3. IsInjective(seen)
      BY DEF IsInjective, Distinct
    <2>4. QED BY <2>2, <2>3 DEF Injection
  <1>3. /\ IsFiniteSet(T) /\ Cardinality(T) = Cardinality(Events) - 1
        /\ Cardinality(Events) \in Nat
    BY EventsAreFinite, FS_RemoveElement
  <1>4. Cardinality(1..Len(seen)) = Len(seen)
    <2>1. Cardinality(1..Len(seen)) = IF 1 > Len(seen) THEN 0 ELSE Len(seen) - 1 + 1
      <3>1. 1 \in Int /\ Len(seen) \in Int
        BY <1>1
      <3>2. QED BY ONLY <3>1, FS_Interval
    <2>2. QED BY <2>1, <1>1
  <1>5. Cardinality(1..Len(seen)) <= Cardinality(T)
    BY <1>2, <1>3, FS_Injection
  <1>6. QED BY <1>1, <1>3, <1>4, <1>5 DEF DeliveryAssumption
-----------------------------------------------------------------------------
(* One lemma per kind of step. *)

\* A step that leaves the lake and its ids alone.
LEMMA LakeUntouched ==
  ASSUME IInv, seen' = seen, crashes' = crashes,
         \A e \in Events : stored'[Lake][e] = stored[Lake][e]
  PROVE  SeenFacts' /\ LakePaid'
  <1>1. \A i \in DOMAIN seen : seen[i] \in Events
    BY DEF IInv, TypeOK
  <1>2. \A e : Seen(e)' <=> Seen(e)
    BY DEF Seen
  <1>3. QED BY <1>1, <1>2 DEF IInv, SeenFacts, LakePaid, Distinct

\* A delivery moves on without storing anything: it goes to the wire, backs
\* off, wakes up, is acknowledged or becomes a dead letter.
LEMMA QuietDelivery ==
  ASSUME DeliveryAssumption, IInv, NEW x \in Deliveries, NEW to \in DPC,
         NEW s \in Statuses, dpc[x] # "none", to # "none",
         dpc' = [dpc EXCEPT ![x] = to], status' = [status EXCEPT ![Key(x)] = s],
         UNCHANGED <<req, stored, seen, crashes>>,
         attempt' \in [Deliveries -> 0..MaxRetries],
         \A y \in Deliveries : y # x => attempt'[y] = attempt[y],
         dlqRecords \subseteq dlqRecords', dlqRecords' \subseteq Events \X Destinations,
         dlqFile \subseteq dlqFile', dlqFile' \subseteq Events \X Destinations,
         faults' \in 0..MaxFaults, faults' >= faults,
         to \in {"ready", "backoff"} => attempt'[x] < MaxRetries,
         to = "wire" => x[2] \notin Mock \cup {Lake},
         to # "answer",
         to = "acked" => Copies(x) > 0,
         to = "dead" => Key(x) \in dlqFile',
         s = "ACKNOWLEDGED" => Copies(x) > 0,
         s = "DLQ_PROMOTED" => Key(x) \in dlqRecords',
         to \in MayLand => dpc[x] \in MayLand \/ faults' >= faults + 1
  PROVE  IInv'
  <1>1. TypeOK'
    <2>1. dpc' \in [Deliveries -> DPC] /\ status' \in [Events \X Destinations -> Statuses]
      BY DeliveryParts DEF IInv, TypeOK
    <2>2. QED BY <2>1 DEF IInv, TypeOK
  <1>2. Copies(x)' = Copies(x)
    BY DEF Copies
  <1>3. stored' \in [Destinations -> [Events -> Nat]] /\ faults' \in Nat
    BY <1>1 DEF TypeOK
  <1>4. /\ \A d \in Destinations, e \in Events : stored[d][e] > 0 => stored'[d][e] > 0
        /\ \A d \in Destinations, e \in Events :
             <<e, d>> # Key(x) => stored'[d][e] = stored[d][e]
    OBVIOUS
  <1>5. PlaceFacts' /\ StatusTruthful' /\ ProcessedIsAccounted'
    <2>1. UNCHANGED <<req, crashes>>
      OBVIOUS
    <2>2. QED BY <1>2, <1>3, <1>4, <2>1, DeliveryKeeps
  <1>6. CopiesPaid'
    BY <1>2, <1>3, <1>4, CopiesStep DEF IInv
  <1>7. SeenFacts' /\ LakePaid'
    BY LakeUntouched
  <1>8. QED BY <1>1, <1>5, <1>6, <1>7 DEF IInv

\* A delivery stores a copy anywhere but in the lake.
LEMMA StoringDelivery ==
  ASSUME DeliveryAssumption, IInv, NEW x \in Deliveries, NEW to \in {"answer", "acked"},
         NEW s \in Statuses, dpc[x] \in {"ready", "wire"}, x[2] # Lake, Store(x),
         to = "answer" => x[2] \notin Mock,
         dpc' = [dpc EXCEPT ![x] = to], status' = [status EXCEPT ![Key(x)] = s],
         UNCHANGED <<req, seen, dlqRecords, dlqFile, faults, crashes>>,
         attempt' \in [Deliveries -> 0..MaxRetries],
         \A y \in Deliveries : y # x => attempt'[y] = attempt[y],
         s = "DLQ_PROMOTED" => Key(x) \in dlqRecords
  PROVE  IInv'
  <1>1. /\ stored' \in [Destinations -> [Events -> Nat]]
        /\ stored'[x[2]][EventOf[x[1]]] > 0
        /\ stored'[x[2]][EventOf[x[1]]] <= stored[x[2]][EventOf[x[1]]] + 1
        /\ \A d \in Destinations, e \in Events :
             <<e, d>> # Key(x) => stored'[d][e] = stored[d][e]
    BY StoreAdds DEF IInv
  <1>2. TypeOK'
    <2>1. dpc' \in [Deliveries -> DPC] /\ status' \in [Events \X Destinations -> Statuses]
      BY DeliveryParts DEF IInv, TypeOK, DPC, Active
    <2>2. QED BY <1>1, <2>1 DEF IInv, TypeOK
  <1>3. Copies(x)' > 0 /\ Copies(x)' <= Copies(x) + 1
    BY <1>1 DEF Copies
  <1>4. \A d \in Destinations, e \in Events : stored[d][e] > 0 => stored'[d][e] > 0
    <2> SUFFICES ASSUME NEW d \in Destinations, NEW e \in Events, stored[d][e] > 0
                 PROVE  stored'[d][e] > 0
      OBVIOUS
    <2>1. CASE <<e, d>> = Key(x)
      <3>1. e = EventOf[x[1]] /\ d = x[2]
        BY <2>1 DEF Key
      <3>2. QED BY <1>1, <3>1
    <2>2. CASE <<e, d>> # Key(x)
      BY <1>1, <2>2
    <2>3. QED BY <2>1, <2>2
  <1>5. PlaceFacts' /\ StatusTruthful' /\ ProcessedIsAccounted'
    <2>1. /\ UNCHANGED <<req, crashes>> /\ to \in DPC /\ to # "none" /\ dpc[x] # "none"
          /\ dlqRecords \subseteq dlqRecords' /\ dlqFile \subseteq dlqFile'
          /\ to \notin {"ready", "backoff"} /\ to # "dead"
          /\ to \in {"wire", "answer"} => x[2] \notin Mock \cup {Lake}
          /\ s = "DLQ_PROMOTED" => Key(x) \in dlqRecords'
      BY DEF DPC, Active
    <2>2. QED BY <1>1, <1>3, <1>4, <2>1, DeliveryKeeps
  <1>6. CopiesPaid'
    <2>1. faults' \in Nat /\ faults' >= faults /\ dpc[x] \in MayLand /\ to \notin MayLand
      BY DEF IInv, TypeOK, MayLand
    <2>2. QED BY <1>1, <1>3, <2>1, CopiesStep DEF IInv
  <1>7. SeenFacts' /\ LakePaid'
    <2>1. \A e \in Events : stored'[Lake][e] = stored[Lake][e]
      <3>1. \A e \in Events : <<e, Lake>> # Key(x)
        BY DEF Key
      <3>2. QED BY <1>1, <3>1 DEF DeliveryAssumption
    <2>2. QED BY <2>1, LakeUntouched
  <1>8. QED BY <1>2, <1>5, <1>6, <1>7 DEF IInv

\* Counting the attempt of a delivery that is ready.
LEMMA NextAttemptType ==
  ASSUME DeliveryAssumption, IInv, NEW x \in Deliveries, dpc[x] = "ready",
         attempt' = [attempt EXCEPT ![x] = @ + 1]
  PROVE  /\ attempt' \in [Deliveries -> 0..MaxRetries]
         /\ attempt'[x] = attempt[x] + 1
         /\ \A y \in Deliveries : y # x => attempt'[y] = attempt[y]
  <1>1. /\ attempt \in [Deliveries -> 0..MaxRetries] /\ attempt[x] < MaxRetries
        /\ MaxRetries \in Nat
    BY DEF IInv, TypeOK, PlaceFacts, DeliveryAssumption
  <1>2. attempt[x] + 1 \in 0..MaxRetries
    BY <1>1
  <1>3. QED BY <1>1, <1>2

\* A delivery that ends as a dead letter, or whose dead letter cannot be
\* written.
LEMMA PromoteStep ==
  ASSUME DeliveryAssumption, IInv, NEW x \in Deliveries, NEW n \in Nat,
         dpc[x] # "none", Promote(x, n),
         UNCHANGED <<req, stored, seen, crashes>>,
         attempt' \in [Deliveries -> 0..MaxRetries],
         \A y \in Deliveries : y # x => attempt'[y] = attempt[y]
  PROVE  IInv'
  <1>1. /\ status' = [status EXCEPT ![Key(x)] = "DLQ_PROMOTED"]
        /\ dlqRecords' = dlqRecords \cup {Key(x)}
        /\ "DLQ_PROMOTED" \in Statuses /\ Key(x) \in Events \X Destinations
        /\ dlqRecords \subseteq Events \X Destinations
        /\ dlqFile \subseteq Events \X Destinations
    BY DeliveryParts DEF Promote, SetStatus, Statuses, IInv, TypeOK
  <1>2. faults \in Nat /\ MaxFaults \in Nat
    BY DEF IInv, TypeOK, DeliveryAssumption
  <1>3. CASE Faults(n) /\ dlqFile' = dlqFile \cup {Key(x)} /\ Goto(x, "dead")
    <2>1. /\ dpc' = [dpc EXCEPT ![x] = "dead"] /\ "dead" \in DPC
          /\ "dead" \notin MayLand
      BY <1>3 DEF Goto, DPC, MayLand
    <2>2. faults' \in 0..MaxFaults /\ faults' >= faults
      BY <1>2, <1>3 DEF Faults
    <2>3. QED BY <1>1, <1>3, <2>1, <2>2, QuietDelivery
  <1>4. CASE Faults(n + 1) /\ UNCHANGED dlqFile /\ Goto(x, "raised")
    <2>1. /\ dpc' = [dpc EXCEPT ![x] = "raised"] /\ "raised" \in DPC
          /\ "raised" \notin MayLand
      BY <1>4 DEF Goto, DPC, MayLand
    <2>2. faults' \in 0..MaxFaults /\ faults' >= faults
      BY <1>2, <1>4 DEF Faults
    <2>3. QED BY <1>1, <1>4, <2>1, <2>2, QuietDelivery
  <1>5. QED BY <1>3, <1>4 DEF Promote

\* A delivery that will be tried again, at the price of a fault.
LEMMA BackoffStep ==
  ASSUME DeliveryAssumption, IInv, NEW x \in Deliveries, dpc[x] # "none",
         SetStatus(x, "RETRIABLE_FAILURE"), Faults(1), Goto(x, "backoff"),
         UNCHANGED <<req, stored, seen, crashes, dlqRecords, dlqFile>>,
         attempt' \in [Deliveries -> 0..MaxRetries],
         \A y \in Deliveries : y # x => attempt'[y] = attempt[y],
         attempt'[x] < MaxRetries
  PROVE  IInv'
  <1>1. /\ status' = [status EXCEPT ![Key(x)] = "RETRIABLE_FAILURE"]
        /\ "RETRIABLE_FAILURE" \in Statuses
        /\ dlqRecords \subseteq dlqRecords' /\ dlqRecords' \subseteq Events \X Destinations
        /\ dlqFile \subseteq dlqFile' /\ dlqFile' \subseteq Events \X Destinations
    BY DEF SetStatus, Statuses, IInv, TypeOK
  <1>2. dpc' = [dpc EXCEPT ![x] = "backoff"] /\ "backoff" \in DPC
    BY DEF Goto, DPC, Active
  <1>3. faults' \in 0..MaxFaults /\ faults' >= faults + 1 /\ faults' >= faults
    BY DEF Faults, IInv, TypeOK, DeliveryAssumption
  <1>4. QED BY <1>1, <1>2, <1>3, QuietDelivery

\* The lake writes a new id and keeps it, or skips one it knows.
LEMMA SendLakeStep ==
  ASSUME DeliveryAssumption, IInv, NEW x \in Deliveries, SendLake(x)
  PROVE  IInv'
  <1> DEFINE e == EventOf[x[1]]
  <1>1. /\ dpc[x] = "ready" /\ x[2] = Lake /\ WriteLake(x)
        /\ attempt' = [attempt EXCEPT ![x] = @ + 1]
        /\ dpc' = [dpc EXCEPT ![x] = "acked"]
        /\ status' = [status EXCEPT ![Key(x)] = "ACKNOWLEDGED"]
        /\ UNCHANGED <<req, dlqRecords, dlqFile, faults, crashes>>
    BY DEF SendLake, NextAttempt, SetStatus, Goto
  <1>2. /\ attempt' \in [Deliveries -> 0..MaxRetries]
        /\ \A y \in Deliveries : y # x => attempt'[y] = attempt[y]
    BY <1>1, NextAttemptType
  <1>3. /\ e \in Events /\ Key(x) = <<e, Lake>> /\ Lake \in Destinations
        /\ "ACKNOWLEDGED" \in Statuses /\ "acked" \in DPC /\ "acked" \notin MayLand
        /\ stored \in [Destinations -> [Events -> Nat]]
    BY <1>1, DeliveryParts DEF Key, Statuses, DPC, MayLand, IInv, TypeOK, DeliveryAssumption
  <1>4. CASE Seen(e)
    <2>1. stored' = stored /\ seen' = seen
      BY <1>1, <1>4 DEF WriteLake
    <2>2. Copies(x) > 0
      BY <1>1, <1>4 DEF Seen, IInv, SeenFacts, Copies
    <2>3. /\ UNCHANGED <<req, stored, seen, crashes>>
          /\ faults' \in 0..MaxFaults /\ faults' >= faults
          /\ dlqRecords \subseteq dlqRecords' /\ dlqRecords' \subseteq Events \X Destinations
          /\ dlqFile \subseteq dlqFile' /\ dlqFile' \subseteq Events \X Destinations
      BY <1>1, <2>1 DEF IInv, TypeOK
    <2>4. QED BY <1>1, <1>2, <1>3, <2>2, <2>3, QuietDelivery
  <1>5. CASE ~Seen(e)
    <2> DEFINE left == IF Len(seen) >= CacheSize THEN Tail(seen) ELSE seen
    <2>1. Store(x) /\ seen' = Append(left, e)
      BY <1>1, <1>5 DEF WriteLake
    <2>2. /\ stored' \in [Destinations -> [Events -> Nat]]
          /\ stored'[Lake][e] > 0 /\ stored'[Lake][e] <= stored[Lake][e] + 1
          /\ \A d \in Destinations, f \in Events :
               <<f, d>> # Key(x) => stored'[d][f] = stored[d][f]
      BY <1>1, <2>1, StoreAdds DEF IInv
    <2>3. \A f \in Events : f # e => stored'[Lake][f] = stored[Lake][f]
      BY <1>3, <2>2
    <2>4. /\ seen \in Seq(Events) /\ Len(seen) \in Nat /\ Len(seen) <= CacheSize
          /\ CacheSize \in Nat \ {0}
      BY DEF IInv, TypeOK, DeliveryAssumption
    <2>5. /\ left \in Seq(Events) /\ Len(left) \in Nat /\ Len(left) < CacheSize
          /\ \A i \in DOMAIN left : \E j \in DOMAIN seen : left[i] = seen[j]
      <3>1. CASE Len(seen) >= CacheSize
        <4>1. seen # <<>> /\ left = Tail(seen)
          BY <2>4, <3>1
        <4>2. /\ Tail(seen) \in Seq(Events) /\ Len(Tail(seen)) = Len(seen) - 1
              /\ \A i \in 1..(Len(seen) - 1) : Tail(seen)[i] = seen[i + 1]
          BY <2>4, <4>1
        <4>3. DOMAIN Tail(seen) = 1..(Len(seen) - 1) /\ DOMAIN seen = 1..Len(seen)
          BY <2>4, <4>2, LenProperties
        <4>4. ASSUME NEW i \in DOMAIN Tail(seen)
              PROVE  \E j \in DOMAIN seen : Tail(seen)[i] = seen[j]
          <5>1. i + 1 \in DOMAIN seen /\ Tail(seen)[i] = seen[i + 1]
            BY <2>4, <4>2, <4>3
          <5>2. QED BY <5>1
        <4>5. Len(Tail(seen)) \in Nat /\ Len(Tail(seen)) < CacheSize
          BY <2>4, <3>1, <4>2
        <4>6. QED BY <4>1, <4>2, <4>4, <4>5
      <3>2. CASE ~(Len(seen) >= CacheSize)
        BY <2>4, <3>2
      <3>3. QED BY <3>1, <3>2
    <2> HIDE DEF left
    <2>6. /\ seen' \in Seq(Events) /\ Len(seen') = Len(left) + 1
          /\ DOMAIN seen' = 1..(Len(left) + 1) /\ DOMAIN left = 1..Len(left)
          /\ \A i \in 1..Len(left) : seen'[i] = left[i]
          /\ seen'[Len(left) + 1] = e
      BY <1>3, <2>1, <2>5
    <2>7. Len(seen') <= CacheSize
      BY <2>4, <2>5, <2>6
    <2>8. \A i \in DOMAIN seen' : seen'[i] = e \/ \E j \in DOMAIN seen : seen'[i] = seen[j]
      BY <2>5, <2>6
    <2>9. TypeOK'
      <3>1. dpc' \in [Deliveries -> DPC] /\ status' \in [Events \X Destinations -> Statuses]
        BY <1>1, <1>3 DEF IInv, TypeOK
      <3>2. QED BY <1>1, <1>2, <2>2, <2>6, <2>7, <3>1 DEF IInv, TypeOK
    <2>10. Copies(x)' > 0 /\ Copies(x)' <= Copies(x) + 1
      BY <1>1, <2>2 DEF Copies
    <2>11. \A d \in Destinations, f \in Events : stored[d][f] > 0 => stored'[d][f] > 0
      <3> SUFFICES ASSUME NEW d \in Destinations, NEW f \in Events, stored[d][f] > 0
                   PROVE  stored'[d][f] > 0
        OBVIOUS
      <3>1. CASE <<f, d>> = Key(x)
        BY <1>3, <2>2, <3>1
      <3>2. CASE <<f, d>> # Key(x)
        BY <2>2, <3>2
      <3>3. QED BY <3>1, <3>2
    <2>12. PlaceFacts' /\ StatusTruthful' /\ ProcessedIsAccounted'
      <3>1. /\ UNCHANGED <<req, crashes>> /\ dpc[x] # "none"
            /\ dlqRecords \subseteq dlqRecords' /\ dlqFile \subseteq dlqFile'
        BY <1>1
      <3>2. QED BY <1>1, <1>2, <1>3, <2>2, <2>10, <2>11, <3>1, DeliveryKeeps
    <2>13. CopiesPaid'
      <3>1. faults' \in Nat /\ faults' >= faults /\ dpc[x] \in MayLand
        BY <1>1 DEF IInv, TypeOK, MayLand
      <3>2. QED BY <1>1, <1>3, <2>2, <2>10, <3>1, CopiesStep DEF IInv
    <2>14. SeenFacts'
      <3> SUFFICES ASSUME NEW i \in DOMAIN seen' PROVE stored'[Lake][seen'[i]] > 0
        BY DEF SeenFacts
      <3>1. CASE seen'[i] = e
        BY <2>2, <3>1
      <3>2. CASE \E j \in DOMAIN seen : seen'[i] = seen[j]
        <4>1. PICK j \in DOMAIN seen : seen'[i] = seen[j]
          BY <3>2
        <4>2. seen[j] \in Events /\ stored[Lake][seen[j]] > 0
          BY <2>4 DEF IInv, SeenFacts
        <4>3. QED BY <1>3, <2>11, <4>1, <4>2
      <3>3. QED BY <2>8, <3>1, <3>2
    <2>15. LakePaid'
      <3> SUFFICES ASSUME Cardinality(Events) <= CacheSize
                   PROVE  /\ Distinct(seen')
                          /\ \A f \in Events :
                               stored'[Lake][f] + (IF Seen(f)' THEN 0 ELSE 1) <= 1 + crashes'
        BY DEF LakePaid
      <3>1. /\ Distinct(seen)
            /\ \A f \in Events :
                 stored[Lake][f] + (IF Seen(f) THEN 0 ELSE 1) <= 1 + crashes
        BY DEF IInv, LakePaid
      <3>2. left = seen
        <4>1. Len(seen) < CacheSize
          BY <1>3, <1>5, <3>1, SeenHasRoom DEF IInv
        <4>2. QED BY <2>4, <4>1 DEF left
      <3>3. Distinct(seen')
        <4> SUFFICES ASSUME NEW i \in 1..(Len(left) + 1), NEW j \in 1..(Len(left) + 1),
                            seen'[i] = seen'[j]
                     PROVE  i = j
          BY <2>6 DEF Distinct
        <4>1. \A k \in 1..Len(left) : seen'[k] = seen[k] /\ seen[k] # e /\ k \in DOMAIN seen
          BY <1>5, <2>6, <3>2 DEF Seen
        <4>2. CASE i \in 1..Len(left) /\ j \in 1..Len(left)
          BY <3>1, <4>1, <4>2 DEF Distinct
        <4>3. CASE i = Len(left) + 1 \/ j = Len(left) + 1
          BY <2>5, <2>6, <4>1, <4>3
        <4>4. QED BY <2>5, <4>2, <4>3
      <3>4. Seen(e)' /\ \A f \in Events : Seen(f) => Seen(f)'
        <4>1. Seen(e)'
          BY <2>5, <2>6 DEF Seen
        <4>2. \A k \in DOMAIN seen : k \in DOMAIN seen' /\ seen'[k] = seen[k]
          BY <2>5, <2>6, <3>2
        <4>3. QED BY <4>1, <4>2 DEF Seen
      <3>5. ASSUME NEW f \in Events
            PROVE  stored'[Lake][f] + (IF Seen(f)' THEN 0 ELSE 1) <= 1 + crashes'
        <4>1. /\ stored[Lake][f] \in Nat /\ stored'[Lake][f] \in Nat
              /\ crashes \in Nat /\ crashes' = crashes
          BY <1>1, <1>3, <2>2 DEF IInv, TypeOK
        <4>2. CASE f = e
          BY <1>5, <2>2, <3>1, <3>4, <4>1, <4>2
        <4>3. CASE f # e
          BY <2>3, <3>1, <3>4, <4>1, <4>3
        <4>4. QED BY <4>2, <4>3
      <3>6. QED BY <3>3, <3>5
    <2>16. QED BY <2>9, <2>12, <2>13, <2>14, <2>15 DEF IInv
  <1>6. QED BY <1>4, <1>5

\* A request becomes its deliveries, none of which has landed yet.
LEMMA ProcessStep ==
  ASSUME DeliveryAssumption, IInv, NEW r \in Requests, process_event(r)
  PROVE  IInv'
  <1>1. /\ req[r] = "new" /\ req' \in [Requests -> {"new", "delivering", "processed",
                                                    "unrouted", "error", "lost"}]
        /\ \A q \in Requests : q # r => req'[q] = req[q]
        /\ req'[r] \in {"unrouted", "delivering"}
    BY DEF process_event, IInv, TypeOK
  <1>2. /\ dpc' = [x \in Deliveries |->
                     IF x[1] = r /\ x[2] \in Targets(r) THEN "ready" ELSE dpc[x]]
        /\ UNCHANGED <<attempt, stored, seen, status, dlqRecords, dlqFile, faults, crashes>>
    BY DEF process_event
  <1>3. \A x \in Deliveries : x[1] = r => dpc[x] = "none" /\ attempt[x] = 0
    BY <1>1 DEF IInv, PlaceFacts
  <1>4. \A x \in Deliveries :
          dpc'[x] = dpc[x] \/ (x[1] = r /\ dpc'[x] = "ready" /\ dpc[x] = "none" /\ attempt[x] = 0)
    BY <1>2, <1>3
  <1>5. TypeOK'
    <2>1. "ready" \in DPC
      BY DEF DPC, Active
    <2>2. dpc' \in [Deliveries -> DPC]
      BY <1>2, <2>1 DEF IInv, TypeOK
    <2>3. QED BY <1>1, <1>2, <2>2 DEF IInv, TypeOK
  <1>6. PlaceFacts'
    <2> SUFFICES ASSUME NEW x \in Deliveries
                 PROVE  /\ req'[x[1]] = "new" => dpc'[x] = "none"
                        /\ dpc'[x] = "none" => attempt'[x] = 0
                        /\ dpc'[x] \in {"ready", "backoff"} => attempt'[x] < MaxRetries
                        /\ dpc'[x] \in {"wire", "answer"} => x[2] \notin Mock \cup {Lake}
                        /\ dpc'[x] = "answer" => Copies(x)' > 0
                        /\ dpc'[x] = "acked" =>
                             Copies(x)' > 0 \/ (x[2] \in Mock /\ crashes' > 0)
                        /\ dpc'[x] = "dead" => Key(x)' \in dlqFile'
      BY DEF PlaceFacts
    <2>1. Copies(x)' = Copies(x) /\ Key(x)' = Key(x) /\ x[1] \in Requests
      BY <1>2, DeliveryParts DEF Copies, Key
    <2>2. CASE dpc'[x] = dpc[x]
      BY <1>1, <1>2, <2>1, <2>2 DEF IInv, PlaceFacts
    <2>3. CASE x[1] = r /\ dpc'[x] = "ready" /\ attempt[x] = 0
      BY <1>1, <1>2, <2>1, <2>3 DEF DeliveryAssumption
    <2>4. QED BY <1>4, <2>2, <2>3
  <1>7. StatusTruthful'
    BY <1>2 DEF IInv, StatusTruthful
  <1>8. ProcessedIsAccounted'
    <2> SUFFICES ASSUME NEW q \in Requests, req'[q] = "processed", NEW d \in Targets(q)
                 PROVE  Accounted(EventOf[q], d)' \/ (d \in Mock /\ crashes' > 0)
      BY DEF ProcessedIsAccounted
    <2>1. req[q] = "processed"
      BY <1>1
    <2>2. Accounted(EventOf[q], d) \/ (d \in Mock /\ crashes > 0)
      BY <2>1 DEF IInv, ProcessedIsAccounted
    <2>3. QED BY <1>2, <2>2 DEF Accounted
  <1>9. CopiesPaid'
    <2> SUFFICES ASSUME NEW e \in Events, NEW d \in Destinations
                 PROVE  stored'[d][e] + Cardinality(Unlanded(e, d)')
                          <= Cardinality(Carriers(e)) + faults'
      BY DEF CopiesPaid, Carriers
    <2>1. Unlanded(e, d)' = Unlanded(e, d)
      <3>1. \A q \in Requests : dpc'[<<q, d>>] \in MayLand <=> dpc[<<q, d>>] \in MayLand
        BY <1>4, PairParts DEF MayLand
      <3>2. QED BY <3>1 DEF Unlanded, Carriers
    <2>2. QED BY <1>2, <2>1 DEF IInv, CopiesPaid
  <1>10. SeenFacts' /\ LakePaid'
    BY <1>2, LakeUntouched
  <1>11. QED BY <1>5, <1>6, <1>7, <1>8, <1>9, <1>10 DEF IInv

\* The answer to a request, or the error its deliveries raise.
LEMMA HandleStep ==
  ASSUME DeliveryAssumption, IInv, NEW r \in Requests, Handle(r)
  PROVE  IInv'
  <1>1. /\ req[r] = "delivering" /\ \A q \in Requests : q # r => req'[q] = req[q]
        /\ req' \in [Requests -> {"new", "delivering", "processed",
                                  "unrouted", "error", "lost"}]
        /\ \/ req'[r] = "error"
           \/ /\ req'[r] = "processed"
              /\ \A d \in Targets(r) : dpc[<<r, d>>] \in {"acked", "dead"}
        /\ UNCHANGED <<dpc, attempt, stored, seen, status, dlqRecords, dlqFile, faults, crashes>>
    BY DEF Handle, Answer, GatherRaises, IInv, TypeOK
  <1>2. TypeOK'
    BY <1>1 DEF IInv, TypeOK
  <1>3. PlaceFacts'
    <2>1. \A x \in Deliveries : Copies(x)' = Copies(x) /\ Key(x)' = Key(x) /\ x[1] \in Requests
      BY <1>1, DeliveryParts DEF Copies, Key
    <2>2. \A q \in Requests : req'[q] = "new" => req[q] = "new"
      BY <1>1
    <2>3. QED BY <1>1, <2>1, <2>2 DEF IInv, PlaceFacts
  <1>4. StatusTruthful'
    BY <1>1 DEF IInv, StatusTruthful
  <1>5. ProcessedIsAccounted'
    <2> SUFFICES ASSUME NEW q \in Requests, req'[q] = "processed", NEW d \in Targets(q)
                 PROVE  Accounted(EventOf[q], d) \/ (d \in Mock /\ crashes > 0)
      BY <1>1 DEF ProcessedIsAccounted, Accounted
    <2>1. CASE q # r
      BY <1>1, <2>1 DEF IInv, ProcessedIsAccounted
    <2>2. CASE q = r
      <3>1. /\ <<r, d>> \in Deliveries /\ dpc[<<r, d>>] \in {"acked", "dead"}
            /\ Key(<<r, d>>) = <<EventOf[r], d>>
        BY <1>1, <2>2, TargetsAreDestinations, PairParts
      <3> DEFINE x == <<r, d>>
      <3>2. Copies(x) = stored[d][EventOf[r]] /\ x[2] = d
        BY DEF Copies
      <3>3. \/ Copies(x) > 0 \/ (x[2] \in Mock /\ crashes > 0)
            \/ Key(x) \in dlqFile
        <4> HIDE DEF x
        <4>1. x \in Deliveries /\ dpc[x] \in {"acked", "dead"}
          BY <3>1 DEF x
        <4>2. QED BY <4>1 DEF IInv, PlaceFacts
      <3>4. QED BY <2>2, <3>1, <3>2, <3>3 DEF Accounted
    <2>3. QED BY <2>1, <2>2
  <1>6. CopiesPaid'
    <2>1. \A e \in Events, d \in Destinations : Unlanded(e, d)' = Unlanded(e, d)
      BY <1>1 DEF Unlanded, Carriers
    <2>2. QED BY <1>1, <2>1 DEF IInv, CopiesPaid, Carriers
  <1>7. SeenFacts' /\ LakePaid'
    BY <1>1, LakeUntouched
  <1>8. QED BY <1>2, <1>3, <1>4, <1>5, <1>6, <1>7 DEF IInv
\* The process dies: what it held is gone, what real destinations and the
\* dead-letter file hold stays.
LEMMA CrashStep ==
  ASSUME DeliveryAssumption, IInv, Crash
  PROVE  IInv'
  <1>1. /\ crashes < MaxCrashes /\ crashes' = crashes + 1
        /\ req' = [r \in Requests |-> IF req[r] = "delivering" THEN "lost" ELSE req[r]]
        /\ dpc' = [x \in Deliveries |-> IF dpc[x] \in Active THEN "lost" ELSE dpc[x]]
        /\ seen' = <<>> /\ status' = [x \in Events \X Destinations |-> "none"]
        /\ dlqRecords' = {}
        /\ UNCHANGED <<attempt, dlqFile, faults>>
    BY DEF Crash
  <1>2. /\ stored' \in [Destinations -> [Events -> Nat]]
        /\ \A d \in Destinations, e \in Events :
             /\ stored'[d][e] <= stored[d][e]
             /\ d \notin Mock => stored'[d][e] = stored[d][e]
    <2>1. /\ stored' = [d \in Destinations |-> IF d \in Mock THEN [e \in Events |-> 0]
                                               ELSE stored[d]]
          /\ stored \in [Destinations -> [Events -> Nat]]
      BY DEF Crash, IInv, TypeOK
    <2>2. [e \in Events |-> 0] \in [Events -> Nat]
      OBVIOUS
    <2>3. stored' \in [Destinations -> [Events -> Nat]]
      BY <2>1, <2>2
    <2>4. ASSUME NEW d \in Destinations, NEW e \in Events
          PROVE  stored'[d][e] <= stored[d][e] /\ (d \notin Mock => stored'[d][e] = stored[d][e])
      <3>1. stored[d][e] \in Nat
        BY <2>1
      <3>2. CASE d \in Mock
        BY <2>1, <3>1, <3>2
      <3>3. CASE d \notin Mock
        BY <2>1, <3>1, <3>3
      <3>4. QED BY <3>2, <3>3
    <2>5. QED BY <2>3, <2>4
  <1>3. /\ crashes \in Nat /\ crashes' \in Nat /\ crashes' > 0 /\ crashes' \in 0..MaxCrashes
        /\ Lake \in Destinations /\ Lake \notin Mock
    BY <1>1 DEF IInv, TypeOK, DeliveryAssumption
  <1>4. \A x \in Deliveries : dpc'[x] = "lost" \/ (dpc'[x] = dpc[x] /\ dpc[x] \notin Active)
    BY <1>1
  <1>5. TypeOK'
    <2>1. dpc' \in [Deliveries -> DPC]
      <3>1. "lost" \in DPC
        BY DEF DPC
      <3>2. QED BY <1>1, <3>1 DEF IInv, TypeOK
    <2>2. status' \in [Events \X Destinations -> Statuses]
      <3>1. "none" \in Statuses
        BY DEF Statuses
      <3>2. QED BY <1>1, <3>1
    <2>3. req' \in [Requests -> {"new", "delivering", "processed", "unrouted", "error", "lost"}]
      BY <1>1 DEF IInv, TypeOK
    <2>4. seen' \in Seq(Events) /\ Len(seen') <= CacheSize
      BY <1>1 DEF DeliveryAssumption
    <2>5. QED BY <1>1, <1>2, <1>3, <2>1, <2>2, <2>3, <2>4 DEF IInv, TypeOK
  <1>6. PlaceFacts'
    <2> SUFFICES ASSUME NEW x \in Deliveries
                 PROVE  /\ req'[x[1]] = "new" => dpc'[x] = "none"
                        /\ dpc'[x] = "none" => attempt'[x] = 0
                        /\ dpc'[x] \in {"ready", "backoff"} => attempt'[x] < MaxRetries
                        /\ dpc'[x] \in {"wire", "answer"} => x[2] \notin Mock \cup {Lake}
                        /\ dpc'[x] = "answer" => Copies(x)' > 0
                        /\ dpc'[x] = "acked" =>
                             Copies(x)' > 0 \/ (x[2] \in Mock /\ crashes' > 0)
                        /\ dpc'[x] = "dead" => Key(x)' \in dlqFile'
      BY DEF PlaceFacts
    <2>1. Key(x)' = Key(x) /\ (x[2] \notin Mock => Copies(x)' = Copies(x))
      BY <1>2, DeliveryParts DEF Copies, Key
    <2>2. dpc'[x] \notin Active
      BY <1>4 DEF Active
    <2>3. req'[x[1]] = "new" => dpc'[x] = "none"
      <3>1. req'[x[1]] = "new" => req[x[1]] = "new"
        BY <1>1, DeliveryParts
      <3>2. req[x[1]] = "new" => dpc[x] = "none"
        BY DEF IInv, PlaceFacts
      <3>3. dpc[x] = "none" => dpc'[x] = "none"
        BY <1>1 DEF Active
      <3>4. QED BY <3>1, <3>2, <3>3
    <2>4. dpc'[x] \in {"none", "acked", "dead"} => dpc'[x] = dpc[x]
      BY <1>4
    <2>5. QED BY <1>1, <1>3, <2>1, <2>2, <2>3, <2>4 DEF IInv, PlaceFacts, Active
  <1>7. StatusTruthful'
    BY <1>1 DEF StatusTruthful
  <1>8. ProcessedIsAccounted'
    <2> SUFFICES ASSUME NEW q \in Requests, req'[q] = "processed", NEW d \in Targets(q)
                 PROVE  Accounted(EventOf[q], d)' \/ (d \in Mock /\ crashes' > 0)
      BY DEF ProcessedIsAccounted
    <2>1. req[q] = "processed" /\ d \in Destinations /\ EventOf[q] \in Events
      BY <1>1, TargetsAreDestinations DEF Events
    <2>2. Accounted(EventOf[q], d) \/ (d \in Mock /\ crashes > 0)
      BY <2>1 DEF IInv, ProcessedIsAccounted
    <2>3. QED BY <1>1, <1>2, <1>3, <2>1, <2>2 DEF Accounted
  <1>9. CopiesPaid'
    <2> SUFFICES ASSUME NEW e \in Events, NEW d \in Destinations
                 PROVE  stored'[d][e] + Cardinality(Unlanded(e, d)')
                          <= Cardinality(Carriers(e)) + faults'
      BY DEF CopiesPaid, Carriers
    <2> DEFINE U == Unlanded(e, d)
               V == Unlanded(e, d)'
    <2>1. V \subseteq U
      <3>1. \A q \in Requests : dpc'[<<q, d>>] \in MayLand => dpc[<<q, d>>] \in MayLand
        BY <1>4, PairParts DEF MayLand
      <3>2. QED BY <3>1 DEF Unlanded, Carriers
    <2>2. IsFiniteSet(U) /\ Cardinality(U) \in Nat
      BY UnlandedIsFinite
    <2>3. Cardinality(V) <= Cardinality(U) /\ Cardinality(V) \in Nat
      BY <2>1, <2>2, FS_Subset, FS_CardinalityType
    <2>4. stored[d][e] + Cardinality(U) <= Cardinality(Carriers(e)) + faults
      BY DEF IInv, CopiesPaid
    <2>5. /\ stored[d][e] \in Nat /\ stored'[d][e] \in Nat /\ stored'[d][e] <= stored[d][e]
          /\ faults \in Nat /\ faults' = faults
      BY <1>1, <1>2 DEF IInv, TypeOK
    <2>6. Cardinality(Carriers(e)) \in Nat
      BY UnlandedIsFinite
    <2> HIDE DEF U, V
    <2>7. QED BY <2>2, <2>3, <2>4, <2>5, <2>6 DEF V
  <1>10. SeenFacts'
    BY <1>1 DEF SeenFacts
  <1>11. LakePaid'
    <2> SUFFICES ASSUME Cardinality(Events) <= CacheSize
                 PROVE  /\ Distinct(seen')
                        /\ \A f \in Events :
                             stored'[Lake][f] + (IF Seen(f)' THEN 0 ELSE 1) <= 1 + crashes'
      BY DEF LakePaid
    <2>1. Distinct(seen')
      BY <1>1 DEF Distinct
    <2>2. ASSUME NEW f \in Events
          PROVE  stored'[Lake][f] + (IF Seen(f)' THEN 0 ELSE 1) <= 1 + crashes'
      <3>1. stored[Lake][f] + (IF Seen(f) THEN 0 ELSE 1) <= 1 + crashes
        BY DEF IInv, LakePaid
      <3>2. stored'[Lake][f] = stored[Lake][f] /\ stored[Lake][f] \in Nat
        BY <1>2, <1>3 DEF IInv, TypeOK
      <3>3. QED BY <1>1, <1>3, <3>1, <3>2
    <2>3. QED BY <2>1, <2>2
  <1>12. QED BY <1>5, <1>6, <1>7, <1>8, <1>9, <1>10, <1>11 DEF IInv

LEMMA InitInv ==
  ASSUME DeliveryAssumption, Init PROVE IInv
  <1>1. TypeOK
    <2>1. "none" \in DPC /\ "none" \in Statuses
      BY DEF DPC, Statuses
    <2>2. stored \in [Destinations -> [Events -> Nat]]
      BY DEF Init
    <2>3. seen \in Seq(Events) /\ Len(seen) <= CacheSize
      BY DEF Init, DeliveryAssumption
    <2>4. attempt \in [Deliveries -> 0..MaxRetries]
      BY DEF Init, DeliveryAssumption
    <2>5. faults \in 0..MaxFaults /\ crashes \in 0..MaxCrashes
      BY DEF Init, DeliveryAssumption
    <2>6. QED BY <2>1, <2>2, <2>3, <2>4, <2>5 DEF Init, TypeOK
  <1>2. PlaceFacts
    BY DEF Init, PlaceFacts
  <1>3. SeenFacts /\ StatusTruthful /\ ProcessedIsAccounted
    BY DEF Init, SeenFacts, StatusTruthful, ProcessedIsAccounted
  <1>4. CopiesPaid
    <2> SUFFICES ASSUME NEW e \in Events, NEW d \in Destinations
                 PROVE  stored[d][e] + Cardinality(Unlanded(e, d))
                          <= Cardinality(Carriers(e)) + faults
      BY DEF CopiesPaid
    <2>1. /\ Cardinality(Unlanded(e, d)) <= Cardinality(Carriers(e))
          /\ Cardinality(Unlanded(e, d)) \in Nat /\ Cardinality(Carriers(e)) \in Nat
      BY UnlandedIsFinite
    <2>2. stored[d][e] = 0 /\ faults = 0
      BY DEF Init
    <2>3. QED BY <2>1, <2>2
  <1>5. LakePaid
    <2>1. \A e \in Events : stored[Lake][e] = 0
      BY DEF Init, DeliveryAssumption
    <2>2. QED BY <2>1 DEF Init, LakePaid, Distinct
  <1>6. QED BY <1>1, <1>2, <1>3, <1>4, <1>5 DEF IInv

\* The tracker's record of a delivery, and what a step that leaves the dead
\* letters and the faults alone keeps.
LEMMA StatusOfKey ==
  ASSUME IInv, NEW x \in Deliveries
  PROVE  /\ status[Key(x)] \in Statuses
         /\ status = [status EXCEPT ![Key(x)] = status[Key(x)]]
         /\ status[Key(x)] = "ACKNOWLEDGED" => Copies(x) > 0
         /\ status[Key(x)] = "DLQ_PROMOTED" => Key(x) \in dlqRecords
  <1>1. /\ Key(x) \in Events \X Destinations
        /\ status \in [Events \X Destinations -> Statuses]
    BY DeliveryParts DEF IInv, TypeOK
  <1>2. /\ EventOf[x[1]] \in Events /\ x[2] \in Destinations
        /\ Key(x) = <<EventOf[x[1]], x[2]>>
    BY DeliveryParts DEF Key
  <1>3. /\ status[Key(x)] = "ACKNOWLEDGED" => Copies(x) > 0
        /\ status[Key(x)] = "DLQ_PROMOTED" => Key(x) \in dlqRecords
    BY <1>2 DEF IInv, StatusTruthful, Copies
  <1>4. QED BY <1>1, <1>3

LEMMA Quiet ==
  ASSUME IInv, UNCHANGED <<dlqRecords, dlqFile, faults>>
  PROVE  /\ dlqRecords \subseteq dlqRecords' /\ dlqRecords' \subseteq Events \X Destinations
         /\ dlqFile \subseteq dlqFile' /\ dlqFile' \subseteq Events \X Destinations
         /\ faults' \in 0..MaxFaults /\ faults' >= faults
  BY DEF IInv, TypeOK
-----------------------------------------------------------------------------
LEMMA NextInv ==
  ASSUME DeliveryAssumption, IInv, [Next]_vars PROVE IInv'
  <1>1. ASSUME NEW r \in Requests, process_event(r) PROVE IInv'
    BY <1>1, ProcessStep
  <1>2. ASSUME NEW r \in Requests, Handle(r) PROVE IInv'
    BY <1>2, HandleStep
  <1>3. ASSUME NEW x \in Deliveries, SendRemote(x) PROVE IInv'
    <2>1. /\ dpc[x] = "ready" /\ attempt' = [attempt EXCEPT ![x] = @ + 1]
          /\ dpc' = [dpc EXCEPT ![x] = "wire"] /\ x[2] \notin Mock \cup {Lake}
          /\ status' = [status EXCEPT ![Key(x)] = Attempted(x)]
          /\ UNCHANGED <<req, stored, seen, dlqRecords, dlqFile, faults, crashes>>
      BY <1>3 DEF SendRemote, NextAttempt, SetStatus, Goto
    <2>2. /\ Attempted(x) \in Statuses
          /\ Attempted(x) = "ACKNOWLEDGED" => Copies(x) > 0
          /\ Attempted(x) = "DLQ_PROMOTED" => Key(x) \in dlqRecords
      BY StatusOfKey DEF Attempted, Statuses
    <2>3. "wire" \in DPC /\ dpc[x] \in MayLand
      BY <2>1 DEF DPC, Active, MayLand
    <2>4. QED BY <2>1, <2>2, <2>3, NextAttemptType, Quiet, QuietDelivery
  <1>4. ASSUME NEW x \in Deliveries, Lands(x) PROVE IInv'
    <2>1. /\ dpc[x] = "wire" /\ Store(x) /\ dpc' = [dpc EXCEPT ![x] = "answer"]
          /\ UNCHANGED <<req, attempt, seen, status, dlqRecords, dlqFile, faults, crashes>>
      BY <1>4 DEF Lands, Goto
    <2>2. /\ x[2] \notin Mock /\ x[2] # Lake
          /\ attempt' \in [Deliveries -> 0..MaxRetries]
      BY <2>1 DEF IInv, PlaceFacts, TypeOK
    <2>3. /\ status' = [status EXCEPT ![Key(x)] = status[Key(x)]]
          /\ status[Key(x)] \in Statuses
          /\ status[Key(x)] = "DLQ_PROMOTED" => Key(x) \in dlqRecords
      BY <2>1, StatusOfKey
    <2>4. QED BY <2>1, <2>2, <2>3, StoringDelivery
  <1>5. ASSUME NEW x \in Deliveries, Acknowledged(x) PROVE IInv'
    <2>1. /\ dpc[x] = "answer" /\ dpc' = [dpc EXCEPT ![x] = "acked"]
          /\ status' = [status EXCEPT ![Key(x)] = "ACKNOWLEDGED"]
          /\ UNCHANGED <<req, attempt, stored, seen, dlqRecords, dlqFile, faults, crashes>>
      BY <1>5 DEF Acknowledged, SetStatus, Goto
    <2>2. /\ Copies(x) > 0 /\ attempt' \in [Deliveries -> 0..MaxRetries]
          /\ "acked" \in DPC /\ "ACKNOWLEDGED" \in Statuses /\ "acked" \notin MayLand
      BY <2>1 DEF IInv, PlaceFacts, TypeOK, DPC, Statuses, MayLand
    <2>3. QED BY <2>1, <2>2, Quiet, QuietDelivery
  <1>6. ASSUME NEW x \in Deliveries, SendMock(x) PROVE IInv'
    <2>1. /\ dpc[x] = "ready" /\ attempt' = [attempt EXCEPT ![x] = @ + 1]
          /\ dpc' = [dpc EXCEPT ![x] = "acked"] /\ x[2] \in Mock /\ Store(x)
          /\ status' = [status EXCEPT ![Key(x)] = "ACKNOWLEDGED"]
          /\ UNCHANGED <<req, seen, dlqRecords, dlqFile, faults, crashes>>
      BY <1>6 DEF SendMock, NextAttempt, SetStatus, Goto
    <2>2. "ACKNOWLEDGED" \in Statuses /\ x[2] # Lake
      BY <2>1 DEF Statuses, DeliveryAssumption
    <2>3. QED BY <2>1, <2>2, NextAttemptType, StoringDelivery
  <1>7. ASSUME NEW x \in Deliveries, SendLake(x) PROVE IInv'
    BY <1>7, SendLakeStep
  <1>8. ASSUME NEW x \in Deliveries, SendInvalid(x) PROVE IInv'
    <2>1. /\ dpc[x] = "ready" /\ attempt' = [attempt EXCEPT ![x] = @ + 1]
          /\ Promote(x, 0) /\ UNCHANGED <<req, stored, seen, crashes>>
      BY <1>8 DEF SendInvalid, NextAttempt
    <2>2. QED BY <2>1, NextAttemptType, PromoteStep
  <1>9. ASSUME NEW x \in Deliveries, Wake(x) PROVE IInv'
    <2>1. /\ dpc[x] = "backoff" /\ dpc' = [dpc EXCEPT ![x] = "ready"]
          /\ UNCHANGED <<req, attempt, stored, seen, status, dlqRecords, dlqFile, faults,
                         crashes>>
      BY <1>9 DEF Wake, Goto
    <2>2. /\ attempt' \in [Deliveries -> 0..MaxRetries] /\ attempt'[x] < MaxRetries
          /\ "ready" \in DPC /\ dpc[x] \in MayLand
      BY <2>1 DEF IInv, PlaceFacts, TypeOK, DPC, Active, MayLand
    <2>3. /\ status' = [status EXCEPT ![Key(x)] = status[Key(x)]]
          /\ status[Key(x)] \in Statuses
          /\ status[Key(x)] = "ACKNOWLEDGED" => Copies(x) > 0
          /\ status[Key(x)] = "DLQ_PROMOTED" => Key(x) \in dlqRecords
      BY <2>1, StatusOfKey
    <2>4. QED BY <2>1, <2>2, <2>3, Quiet, QuietDelivery
  <1>10. ASSUME NEW x \in Deliveries, SendRaises(x) PROVE IInv'
    <2>1. /\ dpc[x] # "none" /\ UNCHANGED <<req, attempt, stored, seen, crashes>>
          /\ attempt' \in [Deliveries -> 0..MaxRetries]
      BY <1>10 DEF SendRaises, IInv, TypeOK
    <2>2. CASE /\ attempt[x] < MaxRetries
               /\ SetStatus(x, "RETRIABLE_FAILURE") /\ Faults(1) /\ Goto(x, "backoff")
               /\ UNCHANGED <<dlqRecords, dlqFile>>
      BY <2>1, <2>2, BackoffStep
    <2>3. CASE Promote(x, 1)
      BY <2>1, <2>3, PromoteStep
    <2>4. QED BY <1>10, <2>2, <2>3 DEF SendRaises, RetryOrPromote
  <1>11. ASSUME NEW x \in Deliveries, LakeRaises(x) PROVE IInv'
    <2>1. /\ dpc[x] = "ready" /\ UNCHANGED <<req, stored, seen, crashes>>
          /\ attempt' = [attempt EXCEPT ![x] = @ + 1]
      BY <1>11 DEF LakeRaises
    <2>2. CASE /\ attempt[x] + 1 < MaxRetries
               /\ SetStatus(x, "RETRIABLE_FAILURE") /\ Faults(1) /\ Goto(x, "backoff")
               /\ UNCHANGED <<dlqRecords, dlqFile>>
      BY <2>1, <2>2, NextAttemptType, BackoffStep
    <2>3. CASE Promote(x, 1)
      BY <2>1, <2>3, NextAttemptType, PromoteStep
    <2>4. QED BY <1>11, <2>2, <2>3 DEF LakeRaises
  <1>12. ASSUME Crash PROVE IInv'
    BY <1>12, CrashStep
  <1>13. CASE UNCHANGED vars
    <2>1. /\ TypeOK' /\ PlaceFacts' /\ StatusTruthful' /\ ProcessedIsAccounted'
      BY <1>13 DEF vars, IInv, TypeOK, PlaceFacts, Copies, Key, StatusTruthful,
                   ProcessedIsAccounted, Accounted
    <2>2. CopiesPaid'
      BY <1>13 DEF vars, IInv, CopiesPaid, Unlanded, Carriers
    <2>3. SeenFacts' /\ LakePaid'
      BY <1>13, LakeUntouched DEF vars
    <2>4. QED BY <2>1, <2>2, <2>3 DEF IInv
  <1>14. QED
    BY <1>1, <1>2, <1>3, <1>4, <1>5, <1>6, <1>7, <1>8, <1>9, <1>10, <1>11, <1>12, <1>13
    DEF Next, Deliver

\* The facts about DeliveryEngine that the theorems below read off: every
\* reachable state satisfies the inductive invariant.
THEOREM DeliveryInvariant == Spec => []IInv
  <1>1. Init => IInv
    BY InitInv, DeliveryAssumption
  <1>2. IInv /\ [Next]_vars => IInv'
    BY NextInv, DeliveryAssumption
  <1>3. QED BY <1>1, <1>2, PTL DEF Spec

\* An event process_event answered "processed" is at every destination with a
\* connector, or in the dead-letter file, whatever retries, concurrent
\* requests for the same event and crashes happened (a crash empties a mock).
THEOREM ProcessedStaysAccounted == Spec => []ProcessedIsAccounted
  <1>1. IInv => ProcessedIsAccounted
    BY DEF IInv
  <1>2. QED BY <1>1, DeliveryInvariant, PTL

\* AckTracker tells the truth although requests for one event share a record:
\* ACKNOWLEDGED only for what the destination holds, DLQ_PROMOTED only for
\* what DeadLetterQueue holds.
THEOREM TrackerIsTruthful == Spec => []StatusTruthful
  <1>1. IInv => StatusTruthful
    BY DEF IInv
  <1>2. QED BY <1>1, DeliveryInvariant, PTL

\* deliver_to_connector never repeats a success: a destination holds at most
\* one copy per request and lost answer, and the data lake at most one per
\* life of the process while its ids fit the cache.
THEOREM CopiesAreExplained == Spec => []CopiesExplained
  <1>1. IInv => CopiesExplained
    <2> SUFFICES ASSUME IInv, NEW e \in Events
                 PROVE  /\ \A d \in Destinations :
                             stored[d][e] <= Cardinality(Carriers(e)) + faults
                        /\ Cardinality(Events) <= CacheSize => stored[Lake][e] <= 1 + crashes
      BY DEF CopiesExplained, Carriers
    <2>1. ASSUME NEW d \in Destinations
          PROVE  stored[d][e] <= Cardinality(Carriers(e)) + faults
      <3>1. stored[d][e] + Cardinality(Unlanded(e, d)) <= Cardinality(Carriers(e)) + faults
        BY DEF IInv, CopiesPaid
      <3>2. Cardinality(Unlanded(e, d)) \in Nat /\ Cardinality(Carriers(e)) \in Nat
        BY UnlandedIsFinite, DeliveryAssumption
      <3>3. stored[d][e] \in Nat /\ faults \in Nat
        BY DEF IInv, TypeOK
      <3>4. QED BY <3>1, <3>2, <3>3
    <2>2. ASSUME Cardinality(Events) <= CacheSize PROVE stored[Lake][e] <= 1 + crashes
      <3>1. stored[Lake][e] + (IF Seen(e) THEN 0 ELSE 1) <= 1 + crashes
        BY <2>2 DEF IInv, LakePaid
      <3>2. stored[Lake][e] \in Nat /\ crashes \in Nat
        BY DeliveryAssumption DEF IInv, TypeOK
      <3>3. QED BY <3>1, <3>2
    <2>3. QED BY <2>1, <2>2
  <1>2. QED BY <1>1, DeliveryInvariant, PTL
=============================================================================
