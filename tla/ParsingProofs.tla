---------------------------- MODULE ParsingProofs ----------------------------
(***************************************************************************)
(* From M1's topic to a parsed event.  The bridge, for every topic length, *)
(* tracker capacity, retry limit and number of faults: its types, that a   *)
(* committed record was acknowledged by M2 or given up, and that faults    *)
(* pay for every repeated parse.  M2's registry, for any tenants, parsers, *)
(* baseline, callers, events and number of requests: its types, that the   *)
(* store is sound, requests are isolated and the best parser is taken.     *)
(* The two share no state and are proved apart.                            *)
(***************************************************************************)
EXTENDS RawConsumer, ParserEngine, WellFoundedInduction, SequenceTheorems,
        FiniteSetTheorems, TLAPS

(* The bridge. *)

\* Removing one element of a sequence leaves a sequence of its elements.
LEMMA DropProperties ==
  ASSUME NEW S, NEW s \in Seq(S), NEW i \in Nat, s # <<>>
  PROVE  /\ Drop(s, i) \in Seq(S)
         /\ Len(Drop(s, i)) = Len(s) - 1
         /\ \A j \in DOMAIN Drop(s, i) :
              \E k \in DOMAIN s : Drop(s, i)[j] = s[k]
  <1>1. Len(s) \in Nat /\ Len(s) >= 1 /\ DOMAIN s = 1..Len(s)
    OBVIOUS
  <1>2. \A j \in 1..(Len(s) - 1) : s[j] \in S /\ s[j + 1] \in S
    BY <1>1
  <1>3. Drop(s, i) \in [1..(Len(s) - 1) -> S]
    BY <1>2 DEF Drop
  <1>4. Drop(s, i) \in Seq(S) /\ Len(Drop(s, i)) = Len(s) - 1
    <2>1. Len(s) - 1 \in Nat
      BY <1>1
    <2>2. Drop(s, i) \in Seq(S)
      BY <1>3, <2>1, SeqDef
    <2>3. 1..Len(Drop(s, i)) = 1..(Len(s) - 1) /\ Len(Drop(s, i)) \in Nat
      BY <1>3, <2>2, LenProperties
    <2>4. QED BY <2>1, <2>2, <2>3
  <1>5. \A j \in 1..(Len(s) - 1) : Drop(s, i)[j] = s[j] \/ Drop(s, i)[j] = s[j + 1]
    BY DEF Drop
  <1>6. QED
    BY <1>1, <1>3, <1>4, <1>5

\* What the tracker holds while e is being recorded: keys it held before, and
\* strictly fewer than its capacity.
LEMMA RoomProperties ==
  ASSUME ConsumerAssumption, TypeOK, NEW e \in Events
  PROVE  /\ Without(e) \in Seq(Events) /\ Len(Without(e)) <= Len(cache)
         /\ e \in Cached => Len(Without(e)) < Capacity
         /\ \A j \in DOMAIN Without(e) : Without(e)[j] \in Cached
         /\ Room(e) \in Seq(Events) /\ Len(Room(e)) < Capacity
         /\ \A j \in DOMAIN Room(e) : Room(e)[j] \in Cached
  <1>1. cache \in Seq(Events) /\ Len(cache) <= Capacity /\ Len(cache) \in Nat
        /\ DOMAIN cache = 1..Len(cache) /\ Capacity \in Nat \ {0}
    BY DEF TypeOK, ConsumerAssumption
  <1>2. /\ Without(e) \in Seq(Events) /\ Len(Without(e)) <= Len(cache)
        /\ e \in Cached => Len(Without(e)) < Capacity
        /\ \A j \in DOMAIN Without(e) : Without(e)[j] \in Cached
    <2>1. CASE e \in Cached
      <3>0. PICK q \in DOMAIN cache : Without(e) = Drop(cache, q)
        BY <2>1 DEF Without, Cached
      <3>1. q \in Nat /\ cache # <<>>
        BY <3>0, <1>1
      <3>2. Without(e) = Drop(cache, q)
        BY <3>0
      <3>3. /\ Drop(cache, q) \in Seq(Events)
            /\ Len(Drop(cache, q)) = Len(cache) - 1
            /\ \A j \in DOMAIN Drop(cache, q) :
                 \E k \in DOMAIN cache : Drop(cache, q)[j] = cache[k]
        <4>1. cache \in Seq(Events) /\ q \in Nat /\ cache # <<>>
          BY <3>1, <1>1
        <4>2. QED BY ONLY <4>1, DropProperties
      <3>4. QED
        BY <3>2, <3>3, <1>1 DEF Cached
    <2>2. CASE e \notin Cached
      BY <2>2, <1>1 DEF Without, Cached
    <2>3. QED BY <2>1, <2>2
  <1>3. CASE Len(Without(e)) >= Capacity
    <2>1. Without(e) # <<>> /\ Len(Without(e)) \in Nat
      BY <1>1, <1>2, <1>3
    <2>2. /\ Drop(Without(e), 1) \in Seq(Events)
          /\ Len(Drop(Without(e), 1)) = Len(Without(e)) - 1
          /\ \A j \in DOMAIN Drop(Without(e), 1) :
               \E k \in DOMAIN Without(e) :
                 Drop(Without(e), 1)[j] = Without(e)[k]
      BY <1>2, <2>1, DropProperties
    <2>3. Room(e) = Drop(Without(e), 1)
      BY <1>3 DEF Room
    <2>4. QED BY <1>1, <1>2, <2>1, <2>2, <2>3
  <1>4. CASE ~(Len(Without(e)) >= Capacity)
    <2>1. Room(e) = Without(e)
      BY <1>4 DEF Room
    <2>2. QED BY <2>1, <1>1, <1>2, <1>4
  <1>5. QED BY <1>2, <1>3, <1>4

\* check_and_set keeps the tracker within its capacity and adds only e.
LEMMA CheckAndSetProperties ==
  ASSUME ConsumerAssumption, TypeOK, NEW e \in Events,
         NEW r \in BOOLEAN, CheckAndSet(e, r)
  PROVE  /\ cache' \in Seq(Events) /\ Len(cache') <= Capacity
         /\ Cached' \subseteq Cached \cup {e}
         /\ stale' \in SUBSET Events /\ results' \in SUBSET Events
  <1>1. ASSUME NEW left \in Seq(Events), cache' = Append(left, e),
               Len(left) < Capacity, \A j \in DOMAIN left : left[j] \in Cached
        PROVE  /\ cache' \in Seq(Events) /\ Len(cache') <= Capacity
               /\ Cached' \subseteq Cached \cup {e}
    <2>1. cache' \in Seq(Events) /\ Len(cache') = Len(left) + 1
          /\ Len(left) \in Nat
      BY <1>1
    <2>2. \A j \in 1..Len(cache') : cache'[j] \in Cached \cup {e}
      BY <1>1, <2>1
    <2>3. DOMAIN cache' = 1..Len(cache')
      BY <2>1
    <2>4. Len(cache') <= Capacity
      BY <1>1, <2>1 DEF ConsumerAssumption
    <2>5. QED BY <2>1, <2>2, <2>3, <2>4 DEF Cached
  <1>2. CASE Known(e)
    <2>1. cache' = Append(Without(e), e) /\ UNCHANGED <<stale, results>>
      BY <1>2 DEF CheckAndSet
    <2>2. e \in Cached
      BY <1>2 DEF Known
    <2>3. QED BY <1>1, <2>1, <2>2, RoomProperties DEF TypeOK
  <1>3. CASE ~Known(e)
    <2>1. /\ cache' = Append(Room(e), e)
          /\ stale' = stale \ {e}
          /\ results' \in {results \cup {e}, results \ {e}}
      BY <1>3 DEF CheckAndSet
    <2>2. QED BY <1>1, <2>1, RoomProperties DEF TypeOK
  <1>4. QED BY <1>2, <1>3

-----------------------------------------------------------------------------
\* Whatever a step adds to the log, the records already there stay.
LEMMA ProduceKeepsRecords ==
  ASSUME TypeOK, NEW e \in Events, Produce(e)
  PROVE  /\ log' \in Seq(Events) /\ Len(log') = Len(log) + 1
         /\ Len(log) \in Nat
         /\ \A i \in 1..Len(log) : log'[i] = log[i]
  BY DEF TypeOK, Produce

LEMMA InitInv == ConsumerAssumption /\ Init => IInv
  <1> SUFFICES ASSUME ConsumerAssumption, Init PROVE IInv
    OBVIOUS
  <1>1. TypeOK
    BY DEF Init, TypeOK, ConsumerAssumption
  <1>2. Cached = {}
    BY DEF Init, Cached
  <1>3. QED
    BY <1>1, <1>2 DEF Init, IInv, TrackerHoldsSettled, LossOnlyAfterGivingUp,
                      Progress

\* One step per action; in each, the four parts of the invariant.
LEMMA NextInv ==
  ASSUME ConsumerAssumption, IInv, [Next]_vars
  PROVE  IInv'
  <1> USE DEF IInv
  <1>1. ASSUME NEW e \in Events, Produce(e) PROVE IInv'
    <2>1. /\ log' \in Seq(Events) /\ Len(log') = Len(log) + 1
          /\ Len(log) \in Nat /\ \A i \in 1..Len(log) : log'[i] = log[i]
      BY <1>1, ProduceKeepsRecords
    <2>2. UNCHANGED cvars /\ Len(log) < MaxLog
      BY <1>1 DEF Produce
    <2>3. Cached' = Cached /\ Settled' = Settled
      BY <2>2 DEF cvars, tracker, Cached, Settled
    <2>4. TypeOK'
      BY <2>1, <2>2 DEF TypeOK, cvars, tracker, ConsumerAssumption
    <2>5. InHand' = InHand /\ (cpc # "poll" => Msg' = Msg)
      BY <2>1, <2>2 DEF InHand, Msg, TypeOK, cvars
    <2>6. \A i \in 1..position : log'[i] = log[i]
      BY <2>1 DEF TypeOK
    <2>7. TrackerHoldsSettled'
      BY <2>3, <2>5 DEF TrackerHoldsSettled
    <2>8. Progress'
      BY <2>2, <2>3, <2>5, <2>6 DEF Progress, cvars
    <2>9. LossOnlyAfterGivingUp'
      <3>1. \A i \in 1..committed : log'[i] = log[i]
        BY <2>1 DEF TypeOK
      <3>2. committed' = committed
        BY <2>2 DEF cvars
      <3>3. QED BY <3>1, <3>2, <2>3 DEF LossOnlyAfterGivingUp
    <2>10. QED BY <2>4, <2>7, <2>8, <2>9
  <1>2. ASSUME Poll PROVE IInv'
    <2> DEFINE m == log[position + 1]
    <2>1. m \in Events /\ position + 1 \in 1..Len(log)
      BY <1>2 DEF Poll, TypeOK
    <2>2. /\ cache' \in Seq(Events) /\ Len(cache') <= Capacity
          /\ Cached' \subseteq Cached \cup {m}
          /\ stale' \in SUBSET Events /\ results' \in SUBSET Events
      BY <1>2, <2>1, CheckAndSetProperties DEF Poll
    <2>3. /\ cpc = "poll" /\ UNCHANGED <<log, committed, handled, acked, faults>>
          /\ position' = position + 1 /\ current' = position + 1 /\ attempt' = 0
      BY <1>2 DEF Poll
    <2>4. /\ cpc' \in {"commit", "poll", "dispatch"}
          /\ cpc' = "commit" => Known(m)
          /\ cpc' = "poll" => m \in Settled'
          /\ Settled \subseteq Settled' /\ givenUp' \in SUBSET Events
      BY <1>2, <2>1, <2>3 DEF Poll, Next_pc, Settled, TypeOK
    <2>5. TypeOK'
      BY <2>1, <2>2, <2>3, <2>4 DEF TypeOK, ConsumerAssumption
    <2>6. Msg' = m
      BY <2>3 DEF Msg
    <2>7. m \in Settled' \cup InHand'
      BY <2>4, <2>6 DEF InHand
    <2>8. Cached \subseteq Settled
      BY <2>3 DEF TrackerHoldsSettled, InHand
    <2>9. TrackerHoldsSettled'
      BY <2>2, <2>4, <2>7, <2>8 DEF TrackerHoldsSettled
    <2>10. cpc' = "commit" => m \in Settled'
      BY <2>4, <2>8 DEF Known
    <2>11. \A i \in 1..position : log[i] \in Settled
      BY <2>3 DEF Progress, InHand
    <2>12. \A i \in 1..position' : log'[i] \in Settled' \cup InHand'
      BY <2>3, <2>4, <2>7, <2>11 DEF TypeOK
    <2>13. Progress'
      BY <2>3, <2>6, <2>10, <2>12 DEF Progress, TypeOK
    <2>14. LossOnlyAfterGivingUp'
      BY <2>3, <2>4 DEF LossOnlyAfterGivingUp
    <2>15. QED BY <2>5, <2>9, <2>13, <2>14
  <1>3. ASSUME DispatchLands PROVE IInv'
    <2>1. /\ UNCHANGED <<log, committed, position, current, attempt, tracker,
                         acked, givenUp, faults>>
          /\ cpc = "dispatch" /\ cpc' = "answered"
          /\ handled' = [handled EXCEPT ![Msg] = @ + 1]
      BY <1>3 DEF DispatchLands
    <2>2. TypeOK'
      BY <2>1 DEF TypeOK, tracker, Msg
    <2>3. Cached' = Cached /\ Settled' = Settled /\ InHand' = InHand /\ Msg' = Msg
      BY <2>1 DEF tracker, Cached, Settled, InHand, Msg
    <2>4. QED
      BY <2>1, <2>2, <2>3 DEF TrackerHoldsSettled, LossOnlyAfterGivingUp, Progress
  <1>4. ASSUME DispatchReturns PROVE IInv'
    <2>1. /\ UNCHANGED <<log, committed, position, current, attempt, handled,
                         givenUp, faults>>
          /\ cpc = "answered" /\ cpc' = "commit"
          /\ acked' = acked \cup {Msg} /\ CheckAndSet(Msg, TRUE)
      BY <1>4 DEF DispatchReturns
    <2>2. Msg \in Events
      BY <2>1 DEF TypeOK, Msg
    <2>3. /\ cache' \in Seq(Events) /\ Len(cache') <= Capacity
          /\ Cached' \subseteq Cached \cup {Msg}
          /\ stale' \in SUBSET Events /\ results' \in SUBSET Events
      BY <2>1, <2>2, CheckAndSetProperties
    <2>4. TypeOK'
      BY <2>1, <2>2, <2>3 DEF TypeOK
    <2>5. /\ Msg' = Msg /\ Settled \subseteq Settled' /\ Msg \in Settled'
          /\ InHand = {Msg} /\ InHand' = {Msg}
      BY <2>1 DEF Msg, Settled, InHand
    <2>6. QED
      BY <2>1, <2>3, <2>4, <2>5
      DEF TrackerHoldsSettled, LossOnlyAfterGivingUp, Progress
  <1>5. ASSUME DispatchFails PROVE IInv'
    <2>1. /\ UNCHANGED <<log, committed, position, current, tracker, handled, acked>>
          /\ cpc \in {"dispatch", "answered"} /\ faults' \in 0..MaxFaults
      BY <1>5 DEF DispatchFails, Fault, NoFault, TypeOK, ConsumerAssumption
    <2>2. \/ attempt' \in 0..MaxRetries /\ cpc' = "dispatch" /\ givenUp' = givenUp
          \/ attempt' \in 0..MaxRetries /\ cpc' = "poll" /\ givenUp' = givenUp \cup {Msg}
      BY <1>5 DEF DispatchFails, RetryOrGiveUp, TypeOK, ConsumerAssumption
    <2>3. Msg \in Events /\ Msg' = Msg
      BY <2>1 DEF TypeOK, Msg
    <2>4. TypeOK'
      BY <2>1, <2>2, <2>3 DEF TypeOK, tracker
    <2>5. /\ Settled \subseteq Settled' /\ InHand = {Msg} /\ Cached' = Cached
          /\ Msg \in Settled' \cup InHand' /\ cpc' # "commit"
      BY <2>1, <2>2, <2>3 DEF Settled, InHand, tracker, Cached
    <2>6. QED
      BY <2>1, <2>4, <2>5
      DEF TrackerHoldsSettled, LossOnlyAfterGivingUp, Progress
  <1>6. ASSUME Commit PROVE IInv'
    <2>1. /\ UNCHANGED <<log, position, current, attempt, tracker, handled,
                         acked, givenUp, faults>>
          /\ cpc = "commit" /\ cpc' = "poll" /\ committed' = position
      BY <1>6 DEF Commit
    <2>2. TypeOK'
      BY <2>1 DEF TypeOK, tracker
    <2>3. /\ Settled' = Settled /\ Cached' = Cached
          /\ InHand = {Msg} /\ InHand' = {} /\ Msg \in Settled
      BY <2>1 DEF Settled, InHand, tracker, Cached, Progress
    <2>4. \A i \in 1..position : log[i] \in Settled
      BY <2>3 DEF Progress
    <2>5. QED
      BY <2>1, <2>2, <2>3, <2>4
      DEF TrackerHoldsSettled, LossOnlyAfterGivingUp, Progress, TypeOK
  <1>7. ASSUME CommitFails PROVE IInv'
    <2>1. /\ UNCHANGED <<log, committed, position, current, attempt, tracker,
                         handled, acked, givenUp>>
          /\ cpc = "commit" /\ cpc' = "poll" /\ faults' \in 0..MaxFaults
      BY <1>7 DEF CommitFails, Fault, TypeOK, ConsumerAssumption
    <2>2. TypeOK'
      BY <2>1 DEF TypeOK, tracker
    <2>3. /\ Settled' = Settled /\ Cached' = Cached
          /\ InHand = {Msg} /\ InHand' = {} /\ Msg \in Settled
      BY <2>1 DEF Settled, InHand, tracker, Cached, Progress
    <2>4. QED
      BY <2>1, <2>2, <2>3
      DEF TrackerHoldsSettled, LossOnlyAfterGivingUp, Progress
  <1>8. ASSUME Rebalance PROVE IInv'
    <2>1. /\ UNCHANGED <<log, committed, cpc, current, attempt, tracker, handled,
                         acked, givenUp>>
          /\ position' = committed /\ faults' \in 0..MaxFaults
      BY <1>8 DEF Rebalance, Fault, TypeOK, ConsumerAssumption
    <2>2. TypeOK'
      BY <2>1 DEF TypeOK, tracker
    <2>3. /\ Settled' = Settled /\ Cached' = Cached /\ InHand' = InHand
          /\ Msg' = Msg
      BY <2>1 DEF Settled, InHand, tracker, Cached, Msg
    <2>4. QED
      BY <2>1, <2>2, <2>3
      DEF TrackerHoldsSettled, LossOnlyAfterGivingUp, Progress, TypeOK
  <1>9. ASSUME Restart PROVE IInv'
    <2>1. /\ UNCHANGED <<log, committed, current, handled, acked, givenUp>>
          /\ position' = committed /\ faults' \in 0..MaxFaults
          /\ cpc' = "poll" /\ attempt' = 0
          /\ cache' = <<>> /\ stale' = {} /\ results' = {}
      BY <1>9 DEF Restart, Fault, TypeOK, ConsumerAssumption
    <2>2. TypeOK'
      BY <2>1 DEF TypeOK, ConsumerAssumption
    <2>3. Settled' = Settled /\ Cached' = {} /\ InHand' = {}
      BY <2>1 DEF Settled, InHand, Cached
    <2>4. QED
      BY <2>1, <2>2, <2>3
      DEF TrackerHoldsSettled, LossOnlyAfterGivingUp, Progress, TypeOK
  <1>10. ASSUME NEW e \in Events, Expire(e) PROVE IInv'
    <2>1. /\ UNCHANGED <<log, committed, position, cpc, current, attempt, cache,
                         results, handled, acked, givenUp>>
          /\ stale' = stale \cup {e} /\ faults' \in 0..MaxFaults
      BY <1>10 DEF Expire, Fault, TypeOK, ConsumerAssumption
    <2>2. TypeOK'
      BY <2>1 DEF TypeOK
    <2>3. /\ Settled' = Settled /\ Cached' = Cached /\ InHand' = InHand
          /\ Msg' = Msg
      BY <2>1 DEF Settled, InHand, Cached, Msg
    <2>4. QED
      BY <2>1, <2>2, <2>3
      DEF TrackerHoldsSettled, LossOnlyAfterGivingUp, Progress
  <1>11. ASSUME UNCHANGED vars PROVE IInv'
    <2>1. TypeOK'
      BY <1>11 DEF TypeOK, vars, cvars, tracker
    <2>2. /\ Settled' = Settled /\ Cached' = Cached /\ InHand' = InHand
          /\ Msg' = Msg
      BY <1>11 DEF Settled, InHand, Cached, Msg, vars, cvars, tracker
    <2>3. QED
      BY <1>11, <2>1, <2>2
      DEF TrackerHoldsSettled, LossOnlyAfterGivingUp, Progress, vars, cvars
  <1>12. QED
    BY <1>1, <1>2, <1>3, <1>4, <1>5, <1>6, <1>7, <1>8, <1>9, <1>10, <1>11
    DEF Next, Consume, Disturb

\* The bridge's state always satisfies its inductive invariant.
THEOREM BridgeInvariant == Spec => []IInv
  <1>1. Init => IInv
    BY InitInv, ConsumerAssumption
  <1>2. IInv /\ [Next]_vars => IInv'
    BY NextInv, ConsumerAssumption
  <1>3. QED BY <1>1, <1>2, PTL DEF Spec

\* For every topic, capacity, retry limit and number of faults, an offset is
\* committed only past records that M2 acknowledged or the bridge gave up on.
THEOREM BridgeLosesOnlyWhatItGaveUp == Spec => []LossOnlyAfterGivingUp
  <1>1. IInv => LossOnlyAfterGivingUp
    BY DEF IInv
  <1>2. QED BY <1>1, BridgeInvariant, PTL
-----------------------------------------------------------------------------
(* Repeats.  While the topic holds no more events than the tracker has room   *)
(* for, no key is evicted, and M2 sees an event again only when a fault took  *)
(* its key away or hid M2's answer.                                           *)

Logged == {log[i] : i \in DOMAIN log}
Fits == Cardinality(Logged) <= Capacity

Distinct(s) == \A i, j \in DOMAIN s : s[i] = s[j] => i = j

\* The tracker is a list of different keys, all of them taken from the topic.
TrackerFacts == /\ IsFiniteSet(Logged)
                /\ Cached \subseteq Logged
                /\ Distinct(cache)

\* How often M2 may still parse e before the next fault: once more if the
\* tracker does not know it, and once more if it is being dispatched.
Chances(e) == (IF Known(e) THEN 0 ELSE 1)
                + (IF cpc = "dispatch" /\ Msg = e THEN 1 ELSE 0)

RepeatsPaid == Fits => \A e \in Events : handled[e] + Chances(e) <= 1 + faults

RInv == TrackerFacts /\ RepeatsPaid

\* Removing the i-th of different elements removes that element and no other.
LEMMA DropDistinct ==
  ASSUME NEW S, NEW s \in Seq(S), NEW i \in DOMAIN s, Distinct(s)
  PROVE  /\ Drop(s, i) \in Seq(S) /\ Distinct(Drop(s, i))
         /\ \A j \in DOMAIN Drop(s, i) : Drop(s, i)[j] # s[i]
         /\ \A j \in DOMAIN Drop(s, i) : \E k \in DOMAIN s : Drop(s, i)[j] = s[k]
         /\ \A k \in DOMAIN s : k # i => \E j \in DOMAIN Drop(s, i) : Drop(s, i)[j] = s[k]
  <1>1. Len(s) \in Nat /\ DOMAIN s = 1..Len(s) /\ i \in 1..Len(s) /\ s # <<>>
    OBVIOUS
  <1>2. Drop(s, i) \in Seq(S)
    BY <1>1, DropProperties
  <1>3. /\ DOMAIN Drop(s, i) = 1..(Len(s) - 1)
        /\ \A j \in 1..(Len(s) - 1) :
             Drop(s, i)[j] = s[IF j < i THEN j ELSE j + 1]
    BY <1>1 DEF Drop
  <1>4. \A j \in 1..(Len(s) - 1) :
           (IF j < i THEN j ELSE j + 1) \in DOMAIN s \ {i}
    BY <1>1
  <1>5. Distinct(Drop(s, i))
    <2> SUFFICES ASSUME NEW j \in 1..(Len(s) - 1), NEW k \in 1..(Len(s) - 1),
                        Drop(s, i)[j] = Drop(s, i)[k]
                 PROVE  j = k
      BY <1>3 DEF Distinct
    <2>1. (IF j < i THEN j ELSE j + 1) = (IF k < i THEN k ELSE k + 1)
      BY <1>3, <1>4 DEF Distinct
    <2>2. QED BY <2>1, <1>1
  <1>6. \A j \in DOMAIN Drop(s, i) : Drop(s, i)[j] # s[i]
    BY <1>3, <1>4 DEF Distinct
  <1>7. \A j \in DOMAIN Drop(s, i) : \E k \in DOMAIN s : Drop(s, i)[j] = s[k]
    BY <1>3, <1>4
  <1>8. ASSUME NEW k \in DOMAIN s, k # i
        PROVE  \E j \in DOMAIN Drop(s, i) : Drop(s, i)[j] = s[k]
    <2>1. CASE k < i
      <3>1. k \in 1..(Len(s) - 1) /\ Drop(s, i)[k] = s[k]
        BY <1>1, <1>3, <2>1
      <3>2. QED BY <3>1, <1>3
    <2>2. CASE k > i
      <3>1. k - 1 \in 1..(Len(s) - 1) /\ ~(k - 1 < i) /\ (k - 1) + 1 = k
        BY <1>1, <2>2
      <3>2. Drop(s, i)[k - 1] = s[k]
        BY <1>3, <3>1
      <3>3. QED BY <3>1, <3>2, <1>3
    <2>3. QED BY <1>1, <1>8, <2>1, <2>2
  <1>9. QED BY <1>2, <1>5, <1>6, <1>7, <1>8

\* Without(e) holds the tracker's other keys, each once.
LEMMA WithoutKeeps ==
  ASSUME TypeOK, TrackerFacts, NEW e \in Events
  PROVE  /\ Without(e) \in Seq(Events) /\ Distinct(Without(e))
         /\ {Without(e)[j] : j \in DOMAIN Without(e)} = Cached \ {e}
  <1>1. cache \in Seq(Events) /\ Distinct(cache)
    BY DEF TypeOK, TrackerFacts, Distinct
  <1>2. CASE e \notin Cached
    BY <1>1, <1>2 DEF Without, Cached
  <1>3. CASE e \in Cached
    <2>1. PICK q \in DOMAIN cache : cache[q] = e /\ Without(e) = Drop(cache, q)
      BY <1>3 DEF Without, Cached
    <2>2. /\ Drop(cache, q) \in Seq(Events) /\ Distinct(Drop(cache, q))
          /\ \A j \in DOMAIN Drop(cache, q) : Drop(cache, q)[j] # e
          /\ \A j \in DOMAIN Drop(cache, q) :
               \E k \in DOMAIN cache : Drop(cache, q)[j] = cache[k]
          /\ \A k \in DOMAIN cache :
               k # q => \E j \in DOMAIN Drop(cache, q) : Drop(cache, q)[j] = cache[k]
      BY <1>1, <2>1, DropDistinct
    <2>3. \A f \in Cached \ {e} :
            \E j \in DOMAIN Drop(cache, q) : Drop(cache, q)[j] = f
      BY <2>1, <2>2 DEF Cached
    <2>4. \A j \in DOMAIN Drop(cache, q) : Drop(cache, q)[j] \in Cached \ {e}
      BY <2>2 DEF Cached
    <2>5. QED BY <2>1, <2>2, <2>3, <2>4
  <1>4. QED BY <1>2, <1>3

\* A topic that fits leaves room for every key: nothing is evicted.
LEMMA NothingEvicted ==
  ASSUME ConsumerAssumption, TypeOK, TrackerFacts, Fits,
         NEW e \in Events, e \in Logged
  PROVE  Room(e) = Without(e)
  <1> DEFINE left == Without(e)
             T == Logged \ {e}
  <1>1. /\ left \in Seq(Events) /\ Distinct(left)
        /\ {left[j] : j \in DOMAIN left} = Cached \ {e}
    BY WithoutKeeps
  <1>2. Len(left) \in Nat /\ DOMAIN left = 1..Len(left)
    BY <1>1
  <1>3. \A j \in 1..Len(left) : left[j] \in T
    BY <1>1, <1>2 DEF TrackerFacts
  <1>4. left \in Injection(1..Len(left), T)
    <2>1. left \in [1..Len(left) -> T]
      BY <1>1, <1>2, <1>3
    <2>2. IsInjective(left)
      BY <1>1 DEF IsInjective, Distinct
    <2>3. QED BY <2>1, <2>2 DEF Injection
  <1>5. /\ IsFiniteSet(T) /\ Cardinality(T) = Cardinality(Logged) - 1
        /\ Cardinality(Logged) \in Nat
    BY FS_RemoveElement, FS_CardinalityType DEF TrackerFacts
  <1>6. Cardinality(1..Len(left)) = Len(left)
    <2>1. Cardinality(1..Len(left)) = IF 1 > Len(left) THEN 0 ELSE Len(left) - 1 + 1
      BY <1>2, FS_Interval
    <2>2. QED BY <2>1, <1>2
  <1>7. Cardinality(1..Len(left)) <= Cardinality(T)
    BY <1>4, <1>5, FS_Injection
  <1>8. ~(Len(left) >= Capacity)
    BY <1>2, <1>5, <1>6, <1>7 DEF Fits, ConsumerAssumption
  <1>9. QED BY <1>8 DEF Room

\* check_and_set keeps the tracker a list of different keys of the topic; on a
\* topic that fits, e is known afterwards and every other key is as it was.
LEMMA CheckAndSetKeeps ==
  ASSUME ConsumerAssumption, TypeOK, TrackerFacts, NEW e \in Events, e \in Logged,
         NEW r \in BOOLEAN, CheckAndSet(e, r), log' = log
  PROVE  /\ TrackerFacts'
         /\ Fits => /\ Known(e)'
                    /\ \A f \in Events : f # e => (Known(f)' <=> Known(f))
  <1>1. /\ Without(e) \in Seq(Events) /\ Distinct(Without(e))
        /\ {Without(e)[j] : j \in DOMAIN Without(e)} = Cached \ {e}
    BY WithoutKeeps
  <1>2. /\ Room(e) \in Seq(Events) /\ Distinct(Room(e))
        /\ {Room(e)[j] : j \in DOMAIN Room(e)} \subseteq Cached \ {e}
    <2>1. CASE Len(Without(e)) >= Capacity
      <3>1. 1 \in DOMAIN Without(e) /\ Room(e) = Drop(Without(e), 1)
        BY <1>1, <2>1 DEF Room, ConsumerAssumption
      <3>2. /\ Room(e) \in Seq(Events) /\ Distinct(Room(e))
            /\ \A j \in DOMAIN Room(e) :
                 \E k \in DOMAIN Without(e) : Room(e)[j] = Without(e)[k]
        BY <1>1, <3>1, DropDistinct
      <3>3. QED BY <1>1, <3>2
    <2>2. CASE ~(Len(Without(e)) >= Capacity)
      BY <1>1, <2>2 DEF Room
    <2>3. QED BY <2>1, <2>2
  <1>3. ASSUME NEW left \in Seq(Events), Distinct(left),
               {left[j] : j \in DOMAIN left} \subseteq Cached \ {e},
               cache' = Append(left, e)
        PROVE  /\ TrackerFacts'
               /\ Cached' = {left[j] : j \in DOMAIN left} \cup {e}
    <2>1. /\ Len(left) \in Nat /\ DOMAIN left = 1..Len(left)
          /\ DOMAIN cache' = 1..(Len(left) + 1)
          /\ \A j \in 1..Len(left) : cache'[j] = left[j]
          /\ cache'[Len(left) + 1] = e
      BY <1>3
    <2>2. \A j \in 1..Len(left) : left[j] \in Cached /\ left[j] # e
      BY <1>3, <2>1
    <2>3. Distinct(cache')
      <3> SUFFICES ASSUME NEW i \in 1..(Len(left) + 1), NEW j \in 1..(Len(left) + 1),
                          cache'[i] = cache'[j]
                   PROVE  i = j
        BY <2>1 DEF Distinct
      <3>1. CASE i \in 1..Len(left) /\ j \in 1..Len(left)
        BY <3>1, <1>3, <2>1 DEF Distinct
      <3>2. CASE i = Len(left) + 1 \/ j = Len(left) + 1
        BY <3>2, <2>1, <2>2
      <3>3. QED BY <3>1, <3>2, <2>1
    <2>4. Cached' = {left[j] : j \in DOMAIN left} \cup {e}
      <3>1. \A j \in DOMAIN cache' : cache'[j] \in {left[k] : k \in DOMAIN left} \cup {e}
        BY <2>1
      <3>2. \A k \in DOMAIN left : left[k] \in Cached'
        BY <2>1 DEF Cached
      <3>3. e \in Cached'
        BY <2>1 DEF Cached
      <3>4. QED BY <3>1, <3>2, <3>3 DEF Cached
    <2>5. Logged' = Logged
      BY DEF Logged
    <2>6. Cached' \subseteq Logged'
      BY <2>4, <2>5, <1>3 DEF TrackerFacts
    <2>7. QED BY <2>3, <2>4, <2>5, <2>6 DEF TrackerFacts, Distinct
  <1>4. CASE Known(e)
    <2>1. cache' = Append(Without(e), e) /\ stale' = stale
      BY <1>4 DEF CheckAndSet
    <2>2. TrackerFacts' /\ Cached' = (Cached \ {e}) \cup {e}
      BY <1>1, <1>3, <2>1
    <2>3. QED BY <1>4, <2>1, <2>2 DEF Known
  <1>5. CASE ~Known(e)
    <2>1. cache' = Append(Room(e), e) /\ stale' = stale \ {e}
      BY <1>5 DEF CheckAndSet
    <2>2. TrackerFacts' /\ Cached' = {Room(e)[j] : j \in DOMAIN Room(e)} \cup {e}
      BY <1>2, <1>3, <2>1
    <2>3. Fits => Cached' = (Cached \ {e}) \cup {e}
      BY <1>1, <2>2, NothingEvicted
    <2>4. QED BY <2>1, <2>2, <2>3 DEF Known
  <1>6. QED BY <1>4, <1>5

\* A step that keeps the topic and the tracker, and gives nobody a new chance
\* that a fault does not pay for.
LEMMA ChancesPaid ==
  ASSUME TypeOK, TypeOK', RInv, log' = log, UNCHANGED tracker, handled' = handled,
         \/ /\ cpc' = "dispatch" => cpc = "dispatch" /\ Msg' = Msg
            /\ faults' = faults
         \/ faults' = faults + 1
  PROVE  RInv'
  <1>1. /\ Logged' = Logged /\ cache' = cache /\ stale' = stale
        /\ Cached' = Cached /\ (Fits' <=> Fits)
    BY DEF Logged, tracker, Cached, Fits
  <1>2. \A e : Known(e)' <=> Known(e)
    BY <1>1 DEF Known
  <1>3. TrackerFacts'
    BY <1>1 DEF RInv, TrackerFacts
  <1>4. RepeatsPaid'
    <2> SUFFICES ASSUME Fits, NEW e \in Events
                 PROVE  handled'[e] + Chances(e)' <= 1 + faults'
      BY <1>1 DEF RepeatsPaid
    <2>1. handled[e] + Chances(e) <= 1 + faults /\ handled'[e] = handled[e]
      BY DEF RInv, RepeatsPaid
    <2>2. handled[e] \in Nat /\ faults \in Nat
      BY DEF TypeOK
    <2>3. Chances(e)' <= Chances(e) + 1 /\ Chances(e) \in Nat /\ Chances(e)' \in Nat
      BY <1>2 DEF Chances
    <2>4. CASE faults' = faults + 1
      BY <2>1, <2>2, <2>3, <2>4
    <2>5. CASE /\ cpc' = "dispatch" => cpc = "dispatch" /\ Msg' = Msg
               /\ faults' = faults
      <3>1. Chances(e)' <= Chances(e)
        BY <1>2, <2>5 DEF Chances
      <3>2. QED BY <2>1, <2>2, <2>3, <2>5, <3>1
    <2>6. QED BY <2>4, <2>5
  <1>5. QED BY <1>3, <1>4 DEF RInv

\* The chances of every event after the tracker was offered m.
LEMMA ChancesAfterCheck ==
  ASSUME ConsumerAssumption, TypeOK, TypeOK', RInv, NEW m \in Events, m \in Logged,
         NEW r \in BOOLEAN, CheckAndSet(m, r), log' = log, handled' = handled,
         faults' = faults, cpc # "dispatch",
         cpc' = "dispatch" => ~Known(m) /\ Msg' = m
  PROVE  RInv'
  <1>1. /\ TrackerFacts'
        /\ Fits => /\ Known(m)'
                   /\ \A f \in Events : f # m => (Known(f)' <=> Known(f))
    BY CheckAndSetKeeps DEF RInv
  <1>2. Fits' <=> Fits
    BY DEF Fits, Logged
  <1>3. RepeatsPaid'
    <2> SUFFICES ASSUME Fits, NEW e \in Events
                 PROVE  handled'[e] + Chances(e)' <= 1 + faults'
      BY <1>2 DEF RepeatsPaid
    <2>1. handled[e] + Chances(e) <= 1 + faults /\ handled'[e] = handled[e]
      BY DEF RInv, RepeatsPaid
    <2>2. handled[e] \in Nat /\ faults \in Nat
      BY DEF TypeOK
    <2>3. Chances(e)' <= Chances(e) /\ Chances(e) \in Nat /\ Chances(e)' \in Nat
      <3>1. CASE e = m
        BY <1>1, <3>1 DEF Chances
      <3>2. CASE e # m
        BY <1>1, <3>2 DEF Chances
      <3>3. QED BY <3>1, <3>2
    <2>4. QED BY <2>1, <2>2, <2>3
  <1>4. QED BY <1>1, <1>3 DEF RInv

LEMMA NextRepeats ==
  ASSUME ConsumerAssumption, TypeOK, TypeOK', RInv, [Next]_vars
  PROVE  RInv'
  <1>1. ASSUME NEW e \in Events, Produce(e) PROVE RInv'
    <2>1. /\ log' \in Seq(Events) /\ Len(log') = Len(log) + 1
          /\ Len(log) \in Nat /\ \A i \in 1..Len(log) : log'[i] = log[i]
          /\ log'[Len(log) + 1] = e /\ log \in Seq(Events)
      BY <1>1, ProduceKeepsRecords DEF Produce, TypeOK
    <2>2. UNCHANGED cvars
      BY <1>1 DEF Produce
    <2>3. Logged' = Logged \cup {e}
      <3>1. DOMAIN log = 1..Len(log) /\ DOMAIN log' = 1..(Len(log) + 1)
        BY <2>1
      <3>2. \A i \in DOMAIN log' : log'[i] \in Logged \cup {e}
        <4>1. ASSUME NEW i \in 1..(Len(log) + 1) PROVE log'[i] \in Logged \cup {e}
          <5>1. CASE i = Len(log) + 1
            BY <5>1, <2>1
          <5>2. CASE i # Len(log) + 1
            BY <5>2, <2>1, <3>1 DEF Logged
          <5>3. QED BY <5>1, <5>2
        <4>2. QED BY <4>1, <3>1
      <3>3. \A i \in DOMAIN log : log[i] \in Logged'
        BY <2>1, <3>1 DEF Logged
      <3>4. e \in Logged'
        BY <2>1, <3>1 DEF Logged
      <3>5. QED BY <3>2, <3>3, <3>4 DEF Logged
    <2>4. /\ IsFiniteSet(Logged') /\ (Fits' => Fits)
      <3>1. /\ IsFiniteSet(Logged) /\ Cardinality(Logged) \in Nat
        BY FS_CardinalityType DEF RInv, TrackerFacts
      <3>2. /\ IsFiniteSet(Logged \cup {e})
            /\ Cardinality(Logged \cup {e}) =
                 IF e \in Logged THEN Cardinality(Logged) ELSE Cardinality(Logged) + 1
        BY <3>1, FS_AddElement
      <3>3. QED BY <2>3, <3>1, <3>2 DEF Fits, ConsumerAssumption
    <2>5. /\ cache' = cache /\ stale' = stale /\ handled' = handled
          /\ faults' = faults /\ cpc' = cpc /\ current' = current
      BY <2>2 DEF cvars, tracker
    <2>6. TrackerFacts'
      BY <2>3, <2>4, <2>5 DEF RInv, TrackerFacts, Cached
    <2>7. cpc = "dispatch" => Msg' = Msg
      BY <2>1, <2>5 DEF Msg, TypeOK
    <2>8. \A f : Chances(f)' = Chances(f)
      BY <2>5, <2>7 DEF Chances, Known, Cached
    <2>9. RepeatsPaid'
      BY <2>4, <2>5, <2>8 DEF RInv, RepeatsPaid
    <2>10. QED BY <2>6, <2>9 DEF RInv
  <1>2. ASSUME Poll PROVE RInv'
    <2> DEFINE m == log[position + 1]
    <2>1. m \in Events /\ position + 1 \in DOMAIN log
      BY <1>2 DEF Poll, TypeOK
    <2>2. m \in Logged
      BY <2>1 DEF Logged
    <2>3. /\ CheckAndSet(m, FALSE) /\ log' = log /\ handled' = handled
          /\ faults' = faults /\ cpc = "poll" /\ cpc' = Next_pc(m)
          /\ current' = position + 1
      BY <1>2 DEF Poll
    <2>4. cpc' = "dispatch" => ~Known(m) /\ Msg' = m
      BY <2>3 DEF Next_pc, Msg
    <2>5. FALSE \in BOOLEAN /\ cpc # "dispatch"
      BY <2>3
    <2>6. QED BY ONLY <2>1, <2>2, <2>3, <2>4, <2>5, ChancesAfterCheck,
                      ConsumerAssumption, TypeOK, TypeOK', RInv
  <1>3. ASSUME DispatchLands PROVE RInv'
    <2>1. /\ log' = log /\ current' = current /\ UNCHANGED tracker
          /\ faults' = faults /\ cpc = "dispatch" /\ cpc' = "answered"
          /\ handled' = [handled EXCEPT ![Msg] = @ + 1]
      BY <1>3 DEF DispatchLands
    <2>2. Msg \in Events
      BY <2>1 DEF TypeOK, Msg
    <2>3. /\ Logged' = Logged /\ cache' = cache /\ stale' = stale
          /\ Cached' = Cached /\ (Fits' <=> Fits)
      BY <2>1 DEF Logged, tracker, Cached, Fits
    <2>4. \A e : Known(e)' <=> Known(e)
      BY <2>3 DEF Known
    <2>5. RepeatsPaid'
      <3> SUFFICES ASSUME Fits, NEW e \in Events
                   PROVE  handled'[e] + Chances(e)' <= 1 + faults'
        BY <2>3 DEF RepeatsPaid
      <3>1. handled[e] + Chances(e) <= 1 + faults /\ handled[e] \in Nat /\ faults \in Nat
        BY DEF RInv, RepeatsPaid, TypeOK
      <3>2. handled'[e] = handled[e] + (IF e = Msg THEN 1 ELSE 0)
        BY <2>1, <2>2 DEF TypeOK
      <3>3. Chances(e) = Chances(e)' + (IF e = Msg THEN 1 ELSE 0) /\ Chances(e)' \in Nat
        BY <2>1, <2>4 DEF Chances
      <3>4. QED BY <2>1, <3>1, <3>2, <3>3
    <2>6. QED BY <2>3, <2>5 DEF RInv, TrackerFacts
  <1>4. ASSUME DispatchReturns PROVE RInv'
    <2>1. /\ CheckAndSet(Msg, TRUE) /\ log' = log /\ handled' = handled
          /\ faults' = faults /\ cpc = "answered" /\ cpc' = "commit"
      BY <1>4 DEF DispatchReturns
    <2>2. Msg \in Events /\ Msg \in Logged
      BY <2>1 DEF TypeOK, Msg, Logged
    <2>3. TRUE \in BOOLEAN /\ cpc # "dispatch" /\ cpc' # "dispatch"
      BY <2>1
    <2>4. QED BY ONLY <2>1, <2>2, <2>3, ChancesAfterCheck,
                      ConsumerAssumption, TypeOK, TypeOK', RInv
  <1>5. ASSUME DispatchFails PROVE RInv'
    <2>1. /\ log' = log /\ current' = current /\ UNCHANGED tracker
          /\ handled' = handled /\ Msg' = Msg
      BY <1>5 DEF DispatchFails, Msg
    <2>2. (cpc = "dispatch" /\ faults' = faults) \/ faults' = faults + 1
      BY <1>5 DEF DispatchFails, Fault, NoFault
    <2>3. QED BY <2>1, <2>2, ChancesPaid
  <1>6. ASSUME Commit PROVE RInv'
    BY <1>6, ChancesPaid DEF Commit
  <1>7. ASSUME CommitFails \/ Rebalance PROVE RInv'
    BY <1>7, ChancesPaid DEF CommitFails, Rebalance, Fault
  <1>8. ASSUME Restart PROVE RInv'
    <2>1. /\ log' = log /\ handled' = handled /\ faults' = faults + 1
          /\ cpc' = "poll" /\ cache' = <<>>
      BY <1>8 DEF Restart, Fault
    <2>2. Logged' = Logged /\ Cached' = {} /\ DOMAIN cache' = {}
      BY <2>1 DEF Logged, Cached
    <2>3. TrackerFacts'
      BY <2>2 DEF RInv, TrackerFacts, Distinct
    <2>4. RepeatsPaid'
      <3> SUFFICES ASSUME Fits', NEW e \in Events
                   PROVE  handled'[e] + Chances(e)' <= 1 + faults'
        BY DEF RepeatsPaid
      <3>1. /\ handled[e] + Chances(e) <= 1 + faults
            /\ handled[e] \in Nat /\ faults \in Nat
        BY <2>2 DEF RInv, RepeatsPaid, Fits, TypeOK
      <3>2. Chances(e)' = 1 /\ Chances(e) \in Nat
        BY <2>1, <2>2 DEF Chances, Known
      <3>3. QED BY <2>1, <3>1, <3>2
    <2>5. QED BY <2>3, <2>4 DEF RInv
  <1>9. ASSUME NEW x \in Events, Expire(x) PROVE RInv'
    <2>1. /\ log' = log /\ handled' = handled /\ faults' = faults + 1
          /\ cpc' = cpc /\ current' = current /\ cache' = cache
          /\ stale' = stale \cup {x}
      BY <1>9 DEF Expire, Fault
    <2>2. Logged' = Logged /\ Cached' = Cached /\ Msg' = Msg
      BY <2>1 DEF Logged, Cached, Msg
    <2>3. TrackerFacts'
      BY <2>1, <2>2 DEF RInv, TrackerFacts
    <2>4. RepeatsPaid'
      <3> SUFFICES ASSUME Fits', NEW e \in Events
                   PROVE  handled'[e] + Chances(e)' <= 1 + faults'
        BY DEF RepeatsPaid
      <3>1. /\ handled[e] + Chances(e) <= 1 + faults
            /\ handled[e] \in Nat /\ faults \in Nat
        BY <2>2 DEF RInv, RepeatsPaid, Fits, TypeOK
      <3>2. Chances(e)' <= Chances(e) + 1 /\ Chances(e) \in Nat /\ Chances(e)' \in Nat
        BY <2>1, <2>2 DEF Chances, Known
      <3>3. QED BY <2>1, <3>1, <3>2
    <2>5. QED BY <2>3, <2>4 DEF RInv
  <1>10. ASSUME UNCHANGED vars PROVE RInv'
    BY <1>10, ChancesPaid DEF vars, cvars, Msg
  <1>11. QED
    BY <1>1, <1>2, <1>3, <1>4, <1>5, <1>6, <1>7, <1>8, <1>9, <1>10
    DEF Next, Consume, Disturb

LEMMA InitRepeats == ASSUME ConsumerAssumption, Init PROVE RInv
  <1>1. Logged = {} /\ Cached = {} /\ DOMAIN cache = {}
    BY DEF Init, Logged, Cached
  <1>2. TrackerFacts
    BY <1>1, FS_EmptySet DEF TrackerFacts, Distinct
  <1>3. \A e \in Events : handled[e] = 0 /\ Chances(e) = 1 /\ faults = 0
    BY <1>1 DEF Init, Chances, Known
  <1>4. QED BY <1>2, <1>3 DEF RInv, RepeatsPaid

\* For every topic that fits the tracker, however often it holds an event, M2
\* parses each event at most once more than the number of faults.
THEOREM RepeatsAreExplained == Spec => []RepeatsExplained
  <1>1. Init => RInv
    BY InitRepeats, ConsumerAssumption
  <1>2. IInv /\ IInv' /\ RInv /\ [Next]_vars => RInv'
    BY NextRepeats, ConsumerAssumption DEF IInv
  <1>3. IInv /\ RInv => RepeatsExplained
    <2> SUFFICES ASSUME TypeOK, RInv, Fits, NEW e \in Events
                 PROVE  handled[e] <= 1 + faults
      BY DEF RepeatsExplained, Fits, Logged, IInv
    <2>1. /\ handled[e] + Chances(e) <= 1 + faults
          /\ handled[e] \in Nat /\ faults \in Nat
      BY DEF RInv, RepeatsPaid, TypeOK
    <2>2. Chances(e) \in Nat
      BY DEF Chances
    <2>3. QED BY <2>1, <2>2
  <1>4. QED BY <1>1, <1>2, <1>3, BridgeInvariant, PTL DEF Spec
-----------------------------------------------------------------------------
(* M2: sequences. *)

\* A set of natural numbers has a least element.  Induction over sequences is by
\* the least counterexample.
LEMMA LeastOf ==
  ASSUME NEW T, T \subseteq Nat, T # {}
  PROVE  \E n \in T : \A m \in T : n <= m
<1> DEFINE R == OpToRel(<, Nat)
<1>1. IsWellFoundedOn(R, Nat)  BY NatLessThanWellFounded
<1>2. PICK x \in T : \A y \in T : ~ (<<y, x>> \in R)
  <2> HIDE DEF R
  <2> QED BY <1>1, WFMin
<1>3. \A y \in T : ~(y < x)
  BY <1>2 DEF OpToRel
<1> QED BY <1>3

\* Induction up to N, over sets.
LEMMA Climb ==
  ASSUME NEW N \in Nat, NEW T, 1 \in T,
         \A n \in 1..N : n \in T /\ n < N => n + 1 \in T
  PROVE  1..N \subseteq T
<1> DEFINE Bad == (1..N) \ T
<1> SUFFICES ASSUME Bad # {} PROVE FALSE
  OBVIOUS
<1>1. PICK m \in Bad : \A k \in Bad : m <= k
  <2>1. Bad \subseteq Nat
    OBVIOUS
  <2> HIDE DEF Bad
  <2> QED BY <2>1, LeastOf
<1>2. m - 1 \in 1..N /\ m - 1 < N /\ m - 1 + 1 = m
  BY <1>1
<1> QED BY <1>1, <1>2

\* FlattenSeq is the last value of a function that appends one sequence at a time.
LEMMA Unfold ==
  ASSUME NEW A, NEW g \in Seq(Seq(A)), Len(g) > 0
  PROVE  \E f : /\ f = [n \in 1..Len(g) |-> IF n = 1 THEN g[n] ELSE f[n-1] \o g[n]]
                /\ FlattenSeq(g) = f[Len(g)]
<1> DEFINE Good(m, h) == h = [n \in 1..m |-> IF n = 1 THEN g[n] ELSE h[n-1] \o g[n]]
           T == {m \in 1..Len(g) : \E h : Good(m, h)}
<1>0. Len(g) \in Nat /\ Len(g) \in 1..Len(g) /\ 1 \in 1..Len(g)
  OBVIOUS
<1>1. 1 \in T
  <2> DEFINE h == [n \in 1..1 |-> g[1]]
  <2>1. Good(1, h)
    OBVIOUS
  <2> QED BY <1>0, <2>1
<1>2. ASSUME NEW m \in 1..Len(g), m \in T, m < Len(g) PROVE m + 1 \in T
  <2>1. PICK h : Good(m, h)
    BY <1>2
  <2>2. \A n \in 1..m : h[n] = IF n = 1 THEN g[n] ELSE h[n-1] \o g[n]
    BY <2>1
  <2> DEFINE k == [n \in 1..m + 1 |-> IF n = m + 1 THEN h[m] \o g[m + 1] ELSE h[n]]
  <2>3. ASSUME NEW n \in 1..m + 1 PROVE k[n] = IF n = 1 THEN g[n] ELSE k[n-1] \o g[n]
    <3>1. CASE n = m + 1
      <4>1. n # 1 /\ n - 1 = m /\ m \in 1..m + 1 /\ m # m + 1
        BY <3>1
      <4>2. k[n] = h[m] \o g[m + 1] /\ k[n - 1] = h[m]
        BY <3>1, <4>1
      <4> QED BY <3>1, <4>1, <4>2
    <3>2. CASE n # m + 1
      <4>1. n \in 1..m /\ (n # 1 => n - 1 \in 1..m)
        BY <3>2
      <4>2. k[n] = h[n] /\ (n # 1 => k[n-1] = h[n-1])
        BY <4>1
      <4> QED BY <2>2, <4>1, <4>2
    <3> QED BY <3>1, <3>2
  <2>4. k = [n \in 1..m + 1 |-> k[n]]
    OBVIOUS
  <2> HIDE DEF k
  <2>5. Good(m + 1, k)
    BY <2>3, <2>4
  <2> HIDE DEF Good
  <2>6. m + 1 \in 1..Len(g)
    BY <1>0, <1>2
  <2> QED BY <2>5, <2>6
<1>3. \E h : Good(Len(g), h)
  <2> HIDE DEF Good
  <2>1. 1..Len(g) \subseteq T
    <3> HIDE DEF T
    <3> QED BY <1>0, <1>1, <1>2, Climb
  <2> QED BY <2>1, <1>0
<1> DEFINE f == CHOOSE h : Good(Len(g), h)
<1>4. Good(Len(g), f)
  BY <1>3
<1>5. FlattenSeq(g) = f[Len(g)]
  BY DEF FlattenSeq
<1> QED BY <1>4, <1>5

\* c is a followed by b.
Joins(a, b, c) ==
  /\ Len(c) = Len(a) + Len(b)
  /\ \A k \in DOMAIN c : \/ k \in DOMAIN a /\ c[k] = a[k]
                         \/ /\ k > Len(a) /\ k - Len(a) \in DOMAIN b
                            /\ c[k] = b[k - Len(a)]
  /\ \A k \in DOMAIN a : k \in DOMAIN c /\ c[k] = a[k]
  /\ \A k \in DOMAIN b : Len(a) + k \in DOMAIN c /\ c[Len(a) + k] = b[k]

\* What concatenation gives, by position.
LEMMA Joined ==
  ASSUME NEW A, NEW a \in Seq(A), NEW b \in Seq(A)
  PROVE  a \o b \in Seq(A) /\ Joins(a, b, a \o b)
<1>1. /\ a \o b \in Seq(A) /\ Len(a \o b) = Len(a) + Len(b)
      /\ DOMAIN a = 1..Len(a) /\ DOMAIN b = 1..Len(b) /\ DOMAIN (a \o b) = 1..Len(a \o b)
      /\ Len(a) \in Nat /\ Len(b) \in Nat
  OBVIOUS
<1>2. \A k \in 1..Len(a) : (a \o b)[k] = a[k]
  OBVIOUS
<1>3. \A k \in 1..Len(b) : (a \o b)[Len(a) + k] = b[k]
  OBVIOUS
<1> DEFINE c == a \o b
<1> HIDE DEF c
<1>4. \A k \in 1..Len(a) + Len(b) :
        k \in 1..Len(a) \/ (k > Len(a) /\ k - Len(a) \in 1..Len(b) /\ Len(a) + (k - Len(a)) = k)
  BY <1>1
<1>5. /\ \A k \in 1..Len(a) : k \in 1..Len(a) + Len(b)
      /\ \A k \in 1..Len(b) : Len(a) + k \in 1..Len(a) + Len(b)
  BY <1>1
<1>6. /\ c \in Seq(A) /\ DOMAIN c = 1..Len(a) + Len(b)
      /\ \A k \in 1..Len(a) : c[k] = a[k]
      /\ \A k \in 1..Len(b) : c[Len(a) + k] = b[k]
  BY <1>1, <1>2, <1>3 DEF c
<1>7. \A k \in DOMAIN c :
              \/ k \in DOMAIN a /\ c[k] = a[k]
              \/ k > Len(a) /\ k - Len(a) \in DOMAIN b /\ c[k] = b[k - Len(a)]
  <2> SUFFICES ASSUME NEW k \in 1..Len(a) + Len(b)
               PROVE  \/ k \in 1..Len(a) /\ c[k] = a[k]
                      \/ k > Len(a) /\ k - Len(a) \in 1..Len(b) /\ c[k] = b[k - Len(a)]
    BY <1>1, <1>6
  <2> QED BY <1>4, <1>6
<1>8. /\ \A k \in DOMAIN a : k \in DOMAIN c /\ c[k] = a[k]
      /\ \A k \in DOMAIN b : Len(a) + k \in DOMAIN c /\ c[Len(a) + k] = b[k]
  BY <1>1, <1>5, <1>6
<1>9. Len(c) = Len(a) + Len(b)
  BY <1>1 DEF c
<1>10. Joins(a, b, c)
  BY <1>7, <1>8, <1>9 DEF Joins
<1> QED BY <1>1, <1>10 DEF c

\* What FlattenSeq gives; K is a key that may be the same within a sequence and
\* grow from one to the next.
LEMMA FlattenFacts ==
  ASSUME NEW A, NEW g \in Seq(Seq(A)), NEW K
  PROVE  /\ FlattenSeq(g) \in Seq(A)
         /\ \A k \in DOMAIN FlattenSeq(g) :
              \E n \in DOMAIN g : \E j \in DOMAIN g[n] : FlattenSeq(g)[k] = g[n][j]
         /\ \A n \in DOMAIN g : \A j \in DOMAIN g[n] :
              \E k \in DOMAIN FlattenSeq(g) : FlattenSeq(g)[k] = g[n][j]
         /\ (\A n \in DOMAIN g : Len(g[n]) <= 1) => Len(FlattenSeq(g)) <= Len(g)
         /\ (\A n \in DOMAIN g : \A j \in DOMAIN g[n] : K[g[n][j]] = n) =>
              \A i, j \in DOMAIN FlattenSeq(g) :
                i <= j => K[FlattenSeq(g)[i]] <= K[FlattenSeq(g)[j]]
<1>1. CASE Len(g) = 0
  <2>1. FlattenSeq(g) = g /\ g = <<>>
    BY <1>1 DEF FlattenSeq
  <2> QED BY <2>1
<1>2. CASE Len(g) # 0
  <2>0. Len(g) \in Nat /\ Len(g) > 0 /\ DOMAIN g = 1..Len(g)
    BY <1>2
  <2>1. PICK f : /\ f = [n \in 1..Len(g) |-> IF n = 1 THEN g[n] ELSE f[n-1] \o g[n]]
                 /\ FlattenSeq(g) = f[Len(g)]
    BY <2>0, Unfold
  <2>2. /\ f[1] = g[1]
        /\ \A n \in 1..Len(g) : n < Len(g) => f[n + 1] = f[n] \o g[n + 1]
    <3>1. \A n \in 1..Len(g) : f[n] = IF n = 1 THEN g[n] ELSE f[n-1] \o g[n]
      BY <2>1
    <3>2. \A n \in 1..Len(g) : n < Len(g) => n + 1 \in 1..Len(g) /\ n + 1 # 1 /\ (n + 1) - 1 = n
      BY <2>0
    <3>3. 1 \in 1..Len(g)
      BY <2>0
    <3> QED BY <3>1, <3>2, <3>3
  <2> DEFINE Small(n) == \A m \in 1..n : Len(g[m]) <= 1
             Keyed(n) == \A m \in 1..n : \A j \in DOMAIN g[m] : K[g[m][j]] = m
             From(n) == \A k \in DOMAIN f[n] :
                          \E m \in 1..n : \E j \in DOMAIN g[m] : f[n][k] = g[m][j]
             All(n) == \A m \in 1..n : \A j \in DOMAIN g[m] :
                         \E k \in DOMAIN f[n] : f[n][k] = g[m][j]
             Short(n) == Small(n) => Len(f[n]) <= n
             Ordered(n) == Keyed(n) => \A i, j \in DOMAIN f[n] :
                                         i <= j => K[f[n][i]] <= K[f[n][j]]
             T == {n \in 1..Len(g) : /\ f[n] \in Seq(A) /\ From(n) /\ All(n)
                                     /\ Short(n) /\ Ordered(n)}
  <2>3. 1 \in T
    <3>1. 1 \in 1..Len(g) /\ g[1] \in Seq(A) /\ 1..1 = {1}
      BY <2>0
    <3>2. From(1) /\ All(1) /\ Short(1)
      BY <3>1, <2>2
    <3>3. Ordered(1)
      <4> SUFFICES ASSUME Keyed(1), NEW i \in DOMAIN g[1], NEW j \in DOMAIN g[1]
                   PROVE  K[g[1][i]] <= K[g[1][j]]
        BY <2>2
      <4>1. K[g[1][i]] = 1 /\ K[g[1][j]] = 1
        BY <3>1
      <4> QED BY <4>1
    <3> HIDE DEF From, All, Short, Ordered
    <3> QED BY <3>1, <3>2, <3>3, <2>2
  <2>4. ASSUME NEW n \in 1..Len(g), n \in T, n < Len(g) PROVE n + 1 \in T
    <3> DEFINE a == f[n]  b == g[n + 1]  c == f[n + 1]
    <3>1. n + 1 \in 1..Len(g) /\ b \in Seq(A) /\ a \in Seq(A)
      BY <2>0, <2>4
    <3>2. c = a \o b
      BY <2>2, <2>4
    <3>3. /\ c \in Seq(A) /\ Len(c) = Len(a) + Len(b)
          /\ \A k \in DOMAIN c :
              \/ k \in DOMAIN a /\ c[k] = a[k]
              \/ k > Len(a) /\ k - Len(a) \in DOMAIN b /\ c[k] = b[k - Len(a)]
          /\ \A k \in DOMAIN a : k \in DOMAIN c /\ c[k] = a[k]
          /\ \A k \in DOMAIN b : Len(a) + k \in DOMAIN c /\ c[Len(a) + k] = b[k]
      <4> HIDE DEF a, b, c
      <4>1. a \in Seq(A) /\ b \in Seq(A)
        BY <3>1
      <4>2. c \in Seq(A) /\ Joins(a, b, c)
        BY <4>1, <3>2, Joined
      <4> QED BY <4>2 DEF Joins
    <3>4. /\ Len(a) \in Nat /\ Len(b) \in Nat
          /\ DOMAIN a = 1..Len(a) /\ DOMAIN c = 1..Len(c)
      <4> HIDE DEF a, b, c
      <4>1. c \in Seq(A)
        BY <3>3
      <4>2. Len(a) \in Nat /\ Len(b) \in Nat /\ DOMAIN a = 1..Len(a)
        BY <3>1
      <4>3. DOMAIN c = 1..Len(c)
        BY <4>1
      <4> QED BY <4>2, <4>3
    <3>5. From(n) /\ All(n) /\ Short(n) /\ Ordered(n)
      BY <2>4
    <3>d. 1..n \subseteq 1..n + 1 /\ n + 1 \in 1..n+1 /\ 1..n+1 = (1..n) \cup {n + 1}
      OBVIOUS
    <3>6. From(n + 1)
      <4> SUFFICES ASSUME NEW k \in DOMAIN c
                   PROVE  \E m \in 1..n + 1 : \E j \in DOMAIN g[m] : c[k] = g[m][j]
        OBVIOUS
      <4>1. CASE k \in DOMAIN a /\ c[k] = a[k]
        <5>1. \E m \in 1..n : \E j \in DOMAIN g[m] : a[k] = g[m][j]
          BY <4>1, <3>5
        <5> QED BY <5>1, <4>1, <3>d
      <4>2. CASE k - Len(a) \in DOMAIN b /\ c[k] = b[k - Len(a)]
        BY <4>2, <3>d
      <4> QED BY <4>1, <4>2, <3>3
    <3>7. All(n + 1)
      <4> SUFFICES ASSUME NEW m \in 1..n + 1, NEW j \in DOMAIN g[m]
                   PROVE  \E k \in DOMAIN c : c[k] = g[m][j]
        OBVIOUS
      <4>1. CASE m \in 1..n
        <5>1. PICK k \in DOMAIN a : a[k] = g[m][j]
          BY <4>1, <3>5
        <5> QED BY <5>1, <3>3
      <4>2. CASE m = n + 1
        BY <4>2, <3>3
      <4> QED BY <4>1, <4>2, <3>d
    <3>8. Short(n + 1)
      <4> SUFFICES ASSUME Small(n + 1) PROVE Len(c) <= n + 1
        OBVIOUS
      <4>1. Small(n) /\ Len(b) <= 1
        BY <3>d
      <4>2. Len(a) <= n
        BY <4>1, <3>5
      <4> HIDE DEF Small, Short, a, b, c
      <4> QED BY <4>1, <4>2, <3>3, <3>4
    <3>9. Ordered(n + 1)
      <4> SUFFICES ASSUME Keyed(n + 1), NEW i \in DOMAIN c, NEW j \in DOMAIN c, i <= j
                   PROVE  K[c[i]] <= K[c[j]]
        OBVIOUS
      <4>1. Keyed(n)
        BY <3>d
      <4>2. \A k \in DOMAIN b : K[b[k]] = n + 1
        BY <3>d
      <4>3. \A k \in DOMAIN a : K[a[k]] \in 1..n
        <5> SUFFICES ASSUME NEW k \in DOMAIN a PROVE K[a[k]] \in 1..n
          OBVIOUS
        <5>1. PICK m \in 1..n : \E l \in DOMAIN g[m] : a[k] = g[m][l]
          BY <3>5
        <5> QED BY <5>1, <4>1
      <4>4. \A k, l \in DOMAIN a : k <= l => K[a[k]] <= K[a[l]]
        BY <4>1, <3>5
      <4> HIDE DEF Keyed, Ordered, a, b, c
      <4>5. CASE j \in DOMAIN a /\ c[j] = a[j]
        <5>1. i \in DOMAIN a
          <6>1. i \in Nat /\ i >= 1
            BY <3>4
          <6> QED BY <4>5, <3>4, <6>1
        <5>2. c[i] = a[i]
          BY <5>1, <3>3
        <5> QED BY <5>1, <5>2, <4>5, <4>4
      <4>6. CASE j - Len(a) \in DOMAIN b /\ c[j] = b[j - Len(a)]
        <5>1. K[c[j]] = n + 1
          BY <4>6, <4>2
        <5>2. K[c[i]] \in 1..n \/ K[c[i]] = n + 1
          BY <3>3, <4>2, <4>3
        <5> QED BY <5>1, <5>2
      <4> QED BY <4>5, <4>6, <3>3
    <3> HIDE DEF From, All, Short, Ordered
    <3> QED BY <3>1, <3>3, <3>6, <3>7, <3>8, <3>9
  <2>5. Len(g) \in T
    <3>1. 1..Len(g) \subseteq T
      <4> HIDE DEF T
      <4> QED BY <2>0, <2>3, <2>4, Climb
    <3>2. Len(g) \in 1..Len(g)
      BY <2>0
    <3> QED BY <3>1, <3>2
  <2>6. f[Len(g)] \in Seq(A) /\ From(Len(g)) /\ All(Len(g)) /\ Short(Len(g)) /\ Ordered(Len(g))
    <3> HIDE DEF From, All, Short, Ordered
    <3> QED BY <2>5
  <2>7. /\ f[Len(g)] \in Seq(A)
        /\ \A k \in DOMAIN f[Len(g)] :
             \E n \in DOMAIN g : \E j \in DOMAIN g[n] : f[Len(g)][k] = g[n][j]
        /\ \A n \in DOMAIN g : \A j \in DOMAIN g[n] :
             \E k \in DOMAIN f[Len(g)] : f[Len(g)][k] = g[n][j]
    BY <2>6, <2>0
  <2>8. (\A n \in DOMAIN g : Len(g[n]) <= 1) => Len(f[Len(g)]) <= Len(g)
    BY <2>6, <2>0
  <2>9. (\A n \in DOMAIN g : \A j \in DOMAIN g[n] : K[g[n][j]] = n) =>
          \A i, j \in DOMAIN f[Len(g)] : i <= j => K[f[Len(g)][i]] <= K[f[Len(g)][j]]
    BY <2>6, <2>0
  <2>10. FlattenSeq(g) = f[Len(g)]
    BY <2>1
  <2> QED BY <2>7, <2>8, <2>9, <2>10
<1> QED BY <1>1, <1>2
-----------------------------------------------------------------------------
(* M2: the lists of find_parser. *)

\* Where find_parser still looks.
Waiting == {"list", "iterate", "try"}

\* The lifecycle changes.
Changes == {"enable", "disable"}

\* Where save is.
Saving == {"save", "tenant", "id", "version"}

\* The dictionaries a request lists at its step.
Dict(t) == Dictionaries(stage[t], req[t])

\* Where a request can be, by its kind, and what it has chosen there.
PlaceOK(t) ==
  /\ pc[t] = "idle" => req[t] = NoRequest
  /\ req[t].kind = "none" => pc[t] \in {"idle", "done"} /\ chosen[t] = 0
  /\ pc[t] \in {"list", "iterate"} =>
       req[t].kind \in {"parse", "list", "register"} \cup Changes
  /\ pc[t] = "iterate" => walk[t].shelf \in 1..Len(Dict(t))
  /\ pc[t] = "try" => req[t].kind = "parse"
  /\ pc[t] = "parse" => req[t].kind \in {"parse", "replay"}
  /\ pc[t] \in Saving => \/ req[t].kind = "register"
                         \/ req[t].kind \in Changes /\ chosen[t] # 0
  /\ pc[t] = "set" => req[t].kind \in Changes
  /\ req[t].kind = "parse" => stage[t] \in 1..3 /\ (pc[t] \in Waiting => chosen[t] = 0)
  /\ chosen[t] = BuiltIn => req[t].kind = "parse"
  /\ result[t] # "none" => pc[t] = "done"
  /\ Parsed(t) => req[t].kind \in {"parse", "replay"}

\* Every object passed validation and was made by someone who may own it.
ObjectsSound ==
  \A x \in Objects : /\ heap[x].sound
                     /\ by[x].system \/ by[x].tenant \in {heap[x].owner, Global}

\* A registration and a parse were let in by the tenant boundary.
MayCall(r) ==
  /\ r.kind = "register" => MayRegister(r.caller, r.definition)
  /\ r.kind = "parse" => r.caller.system \/ r.caller.tenant = r.event.tenant

\* Every request that runs was let in.
MayOK(t) == MayCall(req[t])

\* Kept leaves exactly the elements that are in S, and no more of them.
LEMMA KeptFacts ==
  ASSUME NEW A, NEW s \in Seq(A), NEW S
  PROVE  /\ Kept(s, S) \in Seq(A \cap S)
         /\ Range(Kept(s, S)) = Range(s) \cap S
         /\ Len(Kept(s, S)) <= Len(s)
<1> DEFINE g == [k \in DOMAIN s |-> IF s[k] \in S THEN <<s[k]>> ELSE <<>>]
<1>1. DOMAIN s = 1..Len(s) /\ Len(s) \in Nat /\ \A k \in DOMAIN s : s[k] \in A
  OBVIOUS
<1>2. \A k \in DOMAIN s : g[k] \in Seq(A \cap S)
  <2> SUFFICES ASSUME NEW k \in DOMAIN s PROVE g[k] \in Seq(A \cap S)
    OBVIOUS
  <2>1. CASE s[k] \in S
    <3>1. g[k] = <<s[k]>> /\ s[k] \in A \cap S
      BY <1>1, <2>1
    <3> QED BY <3>1
  <2>2. CASE s[k] \notin S
    BY <2>2
  <2> QED BY <2>1, <2>2
<1>3. g \in Seq(Seq(A \cap S)) /\ Len(g) = Len(s) /\ DOMAIN g = DOMAIN s
  <2>1. g \in [1..Len(s) -> Seq(A \cap S)]
    BY <1>1, <1>2
  <2> HIDE DEF g
  <2>2. g \in Seq(Seq(A \cap S))
    BY <1>1, <2>1, SeqDef
  <2>3. DOMAIN g = 1..Len(g) /\ Len(g) \in Nat /\ DOMAIN g = 1..Len(s)
    BY <2>1, <2>2
  <2>4. Len(g) = Len(s)
    <3> DEFINE m == Len(g)  n == Len(s)
    <3>1. m \in Nat /\ n \in Nat /\ 1..m = 1..n
      BY <1>1, <2>3
    <3> HIDE DEF m, n
    <3>2. m = n
      BY <3>1
    <3> QED BY <3>2 DEF m, n
  <2> QED BY <1>1, <2>2, <2>3, <2>4
<1>4. \A k \in DOMAIN g : Len(g[k]) <= 1
  OBVIOUS
<1>5. /\ \A k \in DOMAIN g : \A j \in DOMAIN g[k] : g[k][j] = s[k] /\ s[k] \in S
      /\ \A k \in DOMAIN g : s[k] \in S => 1 \in DOMAIN g[k] /\ g[k][1] = s[k]
  BY <1>1
<1>6. Kept(s, S) = FlattenSeq(g)
  BY DEF Kept
<1> HIDE DEF g
<1> DEFINE c == FlattenSeq(g)
<1>7. /\ c \in Seq(A \cap S)
      /\ \A k \in DOMAIN c : \E n \in DOMAIN g : \E j \in DOMAIN g[n] : c[k] = g[n][j]
      /\ \A n \in DOMAIN g : \A j \in DOMAIN g[n] : \E k \in DOMAIN c : c[k] = g[n][j]
      /\ (\A n \in DOMAIN g : Len(g[n]) <= 1) => Len(c) <= Len(g)
  BY <1>3, FlattenFacts
<1> HIDE DEF c
<1>8. Range(c) = Range(s) \cap S
  BY <1>3, <1>5, <1>7 DEF Range
<1>9. Len(c) <= Len(s)
  BY <1>3, <1>4, <1>7
<1> QED BY <1>6, <1>7, <1>8, <1>9 DEF c

\* A version list has a newest element.
LEMMA NewestFacts ==
  ASSUME NEW N \in Nat, NEW S, S \subseteq 1..N, S # {}
  PROVE  Newest(S) \in S /\ \A w \in S : w <= Newest(S)
<1> DEFINE U == {N - v : v \in S}
<1>1. U \subseteq Nat /\ U # {}
  <2>1. \A v \in S : v \in Nat /\ N - v \in Nat
    OBVIOUS
  <2> QED BY <2>1
<1>2. PICK u \in U : \A w \in U : u <= w
  <2> HIDE DEF U
  <2> QED BY <1>1, LeastOf
<1>3. PICK v \in S : u = N - v
  OBVIOUS
<1>4. \A w \in S : w <= v
  <2> SUFFICES ASSUME NEW w \in S PROVE w <= v
    OBVIOUS
  <2>1. N - v <= N - w
    BY <1>2, <1>3
  <2>2. v \in Int /\ w \in Int
    OBVIOUS
  <2> QED BY <2>1, <2>2
<1> QED BY <1>4 DEF Newest

\* get's choice among an owner's versions of an id it holds.
LEMMA HighestFacts ==
  ASSUME ParserTypeOK, NEW o \in Owners, NEW i \in Ids, Holds(o, i)
  PROVE  /\ HighestActive(o, i) \in Objects
         /\ \E v \in Versions : HighestActive(o, i) = slot[o][i][v]
         /\ HighestActive(o, i) \in active =>
              \E v \in Live(o, i) : HighestActive(o, i) = slot[o][i][v]
         /\ \A v \in Live(o, i) : (\A w \in Live(o, i) : w <= v) =>
              HighestActive(o, i) = slot[o][i][v]
<1> DEFINE held == {v \in Versions : slot[o][i][v] # 0}
           live == {v \in held : slot[o][i][v] \in active}
           S == IF live # {} THEN live ELSE held
<1>0. MaxVersion \in Nat /\ Versions = 1..MaxVersion
  BY ParserAssumption DEF Versions
<1>1. /\ \A v \in Versions : slot[o][i][v] \in 0..Len(heap)
      /\ Len(heap) \in Nat /\ active \subseteq 1..Len(heap)
  BY DEF ParserTypeOK, RequestTypes, StoreTypes, Objects
<1>2. live = Live(o, i)
  BY <1>1 DEF Live
<1>3. S # {} /\ S \subseteq held /\ S \subseteq 1..MaxVersion
  BY <1>0 DEF Holds
<1>4. Newest(S) \in S /\ \A w \in S : w <= Newest(S)
  <2> HIDE DEF S
  <2> QED BY <1>0, <1>3, NewestFacts
<1>5. HighestActive(o, i) = slot[o][i][Newest(S)]
  BY DEF HighestActive
<1>6. HighestActive(o, i) \in Objects /\ Newest(S) \in Versions
  <2>1. Newest(S) \in held
    BY <1>3, <1>4
  <2> HIDE DEF S
  <2>2. Newest(S) \in Versions /\ slot[o][i][Newest(S)] # 0
    BY <2>1
  <2>3. slot[o][i][Newest(S)] \in 0..Len(heap)
    BY <1>1, <2>2
  <2>4. slot[o][i][Newest(S)] \in 1..Len(heap)
    BY <1>1, <2>2, <2>3
  <2> QED BY <1>5, <2>2, <2>4 DEF Objects
<1>7. HighestActive(o, i) \in active => Newest(S) \in Live(o, i)
  BY <1>2, <1>3, <1>4, <1>5
<1>8. ASSUME NEW v \in Live(o, i), \A w \in Live(o, i) : w <= v
      PROVE  v = Newest(S)
  <2>1. S = Live(o, i)
    BY <1>2
  <2>2. v \in Nat /\ Newest(S) \in Nat
    BY <1>0, <1>3, <1>4, <2>1
  <2>3. v <= Newest(S) /\ Newest(S) <= v
    BY <1>4, <1>8, <2>1
  <2> HIDE DEF S
  <2> QED BY <2>2, <2>3
<1> QED BY <1>5, <1>6, <1>7, <1>8

\* The sort keeps the elements and orders them by priority.
LEMMA PriorityFacts ==
  ASSUME ParserTypeOK, NEW s \in Seq(Objects)
  PROVE  /\ ByPriority(s) \in Seq(Objects)
         /\ Range(ByPriority(s)) = Range(s)
         /\ \A i, j \in DOMAIN ByPriority(s) :
              i <= j => heap[ByPriority(s)[i]].priority <= heap[ByPriority(s)[j]].priority
<1> DEFINE P(p) == {x \in Objects : heap[x].priority = p}
           g == [p \in 1..MaxPriority |-> Kept(s, P(p))]
           K == [x \in Objects |-> heap[x].priority]
           c == ByPriority(s)
<1>0. MaxPriority \in Nat
  BY ParserAssumption
<1>1. \A x \in Objects : heap[x].priority \in 1..MaxPriority
  <2>1. \A x \in Objects : heap[x] \in Definitions
    BY DEF ParserTypeOK, StoreTypes, Objects
  <2> QED BY <2>1, ParserAssumption
<1>2. \A p \in 1..MaxPriority : /\ g[p] \in Seq(Objects)
                                /\ Range(g[p]) = Range(s) \cap P(p)
  <2> SUFFICES ASSUME NEW p \in 1..MaxPriority
               PROVE  Kept(s, P(p)) \in Seq(Objects) /\ Range(Kept(s, P(p))) = Range(s) \cap P(p)
    OBVIOUS
  <2>1. Kept(s, P(p)) \in Seq(Objects \cap P(p)) /\ Range(Kept(s, P(p))) = Range(s) \cap P(p)
    <3> HIDE DEF P
    <3> QED BY KeptFacts
  <2>2. Objects \cap P(p) \subseteq Objects
    OBVIOUS
  <2> QED BY <2>1, <2>2
<1>3. g \in Seq(Seq(Objects)) /\ DOMAIN g = 1..MaxPriority
  <2>1. g \in [1..MaxPriority -> Seq(Objects)] /\ DOMAIN g = 1..MaxPriority
    BY <1>2
  <2> HIDE DEF g
  <2> QED BY <1>0, <2>1, SeqDef
<1>4. c = FlattenSeq(g)
  BY DEF ByPriority
<1>5. \A n \in DOMAIN g : \A j \in DOMAIN g[n] :
        g[n][j] \in Range(s) /\ g[n][j] \in Objects /\ K[g[n][j]] = n
  <2> SUFFICES ASSUME NEW n \in 1..MaxPriority, NEW j \in DOMAIN g[n]
               PROVE  g[n][j] \in Range(s) /\ g[n][j] \in Objects /\ K[g[n][j]] = n
    BY <1>3
  <2>1. g[n][j] \in Range(g[n])
    BY DEF Range
  <2>2. g[n][j] \in Range(s) \cap P(n)
    BY <1>2, <2>1
  <2> QED BY <2>2
<1>6. \A x \in Range(s) : \E n \in DOMAIN g : \E j \in DOMAIN g[n] : g[n][j] = x
  <2> SUFFICES ASSUME NEW x \in Range(s)
               PROVE  \E n \in DOMAIN g : \E j \in DOMAIN g[n] : g[n][j] = x
    OBVIOUS
  <2>1. x \in Objects
    BY DEF Range
  <2>2. x \in Range(g[heap[x].priority]) /\ heap[x].priority \in DOMAIN g
    BY <1>1, <1>2, <1>3, <2>1
  <2> QED BY <2>2 DEF Range
<1> HIDE DEF g, K, c
<1>7. /\ c \in Seq(Objects)
      /\ \A k \in DOMAIN c : \E n \in DOMAIN g : \E j \in DOMAIN g[n] : c[k] = g[n][j]
      /\ \A n \in DOMAIN g : \A j \in DOMAIN g[n] : \E k \in DOMAIN c : c[k] = g[n][j]
      /\ \A i, j \in DOMAIN c : i <= j => K[c[i]] <= K[c[j]]
  <2> HIDE DEF P
  <2> DEFINE h == FlattenSeq(g)
  <2>1. /\ h \in Seq(Objects)
        /\ \A k \in DOMAIN h : \E n \in DOMAIN g : \E j \in DOMAIN g[n] : h[k] = g[n][j]
        /\ \A n \in DOMAIN g : \A j \in DOMAIN g[n] : \E k \in DOMAIN h : h[k] = g[n][j]
    BY <1>3, FlattenFacts
  <2>2. \A i, j \in DOMAIN h : i <= j => K[h[i]] <= K[h[j]]
    BY <1>3, <1>5, FlattenFacts
  <2> HIDE DEF h
  <2>3. h = c
    BY <1>4 DEF h
  <2> QED BY <2>1, <2>2, <2>3
<1>8. Range(c) = Range(s)
  <2>1. ASSUME NEW x \in Range(c) PROVE x \in Range(s)
    <3>1. PICK k \in DOMAIN c : x = c[k]
      BY DEF Range
    <3> QED BY <3>1, <1>5, <1>7
  <2>2. ASSUME NEW x \in Range(s) PROVE x \in Range(c)
    <3>1. PICK n \in DOMAIN g : \E j \in DOMAIN g[n] : g[n][j] = x
      BY <1>6
    <3>2. \E k \in DOMAIN c : c[k] = x
      BY <3>1, <1>7
    <3> QED BY <3>2 DEF Range
  <2> QED BY <2>1, <2>2
<1>9. \A i, j \in DOMAIN c : i <= j => heap[c[i]].priority <= heap[c[j]].priority
  <2> SUFFICES ASSUME NEW i \in DOMAIN c, NEW j \in DOMAIN c, i <= j
               PROVE  heap[c[i]].priority <= heap[c[j]].priority
    OBVIOUS
  <2>1. K[c[i]] <= K[c[j]]
    BY <1>5, <1>7
  <2>2. c[i] \in Objects /\ c[j] \in Objects
    BY <1>7
  <2> QED BY <2>1, <2>2 DEF K
<1> QED BY <1>7, <1>8, <1>9 DEF c

\* What is known of a request from its kind.
LEMMA RequestFacts ==
  ASSUME NEW r \in Requests
  PROVE  /\ r.kind \in {"none", "parse", "replay", "register", "list", "get",
                        "enable", "disable"}
         /\ r.kind # "none" => r.caller \in Callers
         /\ r.kind \in {"parse", "replay"} => r.event \in Envelopes
         /\ r.kind = "register" => r.definition \in Definitions
         /\ r.kind = "none" => r = NoRequest
<1>1. CASE r = NoRequest
  BY <1>1 DEF NoRequest
<1>2. CASE r \in [kind : {"parse", "replay"}, caller : Callers, event : Envelopes]
  BY <1>2
<1>3. CASE r \in [kind : {"register"}, caller : Callers, definition : Definitions]
  BY <1>3
<1>4. CASE r \in [kind : {"list", "get", "enable", "disable"}, caller : Callers]
  BY <1>4
<1> QED BY <1>1, <1>2, <1>3, <1>4 DEF Requests

\* Get finds a stored object of the tenant or of the baseline.
LEMMA GetFacts ==
  ASSUME ParserTypeOK, NEW i \in Ids, NEW v \in 0..MaxVersion, NEW tenant \in Owners
  PROVE  /\ Get(i, v, tenant) \in 0..Len(heap)
         /\ Get(i, v, tenant) # 0 =>
              \E o \in {tenant, Global} : \E w \in Versions :
                Get(i, v, tenant) = slot[o][i][w]
<1>0. Global \in Owners /\ Len(heap) \in Nat
  BY DEF Owners, ParserTypeOK, RequestTypes, StoreTypes
<1>1. ASSUME NEW o \in {tenant, Global}, Holds(o, i), NEW g,
             g = IF v = 0 THEN HighestActive(o, i) ELSE slot[o][i][v]
      PROVE  g \in 0..Len(heap) /\ \E w \in Versions : g = slot[o][i][w]
  <2>1. CASE v = 0
    <3>1. /\ HighestActive(o, i) \in Objects
          /\ \E w \in Versions : HighestActive(o, i) = slot[o][i][w]
      BY <1>0, <1>1, HighestFacts
    <3>2. g = HighestActive(o, i) /\ Objects \subseteq 0..Len(heap)
      BY <1>0, <1>1, <2>1 DEF Objects
    <3> QED BY <3>1, <3>2
  <2>2. CASE v # 0
    <3>1. v \in Versions
      BY <2>2, ParserAssumption DEF Versions
    <3>2. slot[o][i][v] \in 0..Len(heap)
      BY <1>0, <3>1 DEF ParserTypeOK, RequestTypes, StoreTypes
    <3> QED BY <1>1, <2>2, <3>1, <3>2
  <2> QED BY <2>1, <2>2
<1> DEFINE G == Get(i, v, tenant)
<1>2. CASE Holds(tenant, i)
  <2>1. G = IF v = 0 THEN HighestActive(tenant, i) ELSE slot[tenant][i][v]
    BY <1>2 DEF Get
  <2> HIDE DEF G
  <2>2. G \in 0..Len(heap) /\ \E w \in Versions : G = slot[tenant][i][w]
    BY <1>1, <1>2, <2>1
  <2> QED BY <2>2 DEF G
<1>3. CASE ~Holds(tenant, i) /\ Holds(Global, i)
  <2>1. G = IF v = 0 THEN HighestActive(Global, i) ELSE slot[Global][i][v]
    BY <1>3 DEF Get
  <2> HIDE DEF G
  <2>2. G \in 0..Len(heap) /\ \E w \in Versions : G = slot[Global][i][w]
    BY <1>1, <1>3, <2>1
  <2> QED BY <2>2 DEF G
<1>4. CASE ~Holds(tenant, i) /\ ~Holds(Global, i)
  BY <1>0, <1>4 DEF Get
<1> QED BY <1>2, <1>3, <1>4

\* s is in the order of the priorities.
InPriority(s) ==
  \A i, j \in DOMAIN s : i <= j => heap[s[i]].priority <= heap[s[j]].priority

\* One more element at the end.
LEMMA AppendRange ==
  ASSUME NEW A, NEW a \in Seq(A), NEW x \in A
  PROVE  /\ Append(a, x) \in Seq(A) /\ Range(Append(a, x)) = Range(a) \cup {x}
<1>1. /\ Append(a, x) \in Seq(A) /\ Len(a) \in Nat /\ DOMAIN a = 1..Len(a)
      /\ DOMAIN Append(a, x) = 1..Len(a) + 1
      /\ Append(a, x)[Len(a) + 1] = x
      /\ \A k \in 1..Len(a) : Append(a, x)[k] = a[k]
  OBVIOUS
<1>2. 1..Len(a) + 1 = (1..Len(a)) \cup {Len(a) + 1}
  BY <1>1
<1> QED BY <1>1, <1>2 DEF Range

\* The dictionaries of a request, by its kind and the step of find_parser.
LEMMA DictionariesFacts ==
  ASSUME NEW r \in Requests, r.kind # "none", NEW s
  PROVE  /\ Dictionaries(s, r) \in Seq(Owners) /\ Len(Dictionaries(s, r)) \in 0..2
         /\ r.kind # "parse" => Dictionaries(s, r) # <<>>
         /\ r.kind = "parse" /\ s \in 1..3 => LET o == r.event.tenant IN
              \/ s = 1 /\ o # Global /\ Dictionaries(s, r) = <<o>>
              \/ s = 1 /\ o = Global /\ Dictionaries(s, r) = <<>>
              \/ s = 2 /\ Class(r.event).vendor = "Unknown" /\ Dictionaries(s, r) = <<>>
              \/ s = 2 /\ Dictionaries(s, r) = <<Global>>
              \/ s = 3 /\ o # Global /\ Dictionaries(s, r) = <<o, Global>>
              \/ s = 3 /\ o = Global /\ Dictionaries(s, r) = <<Global>>
<1> DEFINE tenant == IF r.kind = "parse" THEN r.event.tenant ELSE r.caller.tenant
           own == IF tenant = Global THEN <<>> ELSE <<tenant>>
           D == Dictionaries(s, r)
<1>1. tenant \in Owners /\ Global \in Owners
  <2>1. r.caller \in Callers /\ (r.kind = "parse" => r.event \in Envelopes)
    BY RequestFacts
  <2> QED BY <2>1, ParserAssumption DEF Owners
<1>2. /\ tenant = Global => own = <<>> /\ own \o <<Global>> = <<Global>>
      /\ tenant # Global => own = <<tenant>> /\ own \o <<Global>> = <<tenant, Global>>
  <2> DEFINE g == <<Global>>
             q == tenant
  <2>1. g \in Seq(Owners) /\ q \in Owners /\ <<q>> \in Seq(Owners)
    BY <1>1
  <2>2. <<>> \o g = g
    <3> HIDE DEF g
    <3> QED BY <2>1, ConcatEmptySeq
  <2>3. <<q>> \o <<Global>> = Append(<<q>>, Global)
    <3> HIDE DEF q
    <3> QED BY <1>1, <2>1, AppendIsConcat
  <2>4. Append(<<q>>, Global) = <<q, Global>>
    <3> HIDE DEF q
    <3> DEFINE a == Append(<<q>>, Global)
               b == <<q, Global>>
    <3>1. /\ a \in Seq(Owners) /\ Len(a) = 2 /\ a[1] = q /\ a[2] = Global
          /\ b \in Seq(Owners) /\ Len(b) = 2 /\ b[1] = q /\ b[2] = Global
      BY <1>1, <2>1
    <3> HIDE DEF a, b
    <3>2. \A k \in 1..Len(a) : a[k] = b[k]
      BY <3>1
    <3>3. a = b
      BY <3>1, <3>2, SeqEqual
    <3> QED BY <3>3 DEF a, b
  <2> QED BY <2>2, <2>3, <2>4
<1>3. D = IF r.kind = "parse" /\ s = 1 THEN own
          ELSE IF r.kind = "parse" /\ s = 2 /\ Class(r.event).vendor = "Unknown"
          THEN <<>>
          ELSE IF r.kind = "list" \/ (r.kind = "parse" /\ s = 3)
          THEN own \o <<Global>> ELSE <<Global>>
  BY DEF Dictionaries
<1> HIDE DEF own, D
<1>4. D \in {<<>>, <<tenant>>, <<Global>>, <<tenant, Global>>}
  BY <1>2, <1>3
<1>5. D \in Seq(Owners) /\ Len(D) \in 0..2
  <2> HIDE DEF tenant
  <2>1. /\ <<>> \in Seq(Owners) /\ <<tenant>> \in Seq(Owners) /\ <<Global>> \in Seq(Owners)
        /\ <<tenant, Global>> \in Seq(Owners)
    BY <1>1
  <2>2. /\ Len(<<>>) = 0 /\ Len(<<tenant>>) = 1 /\ Len(<<Global>>) = 1
        /\ Len(<<tenant, Global>>) = 2
    OBVIOUS
  <2>3. D \in Seq(Owners)
    BY <1>4, <2>1
  <2>4. Len(D) = 0 \/ Len(D) = 1 \/ Len(D) = 2
    BY <1>4, <2>2
  <2> QED BY <2>3, <2>4
<1>6. r.kind # "parse" => D # <<>>
  BY <1>2, <1>3
<1>7. ASSUME r.kind = "parse", s \in 1..3
      PROVE  LET o == r.event.tenant IN
              \/ s = 1 /\ o # Global /\ D = <<o>>
              \/ s = 1 /\ o = Global /\ D = <<>>
              \/ s = 2 /\ Class(r.event).vendor = "Unknown" /\ D = <<>>
              \/ s = 2 /\ D = <<Global>>
              \/ s = 3 /\ o # Global /\ D = <<o, Global>>
              \/ s = 3 /\ o = Global /\ D = <<Global>>
  <2>1. CASE s = 1
    BY <1>2, <1>3, <1>7, <2>1
  <2>2. CASE s = 2
    <3>1. D = IF Class(r.event).vendor = "Unknown" THEN <<>> ELSE <<Global>>
      BY <1>3, <1>7, <2>2
    <3> QED BY <2>2, <3>1
  <2>3. CASE s = 3
    <3>1. D = own \o <<Global>>
      BY <1>3, <1>7, <2>3
    <3> QED BY <1>2, <1>7, <2>3, <3>1
  <2> QED BY <1>7, <2>1, <2>2, <2>3
<1> QED BY <1>5, <1>6, <1>7 DEF D

\* What list_for_tenant reads for an id is a definition of that id, the owner's
\* or the baseline's.
LEMMA ReadFacts ==
  ASSUME ParserTypeOK, StoreSound, NEW o \in Owners, NEW i \in Ids,
         NEW x, x = Get(i, 0, o), x \in active
  PROVE  x \in Objects /\ heap[x].id = i /\ heap[x].owner \in {o, Global}
<1>1. x \in Objects /\ x # 0
  BY DEF ParserTypeOK, StoreTypes, Objects
<1>2. 0 \in 0..MaxVersion /\ Global \in Owners
  BY ParserAssumption DEF Owners
<1>3. PICK p \in {o, Global} : \E w \in Versions : x = slot[p][i][w]
  BY <1>1, <1>2, GetFacts
<1>4. PICK w \in Versions : x = slot[p][i][w]
  BY <1>3
<1> QED BY <1>1, <1>2, <1>3, <1>4 DEF StoreSound

\* A parser that is eligible is what is read for its id in its owner's
\* dictionary; in the tenant's nothing else is read for it at step 3.
LEMMA EligibleRead ==
  ASSUME ParserTypeOK, StoreSound, NEW s \in 1..3, NEW e \in Envelopes,
         NEW x \in active, EligibleAt(s, x, e)
  PROVE  /\ heap[x].owner \in Owners /\ heap[x].id \in Ids
         /\ Get(heap[x].id, 0, heap[x].owner) = x
         /\ heap[x].id \in Range(order[heap[x].owner])
         /\ s = 3 /\ heap[x].owner # e.tenant
              /\ Get(heap[x].id, 0, e.tenant) \in active =>
                   Get(heap[x].id, 0, e.tenant) = x
<1> DEFINE d == heap[x]
<1>0. x \in Objects /\ x # 0 /\ d \in Definitions
  BY DEF ParserTypeOK, StoreTypes, Objects
<1>1. d.owner \in Owners /\ d.id \in Ids /\ d.version \in Versions
      /\ e.tenant \in Owners /\ Global \in Owners
  BY <1>0, ParserAssumption DEF Owners
<1>2. /\ slot[d.owner][d.id][d.version] = x
      /\ \A v \in Live(d.owner, d.id) : v <= d.version
  BY DEF EligibleAt
<1>3. Holds(d.owner, d.id) /\ d.version \in Live(d.owner, d.id)
  BY <1>0, <1>1, <1>2 DEF Holds, Live
<1>4. HighestActive(d.owner, d.id) = x
  BY <1>1, <1>2, <1>3, HighestFacts
<1>5. Get(d.id, 0, d.owner) = x
  BY <1>3, <1>4 DEF Get
<1>6. d.id \in Range(order[d.owner])
  BY <1>0, <1>1, <1>2 DEF StoreSound, Range
<1>7. ASSUME s = 3, d.owner # e.tenant, Get(d.id, 0, e.tenant) \in active
      PROVE  Get(d.id, 0, e.tenant) = x
  <2>1. d.owner = Global /\ Live(e.tenant, d.id) = {}
    BY <1>7 DEF EligibleAt
  <2>2. CASE Holds(e.tenant, d.id)
    <3>1. Get(d.id, 0, e.tenant) = HighestActive(e.tenant, d.id)
      BY <2>2 DEF Get
    <3>2. \E v \in Live(e.tenant, d.id) : TRUE
      BY <1>1, <1>7, <2>2, <3>1, HighestFacts
    <3> QED BY <2>1, <3>2
  <2>3. CASE ~Holds(e.tenant, d.id)
    BY <1>3, <1>4, <2>1, <2>3 DEF Get
  <2> QED BY <2>2, <2>3
<1> QED BY <1>1, <1>5, <1>6, <1>7
-----------------------------------------------------------------------------
(* M2: types and places. *)

\* Every request is where it can be.
Places == \A t \in Threads : PlaceOK(t)

\* The first invariant: types, and where a request of each kind can be.
PlaceInv == ParserTypeOK /\ Places

\* What a step of a request keeps, the observation left out.
StepKeeps == StoreTypes' /\ RequestTypes' /\ Places'

\* The type invariant in its parts.
LEMMA TypesSplit ==
  ParserTypeOK <=> /\ StoreTypes /\ RequestTypes
                   /\ steady \in [Threads -> SUBSET ((1..3) \X Objects)]
BY DEF ParserTypeOK, StoreTypes, RequestTypes

\* The requests that do not take the step.
Same(u) == /\ pc'[u] = pc[u] /\ req'[u] = req[u] /\ stage'[u] = stage[u]
           /\ walk'[u] = walk[u] /\ todo'[u] = todo[u] /\ chosen'[u] = chosen[u]
           /\ result'[u] = result[u]

\* What a request lists depends on itself alone.
LEMMA DictStays ==
  ASSUME NEW u, stage'[u] = stage[u], req'[u] = req[u]
  PROVE  Dict(u)' = Dict(u)
BY DEF Dict, Dictionaries, Class

\* A request that does not take the step stays where it can be.
LEMMA SamePlace ==
  ASSUME NEW u, PlaceOK(u), Same(u)
  PROVE  PlaceOK(u)'
<1>1. Dict(u)' = Dict(u)
  BY DictStays DEF Same
<1> QED BY <1>1 DEF PlaceOK, Same, Parsed, Waiting, Saving, Changes, BuiltIn

\* A step that at most changes which objects are active leaves the store typed.
LEMMA StoreStays ==
  ASSUME StoreTypes, UNCHANGED <<heap, slot, order, made, by>>,
         active' \in SUBSET Objects
  PROVE  StoreTypes' /\ Objects' = Objects
<1>1. Objects' = Objects
  BY DEF Objects
<1>2. StoreTypes'
  BY <1>1 DEF StoreTypes
<1> QED BY <1>1, <1>2

\* A request that begins.
LEMMA BeginPlace ==
  ASSUME PlaceInv, NEW t \in Threads, NEW r \in Requests,
         NEW where \in {"list", "save", "set", "parse", "done"},
         NEW obj \in 0..Len(heap), Begin(t, r, where, obj),
         NEW a \in {"none", "ok", "missing"}, result' = [result EXCEPT ![t] = a],
         where # "done" => a = "none",
         \/ where = "list" /\ r.kind \in {"parse", "list"} /\ obj = 0
         \/ where = "save" /\ r.kind = "register" /\ obj = 0
         \/ where = "set" /\ r.kind \in {"enable", "disable"}
         \/ where = "parse" /\ r.kind = "replay"
         \/ where = "done" /\ r.kind = "get"
  PROVE  StepKeeps
<1>0. StoreTypes /\ RequestTypes
  BY TypesSplit DEF PlaceInv
<1>1. UNCHANGED <<heap, slot, order, made, by, active>>
  BY DEF Begin, store
<1>2. StoreTypes' /\ Objects' = Objects
  BY <1>0, <1>1, StoreStays DEF StoreTypes
<1>3. RequestTypes'
  BY <1>0, <1>1, <1>2 DEF RequestTypes, Begin, BuiltIn
<1>4. ASSUME NEW u \in Threads PROVE PlaceOK(u)'
  <2>1. CASE u # t
    <3>1. Same(u)
      BY <1>0, <2>1 DEF RequestTypes, Begin, Same
    <3> QED BY <3>1, SamePlace DEF PlaceInv, Places
  <2>2. CASE u = t
    <3>1. /\ pc'[t] = where /\ req'[t] = r /\ chosen'[t] = obj /\ result'[t] = a
          /\ stage'[t] = IF r.kind = "parse" THEN 1 ELSE 4
      BY <1>0 DEF RequestTypes, Begin
    <3>2. obj # BuiltIn
      BY <1>0 DEF StoreTypes, BuiltIn
    <3> QED BY <2>2, <3>1, <3>2 DEF PlaceOK, Parsed, Waiting, Saving, Changes
  <2> QED BY <2>1, <2>2
<1> QED BY <1>2, <1>3, <1>4 DEF StepKeeps, Places

\* A request that has not begun has chosen and answered nothing.
LEMMA IdleFacts ==
  ASSUME PlaceInv, NEW t \in Threads, pc[t] = "idle"
  PROVE  /\ result[t] = "none" /\ result = [result EXCEPT ![t] = "none"]
         /\ chosen[t] = 0 /\ req[t] = NoRequest
<1>1. PlaceOK(t) /\ RequestTypes
  BY TypesSplit DEF PlaceInv, Places
<1>2. result[t] = "none"
  BY <1>1 DEF PlaceOK
<1>3. result = [result EXCEPT ![t] = "none"]
  BY <1>1, <1>2 DEF RequestTypes
<1> QED BY <1>1, <1>2, <1>3 DEF PlaceOK, NoRequest

\* The arrivals, one by one.
LEMMA ArrivePlace ==
  ASSUME PlaceInv, NEW t \in Threads, Arrive(t)
  PROVE  StepKeeps
<1>0. StoreTypes /\ RequestTypes /\ Places /\ Len(heap) \in Nat
  BY TypesSplit DEF PlaceInv, StoreTypes
<1>1. ASSUME NEW c \in Callers, NEW e \in Envelopes, parse_event(t, c, e) PROVE StepKeeps
  <2> DEFINE r == [kind |-> "parse", caller |-> c, event |-> e]
  <2>1. Begin(t, r, "list", 0) /\ UNCHANGED result /\ pc[t] = "idle"
    BY <1>1 DEF parse_event, Begin
  <2>2. r \in Requests /\ r.kind = "parse"
    BY DEF Requests
  <2> HIDE DEF r
  <2>3. result' = [result EXCEPT ![t] = "none"]
    BY <2>1, IdleFacts
  <2>4. 0 \in 0..Len(heap)
    BY <1>0
  <2> QED BY <2>1, <2>2, <2>3, <2>4, BeginPlace
<1>2. ASSUME NEW c \in Callers, NEW d \in Definitions, register_parser(t, c, d) PROVE StepKeeps
  <2> DEFINE r == [kind |-> "register", caller |-> c, definition |-> d]
  <2>1. Begin(t, r, "save", 0) /\ UNCHANGED result /\ pc[t] = "idle"
    BY <1>2 DEF register_parser, Begin
  <2>2. r \in Requests /\ r.kind = "register"
    BY DEF Requests
  <2> HIDE DEF r
  <2>3. result' = [result EXCEPT ![t] = "none"]
    BY <2>1, IdleFacts
  <2>4. 0 \in 0..Len(heap)
    BY <1>0
  <2> QED BY <2>1, <2>2, <2>3, <2>4, BeginPlace
<1>3. ASSUME NEW c \in Callers, NEW i \in Ids, NEW v \in 0..MaxVersion
      PROVE  Get(i, v, c.tenant) \in 0..Len(heap)
  <2>1. c.tenant \in Owners
    BY ParserAssumption
  <2> QED BY <2>1, GetFacts DEF PlaceInv
<1>4. ASSUME NEW c \in Callers, NEW i \in Ids, NEW v \in 0..MaxVersion,
             NEW k \in {"disable", "enable"}, Lifecycle(t, c, k, i, v)
      PROVE  StepKeeps
  <2> DEFINE r == [kind |-> k, caller |-> c]
             x == Get(i, v, c.tenant)
  <2>1. Begin(t, r, "set", x) /\ UNCHANGED result /\ pc[t] = "idle"
    BY <1>4 DEF Lifecycle, Begin
  <2>2. r \in Requests /\ r.kind \in {"enable", "disable"}
    BY DEF Requests
  <2>3. x \in 0..Len(heap)
    BY <1>3
  <2> HIDE DEF r, x
  <2>4. result' = [result EXCEPT ![t] = "none"]
    BY <2>1, IdleFacts
  <2> QED BY <1>0, <2>1, <2>2, <2>3, <2>4, BeginPlace
<1>5. ASSUME NEW c \in Callers, NEW i \in Ids, NEW v \in 0..MaxVersion,
             get_parser(t, c, i, v)
      PROVE  StepKeeps
  <2> DEFINE r == [kind |-> "get", caller |-> c]
             x == Get(i, v, c.tenant)
             a == IF x = 0 THEN "missing" ELSE "ok"
  <2>1. Begin(t, r, "done", x) /\ result' = [result EXCEPT ![t] = a]
    BY <1>5 DEF get_parser, Begin
  <2>2. r \in Requests /\ r.kind = "get"
    BY DEF Requests
  <2>3. x \in 0..Len(heap) /\ a \in {"none", "ok", "missing"}
    BY <1>3
  <2> HIDE DEF r, x, a
  <2> QED BY <1>0, <2>1, <2>2, <2>3, BeginPlace
<1>6. ASSUME NEW c \in Callers, NEW i \in Ids, NEW v \in 0..MaxVersion,
             NEW e \in Envelopes, replay_events(t, c, i, v, e)
      PROVE  StepKeeps
  <2> DEFINE r == [kind |-> "replay", caller |-> c, event |-> e]
             x == Get(i, v, c.tenant)
  <2>1. Begin(t, r, "parse", x) /\ UNCHANGED result /\ pc[t] = "idle"
    BY <1>6 DEF replay_events, Begin
  <2>2. r \in Requests /\ r.kind = "replay"
    BY DEF Requests
  <2>3. x \in 0..Len(heap)
    BY <1>3
  <2> HIDE DEF r, x
  <2>4. result' = [result EXCEPT ![t] = "none"]
    BY <2>1, IdleFacts
  <2> QED BY <1>0, <2>1, <2>2, <2>3, <2>4, BeginPlace
<1>7. ASSUME NEW c \in Callers, list_parsers(t, c) PROVE StepKeeps
  <2> DEFINE r == [kind |-> "list", caller |-> c]
  <2>1. Begin(t, r, "list", 0) /\ UNCHANGED result /\ pc[t] = "idle"
    BY <1>7 DEF list_parsers, Begin
  <2>2. r \in Requests /\ r.kind = "list"
    BY DEF Requests
  <2> HIDE DEF r
  <2>3. result' = [result EXCEPT ![t] = "none"]
    BY <2>1, IdleFacts
  <2>4. 0 \in 0..Len(heap)
    BY <1>0
  <2> QED BY <2>1, <2>2, <2>3, <2>4, BeginPlace
<1>8. CASE Refuse(t)
  <2>1. StoreTypes' /\ Objects' = Objects
    BY <1>0, <1>8, StoreStays DEF StoreTypes, Refuse, store
  <2>2. RequestTypes'
    BY <1>0, <1>8, <2>1 DEF RequestTypes, Refuse, Answer, store
  <2>3. ASSUME NEW u \in Threads PROVE PlaceOK(u)'
    <3>1. CASE u # t
      <4>1. Same(u)
        BY <1>0, <1>8, <3>1 DEF RequestTypes, Refuse, Answer, Same
      <4> QED BY <1>0, <4>1, SamePlace DEF Places
    <3>2. CASE u = t
      <4>1. /\ pc'[t] = "done" /\ req'[t] = NoRequest /\ chosen'[t] = 0
            /\ result'[t] = "refused"
        BY <1>0, <1>8, IdleFacts DEF RequestTypes, Refuse, Answer
      <4> QED BY <3>2, <4>1 DEF PlaceOK, NoRequest, Parsed, BuiltIn, Saving
    <3> QED BY <3>1, <3>2
  <2> QED BY <2>1, <2>2, <2>3 DEF StepKeeps, Places
<1> QED BY <1>1, <1>2, <1>4, <1>5, <1>6, <1>7, <1>8 DEF Arrive

\* Iterations over a dictionary.
Walks == [shelf : 0..2, made : Nat, size : Nat, left : Seq(Ids)]

\* A request that iterates does so over a dictionary of its own.
LEMMA WalkFacts ==
  ASSUME PlaceInv, NEW t \in Threads, pc[t] \in {"list", "iterate"}
  PROVE  /\ req[t] \in Requests /\ req[t].kind # "none" /\ walk[t] \in Walks
         /\ Dict(t) \in Seq(Owners) /\ Len(Dict(t)) \in 0..2
         /\ req[t].kind # "parse" => Dict(t) # <<>>
         /\ pc[t] = "iterate" => /\ walk[t].shelf \in 1..Len(Dict(t))
                                 /\ Shelf(t) = Dict(t)[walk[t].shelf]
                                 /\ Shelf(t) \in Owners
<1>1. RequestTypes /\ PlaceOK(t)
  BY TypesSplit DEF PlaceInv, Places
<1>2. req[t] \in Requests /\ req[t].kind # "none" /\ walk[t] \in Walks
  BY <1>1 DEF RequestTypes, PlaceOK, Walks
<1>3. /\ Dict(t) \in Seq(Owners) /\ Len(Dict(t)) \in 0..2
      /\ req[t].kind # "parse" => Dict(t) # <<>>
  BY <1>2, DictionariesFacts DEF Dict
<1>4. ASSUME pc[t] = "iterate"
      PROVE  /\ walk[t].shelf \in 1..Len(Dict(t)) /\ Shelf(t) = Dict(t)[walk[t].shelf]
             /\ Shelf(t) \in Owners
  <2>1. walk[t].shelf \in 1..Len(Dict(t)) /\ Shelf(t) = Dict(t)[walk[t].shelf]
    BY <1>1, <1>4 DEF PlaceOK, Shelf, Dict
  <2> QED BY <1>3, <2>1
<1> QED BY <1>2, <1>3, <1>4

\* An iteration begins.
LEMMA OpenedFacts ==
  ASSUME PlaceInv, NEW t \in Threads, pc[t] \in {"list", "iterate"},
         NEW n \in 1..Len(Dict(t)), Opened(t, n)
  PROVE  /\ walk' \in [Threads -> Walks]
         /\ walk'[t].shelf = n /\ walk'[t].left = order[Dict(t)[n]]
         /\ \A u \in Threads : u # t => walk'[u] = walk[u]
<1> DEFINE o == Dict(t)[n]
           w == [shelf |-> n, made |-> made[o], size |-> Len(order[o]), left |-> order[o]]
<1>1. o \in Owners /\ n \in 0..2
  <2>1. Dict(t) \in Seq(Owners)
    BY WalkFacts
  <2>2. PICK m \in 0..2 : m = Len(Dict(t))
    BY WalkFacts
  <2>3. n \in 0..2
    BY <2>2
  <2> QED BY <2>1, <2>3
<1>2. walk \in [Threads -> Walks] /\ walk' = [walk EXCEPT ![t] = w]
  BY DEF PlaceInv, ParserTypeOK, RequestTypes, Walks, Opened, Dict
<1>3. made[o] \in Nat /\ order[o] \in Seq(Ids)
  BY <1>1 DEF PlaceInv, ParserTypeOK, StoreTypes
<1>4. w \in Walks
  <2> HIDE DEF o
  <2>1. Len(order[o]) \in Nat
    BY <1>3
  <2> QED BY <1>1, <1>3, <2>1 DEF Walks
<1>5. w.shelf = n /\ w.left = order[o]
  OBVIOUS
<1> HIDE DEF w
<1> QED BY <1>2, <1>4, <1>5

\* One id is read.
LEMMA ListStepFacts ==
  ASSUME PlaceInv, NEW t \in Threads, ListStep(t)
  PROVE  LET i == Head(walk[t].left)
             x == Get(i, 0, Shelf(t))
             seen == walk[t].shelf = 2
                       /\ \E k \in DOMAIN todo[t] : heap[todo[t][k]].id = i
         IN  /\ i \in Ids /\ Shelf(t) \in Owners /\ walk[t].left # <<>>
             /\ walk[t].left \in Seq(Ids)
             /\ walk' \in [Threads -> Walks] /\ todo' \in [Threads -> Seq(Objects)]
             /\ walk'[t].shelf = walk[t].shelf /\ walk'[t].left = Tail(walk[t].left)
             /\ \A u \in Threads : u # t => walk'[u] = walk[u] /\ todo'[u] = todo[u]
             /\ \/ todo'[t] = todo[t] /\ (x \notin active \/ seen)
                \/ /\ x \in active /\ ~seen /\ x \in Objects
                   /\ todo'[t] = Append(todo[t], x)
<1> DEFINE i == Head(walk[t].left)
           x == Get(i, 0, Shelf(t))
           seen == walk[t].shelf = 2
                     /\ \E k \in DOMAIN todo[t] : heap[todo[t][k]].id = i
           l == walk[t].left
<1>1. Shelf(t) \in Owners /\ walk[t] \in Walks /\ pc[t] = "iterate" /\ l # <<>>
  BY WalkFacts DEF ListStep
<1>2. /\ walk \in [Threads -> Walks] /\ todo \in [Threads -> Seq(Objects)]
      /\ active \subseteq Objects
  BY DEF PlaceInv, ParserTypeOK, RequestTypes, StoreTypes, Walks
<1>3. /\ walk' = [walk EXCEPT ![t].left = Tail(@)]
      /\ todo' = [todo EXCEPT ![t] = IF x \in active /\ ~seen THEN Append(@, x) ELSE @]
  BY DEF ListStep
<1>4. l \in Seq(Ids)
  BY <1>1 DEF Walks
<1>5. i \in Ids /\ Tail(l) \in Seq(Ids)
  <2> HIDE DEF l
  <2>1. Head(l) \in Ids /\ Tail(l) \in Seq(Ids)
    BY <1>1, <1>4
  <2> QED BY <2>1 DEF l
<1> HIDE DEF x, seen, i
<1>6. /\ todo' \in [Threads -> Seq(Objects)]
      /\ \A u \in Threads : u # t => todo'[u] = todo[u]
      /\ \/ todo'[t] = todo[t] /\ (x \notin active \/ seen)
         \/ x \in active /\ ~seen /\ x \in Objects /\ todo'[t] = Append(todo[t], x)
  <2>1. CASE x \in active /\ ~seen
    <3>1. todo' = [todo EXCEPT ![t] = Append(todo[t], x)] /\ x \in Objects
      BY <1>2, <1>3, <2>1
    <3>2. Append(todo[t], x) \in Seq(Objects)
      BY <1>2, <3>1
    <3> QED BY <1>2, <2>1, <3>1, <3>2
  <2>2. CASE ~(x \in active /\ ~seen)
    BY <1>2, <1>3, <2>2
  <2> QED BY <2>1, <2>2
<1>7. /\ walk' \in [Threads -> Walks] /\ walk'[t].shelf = walk[t].shelf
      /\ walk'[t].left = Tail(l) /\ \A u \in Threads : u # t => walk'[u] = walk[u]
  <2>1. walk' = [walk EXCEPT ![t] = [walk[t] EXCEPT !.left = Tail(l)]]
    BY <1>2, <1>3
  <2> DEFINE w == [walk[t] EXCEPT !.left = Tail(l)]
  <2>2. w \in Walks /\ w.shelf = walk[t].shelf /\ w.left = Tail(l)
    BY <1>1, <1>5 DEF Walks
  <2> HIDE DEF w
  <2> QED BY <1>2, <2>1, <2>2 DEF w
<1> QED BY <1>1, <1>4, <1>5, <1>6, <1>7 DEF x, seen, i

\* The steps of list_for_tenant, with what they leave alone.
LEMMA ListKeeps ==
  ASSUME PlaceInv, NEW t \in Threads,
         \/ ListBegin(t) \/ ListStep(t) \/ ListNext(t) \/ ListEnd(t) \/ ListFails(t)
  PROVE  /\ walk' \in [Threads -> Walks] /\ todo' \in [Threads -> Seq(Objects)]
         /\ UNCHANGED <<store, req, stage, chosen>>
         /\ \A u \in Threads : u # t => walk'[u] = walk[u] /\ todo'[u] = todo[u]
<1>0. /\ walk \in [Threads -> Walks] /\ todo \in [Threads -> Seq(Objects)]
      /\ <<>> \in Seq(Objects) /\ NoWalk \in Walks
  <2>1. NoWalk \in Walks
    BY DEF NoWalk, Walks
  <2> QED BY <2>1 DEF PlaceInv, ParserTypeOK, RequestTypes, Walks
<1>1. CASE ListBegin(t)
  <2>1. /\ todo' = [todo EXCEPT ![t] = <<>>] /\ UNCHANGED <<store, req, stage, chosen>>
        /\ pc[t] = "list"
    BY <1>1 DEF ListBegin
  <2>2. CASE Dict(t) = <<>>
    <3>1. walk' = walk
      BY <1>1, <2>2 DEF ListBegin, Dict
    <3> QED BY <1>0, <2>1, <3>1
  <2>3. CASE Dict(t) # <<>>
    <3>1. Opened(t, 1)
      BY <1>1, <2>3 DEF ListBegin, Dict
    <3>2. 1 \in 1..Len(Dict(t))
      BY <2>1, <2>3, WalkFacts
    <3>3. /\ walk' \in [Threads -> Walks]
          /\ \A u \in Threads : u # t => walk'[u] = walk[u]
      BY <2>1, <3>1, <3>2, OpenedFacts
    <3> QED BY <1>0, <2>1, <3>3
  <2> QED BY <2>2, <2>3
<1>2. CASE ListStep(t)
  <2>1. UNCHANGED <<store, req, stage, chosen>>
    BY <1>2 DEF ListStep
  <2> QED BY <1>2, <2>1, ListStepFacts
<1>3. CASE ListNext(t)
  <2>1. /\ pc[t] = "iterate" /\ walk[t].shelf < Len(Dict(t)) /\ Opened(t, walk[t].shelf + 1)
        /\ UNCHANGED <<store, req, stage, chosen, todo>>
    BY <1>3 DEF ListNext, Dict
  <2>2. walk[t].shelf + 1 \in 1..Len(Dict(t))
    BY <2>1, WalkFacts
  <2>3. /\ walk' \in [Threads -> Walks]
        /\ \A u \in Threads : u # t => walk'[u] = walk[u]
    BY <2>1, <2>2, OpenedFacts
  <2> QED BY <1>0, <2>1, <2>3
<1>4. CASE ListEnd(t)
  <2>1. /\ walk' = [walk EXCEPT ![t] = NoWalk] /\ UNCHANGED <<store, req, stage, chosen>>
        /\ todo' = [todo EXCEPT ![t] = IF req[t].kind = "parse" THEN ByPriority(todo[t])
                                                               ELSE <<>>]
    BY <1>0, <1>4 DEF ListEnd, Answer
  <2>2. ByPriority(todo[t]) \in Seq(Objects)
    BY <1>0, PriorityFacts DEF PlaceInv
  <2> QED BY <1>0, <2>1, <2>2
<1>5. CASE ListFails(t)
  BY <1>0, <1>5 DEF ListFails, Answer
<1> QED BY <1>1, <1>2, <1>3, <1>4, <1>5

\* The steps that leave the store alone.
LEMMA ServePlace ==
  ASSUME PlaceInv, NEW t \in Threads,
         \/ ListBegin(t) \/ ListStep(t) \/ ListNext(t) \/ ListEnd(t) \/ ListFails(t)
         \/ Try(t) \/ NextStage(t) \/ Parse(t) \/ SaveBegin(t) \/ SaveFails(t)
  PROVE  StepKeeps
<1>0. StoreTypes /\ RequestTypes /\ Places /\ Len(heap) \in Nat /\ PlaceOK(t)
  BY TypesSplit DEF PlaceInv, StoreTypes, Places
<1>1. UNCHANGED store
  BY DEF ListBegin, ListStep, ListNext, ListEnd, ListFails, Try, NextStage, Parse,
         SaveBegin, SaveFails
<1>2. StoreTypes' /\ Objects' = Objects /\ heap' = heap
  BY <1>0, <1>1, StoreStays DEF StoreTypes, store
<1>r. req[t] \in Requests /\ req' = req
  BY <1>0 DEF RequestTypes, ListBegin, ListStep, ListNext, ListEnd, ListFails, Try,
              NextStage, Parse, SaveBegin, SaveFails
<1>3. RequestTypes'
  <2>1. CASE \/ ListBegin(t) \/ ListStep(t) \/ ListNext(t) \/ ListEnd(t) \/ ListFails(t)
    <3>1. /\ walk' \in [Threads -> Walks] /\ todo' \in [Threads -> Seq(Objects)]
          /\ UNCHANGED <<req, stage, chosen>>
      BY <2>1, ListKeeps
    <3>2. \/ pc' = pc
          \/ \E a \in {"iterate", "try", "done"} : pc' = [pc EXCEPT ![t] = a]
      BY <2>1 DEF ListBegin, ListStep, ListNext, ListEnd, ListFails, Answer
    <3>3. \/ result' = result
          \/ \E a \in {"ok", "error"} : result' = [result EXCEPT ![t] = a]
      BY <2>1 DEF ListBegin, ListStep, ListNext, ListEnd, ListFails, Answer
    <3> QED BY <1>0, <1>2, <3>1, <3>2, <3>3 DEF RequestTypes, Walks
  <2>4. CASE Try(t)
    <3>1. todo[t] \in Seq(Objects) /\ todo[t] # <<>>
      BY <1>0, <2>4 DEF RequestTypes, Try
    <3>2. Head(todo[t]) \in Objects /\ Tail(todo[t]) \in Seq(Objects) /\ <<>> \in Seq(Objects)
      BY <3>1
    <3>3. Head(todo[t]) \in 0..Len(heap)
      BY <1>0, <3>2 DEF Objects
    <3>4. /\ \E q \in Seq(Objects) : todo' = [todo EXCEPT ![t] = q]
          /\ chosen' = chosen \/ \E n \in 0..Len(heap) : chosen' = [chosen EXCEPT ![t] = n]
          /\ pc' = pc \/ pc' = [pc EXCEPT ![t] = "parse"]
          /\ UNCHANGED <<req, stage, walk, result>>
      BY <2>4, <3>2, <3>3 DEF Try
    <3>5. todo' \in [Threads -> Seq(Objects)]
      BY <1>0, <3>4 DEF RequestTypes
    <3>6. chosen' \in [Threads -> {BuiltIn} \cup 0..Len(heap)]
      BY <1>0, <3>4 DEF RequestTypes
    <3>7. pc' = pc \/ pc' = [pc EXCEPT ![t] = "parse"]
      BY <3>4
    <3>8. UNCHANGED <<req, stage, walk, result>>
      BY <3>4
    <3> QED BY <1>0, <1>2, <3>5, <3>6, <3>7, <3>8 DEF RequestTypes
  <2>5. CASE NextStage(t)
    <3>0. stage[t] \in 0..4
      BY <1>0 DEF RequestTypes
    <3>1. stage[t] < 3 => stage[t] + 1 \in 0..4
      BY <3>0
    <3>2. stage' \in [Threads -> 0..4]
      BY <1>0, <2>5, <3>1 DEF RequestTypes, NextStage
    <3>3. /\ \E a \in {"list", "parse", "done"} : pc' = [pc EXCEPT ![t] = a]
          /\ chosen' = chosen \/ chosen' = [chosen EXCEPT ![t] = BuiltIn]
          /\ result' = result \/ result' = [result EXCEPT ![t] = "UNPARSED"]
          /\ UNCHANGED <<req, walk, todo>>
      BY <2>5 DEF NextStage, Answer
    <3> QED BY <1>0, <1>2, <3>2, <3>3 DEF RequestTypes
  <2>6. CASE Parse(t)
    BY <1>0, <1>2, <2>6 DEF RequestTypes, Parse, Answer
  <2>7. CASE SaveBegin(t)
    BY <1>0, <1>2, <2>7 DEF RequestTypes, SaveBegin, Lacks
  <2>8. CASE SaveFails(t)
    BY <1>0, <1>2, <2>8 DEF RequestTypes, SaveFails, Answer
  <2> QED BY <2>1, <2>4, <2>5, <2>6, <2>7, <2>8
<1>4. ASSUME NEW u \in Threads, u # t PROVE PlaceOK(u)'
  <2>1. Same(u)
    <3>1. CASE \/ ListBegin(t) \/ ListStep(t) \/ ListNext(t) \/ ListEnd(t) \/ ListFails(t)
      <4>1. walk'[u] = walk[u] /\ todo'[u] = todo[u]
        BY <1>4, <3>1, ListKeeps
      <4>2. pc'[u] = pc[u] /\ stage'[u] = stage[u] /\ chosen'[u] = chosen[u]
            /\ result'[u] = result[u]
        BY <1>0, <1>4, <3>1 DEF RequestTypes, ListBegin, ListStep, ListNext, ListEnd,
                                ListFails, Answer
      <4> QED BY <1>r, <4>1, <4>2 DEF Same
    <3>2. CASE Try(t) \/ NextStage(t) \/ Parse(t) \/ SaveBegin(t) \/ SaveFails(t)
      BY <1>0, <1>4, <3>2 DEF RequestTypes, Same, Try, NextStage, Parse, SaveBegin,
                              SaveFails, Answer
    <3> QED BY <3>1, <3>2
  <2> QED BY <1>0, <2>1, SamePlace DEF Places
<1>5. PlaceOK(t)'
  <2>d. stage'[t] = stage[t] => Dict(t)' = Dict(t)
    BY <1>r, DictStays
  <2>w. pc[t] \in {"list", "iterate"} =>
          /\ Len(Dict(t)) \in 0..2 /\ (req[t].kind # "parse" => Dict(t) # <<>>)
          /\ Dict(t) \in Seq(Owners)
          /\ pc[t] = "iterate" => walk[t].shelf \in 1..Len(Dict(t))
    BY WalkFacts
  <2> USE <1>0 DEF PlaceOK, Parsed, Waiting, Saving, Changes, BuiltIn
  <2>1. CASE ListBegin(t)
    <3>1. /\ pc[t] = "list" /\ UNCHANGED <<req, stage, chosen, result>>
          /\ pc'[t] \in {"try", "iterate"} /\ (pc'[t] = "try" => Dict(t) = <<>>)
      BY <2>1 DEF RequestTypes, ListBegin, Dict
    <3>2. pc'[t] = "iterate" => walk'[t].shelf \in 1..Len(Dict(t)')
      <4> SUFFICES ASSUME pc'[t] = "iterate" PROVE walk'[t].shelf \in 1..Len(Dict(t)')
        OBVIOUS
      <4>1. Opened(t, 1) /\ Dict(t) # <<>>
        BY <2>1 DEF RequestTypes, ListBegin, Dict
      <4>2. 1 \in 1..Len(Dict(t))
        BY <2>w, <3>1, <4>1
      <4>3. walk'[t].shelf = 1
        BY <3>1, <4>1, <4>2, OpenedFacts
      <4> QED BY <2>d, <3>1, <4>2, <4>3
    <3>3. pc'[t] = "try" => req[t].kind = "parse"
      BY <2>w, <3>1
    <3> QED BY <3>1, <3>2, <3>3
  <2>2. CASE ListStep(t)
    <3>1. UNCHANGED <<pc, req, stage, chosen, result>> /\ pc[t] = "iterate"
      BY <2>2 DEF ListStep
    <3>2. walk'[t].shelf = walk[t].shelf
      BY <2>2, ListStepFacts
    <3> QED BY <2>d, <3>1, <3>2
  <2>3. CASE ListNext(t)
    <3>1. /\ UNCHANGED <<pc, req, stage, chosen, result>> /\ pc[t] = "iterate"
          /\ walk[t].shelf < Len(Dict(t)) /\ Opened(t, walk[t].shelf + 1)
      BY <2>3 DEF ListNext, Dict
    <3>2. walk[t].shelf + 1 \in 1..Len(Dict(t))
      BY <2>w, <3>1
    <3>3. walk'[t].shelf = walk[t].shelf + 1
      BY <3>1, <3>2, OpenedFacts
    <3> QED BY <2>d, <3>1, <3>2, <3>3
  <2>7. CASE ListEnd(t)
    BY <2>7 DEF RequestTypes, ListEnd, Answer
  <2>8. CASE ListFails(t)
    BY <2>8 DEF RequestTypes, ListFails, Answer
  <2>9. CASE SaveBegin(t)
    BY <2>9 DEF RequestTypes, SaveBegin, Lacks
  <2>10. CASE SaveFails(t)
    BY <2>10 DEF RequestTypes, SaveFails, Answer
  <2>4. CASE Try(t)
    <3>1. todo[t] \in Seq(Objects) /\ todo[t] # <<>>
      BY <2>4 DEF RequestTypes, Try
    <3>2. Head(todo[t]) \in Objects
      BY <3>1
    <3> QED BY <2>4, <3>2 DEF RequestTypes, Try, Objects
  <2>5. CASE NextStage(t)
    BY <2>5 DEF RequestTypes, NextStage, Answer
  <2>6. CASE Parse(t)
    BY <2>6 DEF RequestTypes, Parse, Answer
  <2> QED BY <2>1, <2>2, <2>3, <2>4, <2>5, <2>6, <2>7, <2>8, <2>9, <2>10
<1> QED BY <1>2, <1>3, <1>4, <1>5 DEF StepKeeps, Places

\* save: the object gets its place, the id is listed, and every other place is as
\* before or lost with a dictionary that was replaced.
LEMMA StoredFacts ==
  ASSUME StoreTypes, NEW d \in Definitions, NEW n \in Nat, Len(heap) <= n,
         NEW x \in 1..n, NEW lack \in {"tenant", "id", "version"}, Stored(d, x, lack)
  PROVE  /\ slot' \in [Owners -> [Ids -> [Versions -> 0..n]]]
         /\ order' \in [Owners -> Seq(Ids)] /\ made' \in [Owners -> Nat]
         /\ \A o \in Owners, i \in Ids, v \in Versions :
              \/ slot'[o][i][v] = 0
              \/ o = d.owner /\ i = d.id /\ v = d.version /\ slot'[o][i][v] = x
              \/ /\ slot'[o][i][v] = slot[o][i][v]
                 /\ i \in Range(order[o]) => i \in Range(order'[o])
         /\ d.id \in Range(order[d.owner]) \/ ~Holds(d.owner, d.id)
              => d.id \in Range(order'[d.owner])
<1>0. d.owner \in Owners /\ d.id \in Ids /\ d.version \in Versions /\ Len(heap) \in Nat
  BY ParserAssumption DEF StoreTypes
<1> DEFINE none == [v \in Versions |-> 0]
           ids == IF lack = "tenant" THEN [i \in Ids |-> none] ELSE slot[d.owner]
           versions == IF lack = "version" THEN ids[d.id] ELSE none
           a == order[d.owner]
           new == IF lack = "tenant" THEN <<d.id>>
                  ELSE IF Holds(d.owner, d.id) THEN a ELSE Append(a, d.id)
<1>1. 0..Len(heap) \subseteq 0..n /\ x \in 0..n /\ 0 \in 0..n
  BY <1>0
<1>2. slot \in [Owners -> [Ids -> [Versions -> 0..n]]]
  BY <1>1 DEF StoreTypes
<1>3. slot' = [slot EXCEPT ![d.owner] =
                 [ids EXCEPT ![d.id] = [versions EXCEPT ![d.version] = x]]]
  BY DEF Stored
<1>4. none \in [Versions -> 0..n]
  BY <1>1
<1>5. ids \in [Ids -> [Versions -> 0..n]]
  BY <1>0, <1>2, <1>4
<1>6. versions \in [Versions -> 0..n]
  BY <1>0, <1>4, <1>5
<1>7. slot' \in [Owners -> [Ids -> [Versions -> 0..n]]]
  <2> HIDE DEF none, ids, versions
  <2> QED BY <1>0, <1>1, <1>2, <1>3, <1>5, <1>6
<1>8. a \in Seq(Ids) /\ order \in [Owners -> Seq(Ids)] /\ made \in [Owners -> Nat]
  BY <1>0 DEF StoreTypes
<1>9. /\ new \in Seq(Ids)
      /\ lack = "tenant" => Range(new) = {d.id}
      /\ lack # "tenant" => Range(a) \subseteq Range(new)
      /\ d.id \in Range(a) \/ ~Holds(d.owner, d.id) => d.id \in Range(new)
  <2> HIDE DEF a
  <2>1. Append(a, d.id) \in Seq(Ids) /\ Range(Append(a, d.id)) = Range(a) \cup {d.id}
    BY <1>0, <1>8, AppendRange
  <2>2. <<d.id>> \in Seq(Ids) /\ Range(<<d.id>>) = {d.id}
    BY <1>0 DEF Range
  <2> QED BY <1>8, <2>1, <2>2
<1>10. order' = [order EXCEPT ![d.owner] = new]
  BY DEF Stored
<1>11. made' = [made EXCEPT ![d.owner] = IF lack = "tenant" THEN @ + 1 ELSE @]
  BY DEF Stored
<1>12. made' \in [Owners -> Nat]
  BY <1>0, <1>8, <1>11
<1> HIDE DEF new
<1>13. /\ order' \in [Owners -> Seq(Ids)] /\ order'[d.owner] = new
       /\ \A o \in Owners : o # d.owner => order'[o] = order[o]
  BY <1>0, <1>8, <1>9, <1>10
<1>14. ASSUME NEW o \in Owners, NEW i \in Ids, NEW v \in Versions
       PROVE  \/ slot'[o][i][v] = 0
              \/ o = d.owner /\ i = d.id /\ v = d.version /\ slot'[o][i][v] = x
              \/ /\ slot'[o][i][v] = slot[o][i][v]
                 /\ i \in Range(order[o]) => i \in Range(order'[o])
  <2>1. CASE o # d.owner
    <3>1. slot'[o] = slot[o]
      BY <1>2, <1>3, <2>1
    <3> QED BY <1>13, <2>1, <3>1
  <2>2. CASE o = d.owner
    <3>1. slot'[o][i][v] = IF i = d.id /\ v = d.version THEN x
                           ELSE IF i = d.id THEN versions[v] ELSE ids[i][v]
      <4> HIDE DEF none, ids, versions
      <4> QED BY <1>0, <1>2, <1>3, <1>5, <1>6, <2>2
    <3>2. CASE lack = "tenant"
      <4>1. ids[i][v] = 0 /\ versions[v] = 0
        BY <3>2
      <4> QED BY <2>2, <3>1, <4>1
    <3>3. CASE lack # "tenant"
      <4>1. ids = slot[o] /\ (versions[v] = 0 \/ versions[v] = ids[d.id][v])
        BY <2>2, <3>3
      <4>2. Range(order[o]) \subseteq Range(order'[o])
        BY <1>9, <1>13, <2>2, <3>3
      <4> QED BY <2>2, <3>1, <4>1, <4>2
    <3> QED BY <3>2, <3>3
  <2> QED BY <2>1, <2>2
<1> QED BY <1>7, <1>9, <1>12, <1>13, <1>14

\* Objects are only added, and keep what they are.
Grows == /\ Len(heap) <= Len(heap') /\ Len(heap') \in Nat
         /\ Objects \subseteq Objects'
         /\ \A x \in Objects : heap'[x] = heap[x] /\ by'[x] = by[x]

\* A new object, by register_parser.
LEMMA NewObject ==
  ASSUME PlaceInv, NEW t \in Threads, Save(t), req[t].kind = "register"
  PROVE  LET d == req[t].definition
             n == Len(heap) + 1
         IN  /\ d \in Definitions /\ req[t].caller \in Callers /\ n \in Nat
             /\ heap' \in Seq(Definitions) /\ Len(heap') = n /\ n <= MaxObjects
             /\ heap'[n] = d /\ active' = active \cup {n}
             /\ by' \in Seq(Callers \cup {StartUp}) /\ Len(by') = n
             /\ by'[n] = req[t].caller
             /\ Objects' = Objects \cup {n} /\ n \in 1..n
             /\ Grows /\ Stored(d, n, pc[t]) /\ pc[t] \in {"tenant", "id", "version"}
<1> DEFINE d == req[t].definition
           n == Len(heap) + 1
<1>0. StoreTypes /\ req[t] \in Requests
  BY TypesSplit DEF PlaceInv, RequestTypes
<1>1. d \in Definitions /\ req[t].caller \in Callers
  BY <1>0, RequestFacts
<1>2. /\ Len(heap) < MaxObjects /\ heap' = Append(heap, d) /\ active' = active \cup {n}
      /\ by' = Append(by, req[t].caller) /\ Stored(d, n, pc[t])
      /\ pc[t] \in {"tenant", "id", "version"}
  BY DEF Save
<1> HIDE DEF d
<1>3. /\ heap \in Seq(Definitions) /\ by \in Seq(Callers \cup {StartUp})
      /\ Len(by) = Len(heap) /\ Len(heap) \in Nat /\ MaxObjects \in Nat
  BY <1>0, ParserAssumption DEF StoreTypes
<1>4. /\ heap' \in Seq(Definitions) /\ Len(heap') = n /\ heap'[n] = d
      /\ \A x \in 1..Len(heap) : heap'[x] = heap[x]
  BY <1>1, <1>2, <1>3
<1>5. /\ by' \in Seq(Callers \cup {StartUp}) /\ Len(by') = n /\ by'[n] = req[t].caller
      /\ \A x \in 1..Len(heap) : by'[x] = by[x]
  <2>1. req[t].caller \in Callers \cup {StartUp}
    BY <1>1
  <2> DEFINE c == req[t].caller
  <2> HIDE DEF c
  <2>2. /\ Append(by, c) \in Seq(Callers \cup {StartUp}) /\ Len(Append(by, c)) = n
        /\ Append(by, c)[n] = c /\ \A x \in 1..Len(heap) : Append(by, c)[x] = by[x]
    BY <1>3, <2>1 DEF c
  <2> QED BY <1>2, <2>2 DEF c
<1>6. n \in Nat /\ n <= MaxObjects /\ n \in 1..n
      /\ 1..n = (1..Len(heap)) \cup {n}
  BY <1>2, <1>3
<1>7. Objects = 1..Len(heap) /\ Objects' = 1..n
  BY <1>4 DEF Objects
<1>8. Grows
  BY <1>3, <1>4, <1>5, <1>6, <1>7 DEF Grows
<1>9. QED BY <1>1, <1>2, <1>4, <1>5, <1>6, <1>7, <1>8 DEF d

\* A lifecycle change stores its object again.
LEMMA OldObject ==
  ASSUME PlaceInv, NEW t \in Threads, Save(t), req[t].kind # "register"
  PROVE  /\ chosen[t] \in Objects /\ heap[chosen[t]] \in Definitions
         /\ Stored(heap[chosen[t]], chosen[t], pc[t])
         /\ pc[t] \in {"tenant", "id", "version"}
         /\ UNCHANGED <<heap, active, by>> /\ Len(heap) \in Nat
<1>1. StoreTypes /\ PlaceOK(t) /\ chosen[t] \in {BuiltIn} \cup 0..Len(heap)
  BY TypesSplit DEF PlaceInv, Places, RequestTypes
<1>2. /\ Stored(heap[chosen[t]], chosen[t], pc[t]) /\ UNCHANGED <<heap, active, by>>
      /\ pc[t] \in {"tenant", "id", "version"}
  BY DEF Save
<1>3. chosen[t] # 0 /\ chosen[t] # BuiltIn
  BY <1>1, <1>2 DEF PlaceOK, Changes, Saving
<1>4. Len(heap) \in Nat
  BY <1>1 DEF StoreTypes
<1>5. chosen[t] \in Objects
  BY <1>1, <1>3, <1>4 DEF Objects
<1>6. heap[chosen[t]] \in Definitions
  BY <1>1, <1>5 DEF StoreTypes, Objects
<1> QED BY <1>2, <1>4, <1>5, <1>6

\* save, for a registration and for a lifecycle change.
LEMMA SavePlace ==
  ASSUME PlaceInv, NEW t \in Threads, Save(t)
  PROVE  StepKeeps
<1>0. StoreTypes /\ RequestTypes /\ Places /\ Len(heap) \in Nat /\ PlaceOK(t)
  BY TypesSplit DEF PlaceInv, StoreTypes, Places
<1>1. StoreTypes' /\ Len(heap') \in Nat /\ Len(heap) <= Len(heap')
  <2>1. CASE req[t].kind = "register"
    <3> DEFINE d == req[t].definition
               n == Len(heap) + 1
    <3>1. /\ d \in Definitions /\ n \in Nat
          /\ heap' \in Seq(Definitions) /\ Len(heap') = n /\ n <= MaxObjects
          /\ active' = active \cup {n}
          /\ by' \in Seq(Callers \cup {StartUp}) /\ Len(by') = n
          /\ Objects' = Objects \cup {n} /\ n \in 1..n /\ Stored(d, n, pc[t])
          /\ pc[t] \in {"tenant", "id", "version"}
      BY <2>1, NewObject
    <3> HIDE DEF d
    <3>2. Len(heap) <= n
      BY <1>0
    <3>3. /\ slot' \in [Owners -> [Ids -> [Versions -> 0..n]]]
          /\ order' \in [Owners -> Seq(Ids)] /\ made' \in [Owners -> Nat]
      <4> HIDE DEF n
      <4> QED BY <1>0, <3>1, <3>2, StoredFacts
    <3>4. active' \in SUBSET Objects'
      BY <1>0, <3>1 DEF StoreTypes
    <3> HIDE DEF n
    <3> QED BY <3>1, <3>2, <3>3, <3>4 DEF StoreTypes
  <2>2. CASE req[t].kind # "register"
    <3>1. /\ chosen[t] \in Objects /\ heap[chosen[t]] \in Definitions
          /\ Stored(heap[chosen[t]], chosen[t], pc[t])
          /\ pc[t] \in {"tenant", "id", "version"}
          /\ UNCHANGED <<heap, active, by>>
      BY <2>2, OldObject
    <3> DEFINE x == chosen[t]
               d == heap[x]
    <3>2. /\ x \in 1..Len(heap) /\ d \in Definitions /\ Stored(d, x, pc[t])
          /\ Len(heap) <= Len(heap)
      BY <1>0, <3>1 DEF Objects
    <3> HIDE DEF x, d
    <3>3. /\ slot' \in [Owners -> [Ids -> [Versions -> 0..Len(heap)]]]
          /\ order' \in [Owners -> Seq(Ids)] /\ made' \in [Owners -> Nat]
      BY <1>0, <3>1, <3>2, StoredFacts
    <3>4. Objects' = Objects
      BY <3>1 DEF Objects
    <3> QED BY <1>0, <3>1, <3>3, <3>4 DEF StoreTypes
  <2> QED BY <2>1, <2>2
<1>2. /\ pc' = [pc EXCEPT ![t] = "list"] /\ pc[t] \in Saving
      /\ UNCHANGED <<req, stage, walk, todo, chosen, result>>
  BY DEF Save, Saving
<1>3. RequestTypes'
  <2>1. Objects \subseteq Objects' /\ 0..Len(heap) \subseteq 0..Len(heap')
    BY <1>0, <1>1 DEF Objects
  <2>2. Seq(Objects) \subseteq Seq(Objects')
    BY <2>1
  <2> QED BY <1>0, <1>2, <2>1, <2>2 DEF RequestTypes
<1>4. ASSUME NEW u \in Threads PROVE PlaceOK(u)'
  <2>1. CASE u # t
    <3>1. Same(u)
      BY <1>0, <1>2, <2>1 DEF RequestTypes, Same
    <3> QED BY <1>0, <3>1, SamePlace DEF Places
  <2>2. CASE u = t
    BY <1>0, <1>2, <2>2 DEF PlaceOK, Parsed, RequestTypes, Waiting, Saving, Changes
  <2> QED BY <2>1, <2>2
<1> QED BY <1>1, <1>3, <1>4 DEF StepKeeps, Places

\* The status of an object is written.
LEMMA SetPlace ==
  ASSUME PlaceInv, NEW t \in Threads, SetStatus(t)
  PROVE  StepKeeps
<1>0. StoreTypes /\ RequestTypes /\ Places /\ Len(heap) \in Nat /\ PlaceOK(t)
  BY TypesSplit DEF PlaceInv, StoreTypes, Places
<1>1. chosen[t] # 0 => chosen[t] \in Objects
  <2>1. chosen[t] # BuiltIn /\ chosen[t] \in {BuiltIn} \cup 0..Len(heap)
    BY <1>0 DEF SetStatus, PlaceOK, RequestTypes, Changes
  <2> QED BY <1>0, <2>1 DEF Objects
<1>2. active' \in SUBSET Objects
  BY <1>0, <1>1 DEF SetStatus, StoreTypes
<1>3. StoreTypes' /\ Objects' = Objects
  BY <1>0, <1>2, StoreStays DEF SetStatus
<1>4. RequestTypes'
  BY <1>0, <1>3 DEF RequestTypes, SetStatus, Answer
<1>5. ASSUME NEW u \in Threads PROVE PlaceOK(u)'
  <2>1. CASE u # t
    <3>1. Same(u)
      BY <1>0, <2>1 DEF RequestTypes, Same, SetStatus, Answer
    <3> QED BY <1>0, <3>1, SamePlace DEF Places
  <2>2. CASE u = t
    BY <1>0, <2>2 DEF PlaceOK, Parsed, RequestTypes, SetStatus, Answer, Waiting, Saving,
                      Changes
  <2> QED BY <2>1, <2>2
<1> QED BY <1>3, <1>4, <1>5 DEF StepKeeps, Places
-----------------------------------------------------------------------------
\* A request whose eligible parsers are still watched after the step.
Watching(u) == pc'[u] \notin {"parse", "done"} /\ req'[u].kind = "parse"

\* What Observe keeps of one request: what was eligible when it began, and still is.
LEMMA ObserveFacts ==
  ASSUME RequestTypes', Observe, NEW u \in Threads
  PROVE  /\ ~Watching(u) => steady'[u] = steady[u]
         /\ Watching(u) => \E e \in Envelopes :
              /\ req'[u].event = e
              /\ pc[u] = "idle" => steady'[u] = Eligible(e)'
              /\ pc[u] # "idle" /\ UNCHANGED store => steady'[u] = steady[u]
              /\ pc[u] # "idle" /\ ~UNCHANGED store =>
                   steady'[u] = Eligible(e)' \cap steady[u]
<1> DEFINE now == [e \in Envelopes |-> Eligible(e)']
<1>1. steady'[u] = IF ~Watching(u) THEN steady[u]
                   ELSE IF pc[u] = "idle" THEN now[req'[u].event]
                   ELSE IF UNCHANGED store THEN steady[u]
                   ELSE now[req'[u].event] \cap steady[u]
  BY DEF Observe, Watching
<1>2. Watching(u) => req'[u].event \in Envelopes
  <2>1. req'[u] \in Requests
    BY DEF RequestTypes, Requests
  <2> QED BY <2>1, RequestFacts DEF Watching
<1>3. \A e \in Envelopes : now[e] = Eligible(e)'
  OBVIOUS
<1> HIDE DEF now
<1> QED BY <1>1, <1>2, <1>3

\* What is watched are steps and objects.
LEMMA SteadyType ==
  ASSUME ParserTypeOK, StoreTypes', RequestTypes', Observe, Objects \subseteq Objects'
  PROVE  steady' \in [Threads -> SUBSET ((1..3) \X Objects')]
<1>1. \A e \in Envelopes : Eligible(e)' \subseteq (1..3) \X Objects'
  <2> SUFFICES ASSUME NEW e \in Envelopes PROVE Eligible(e)' \subseteq (1..3) \X Objects'
    OBVIOUS
  <2>1. Eligible(e)' \subseteq (1..3) \X active'
    BY DEF Eligible
  <2>2. active' \subseteq Objects'
    BY DEF StoreTypes
  <2> QED BY <2>1, <2>2
<1>2. \A u \in Threads : steady[u] \subseteq (1..3) \X Objects'
  BY DEF ParserTypeOK, RequestTypes, StoreTypes
<1>3. \A u \in Threads : steady'[u] \subseteq (1..3) \X Objects'
  BY <1>1, <1>2, ObserveFacts
<1>4. steady' = [u \in Threads |-> steady'[u]]
  BY DEF Observe
<1> QED BY <1>3, <1>4

\* No step takes an object back or changes what it was made with.
LEMMA StepGrows ==
  ASSUME PlaceInv, NEW t \in Threads, Arrive(t) \/ Serve(t)
  PROVE  Grows
<1>0. Len(heap) \in Nat
  BY DEF PlaceInv, ParserTypeOK, RequestTypes, StoreTypes
<1>1. CASE Save(t)
  <2>1. CASE req[t].kind = "register"
    BY <1>1, <2>1, NewObject
  <2>2. CASE req[t].kind # "register"
    BY <1>0, <1>1, <2>2, OldObject DEF Grows, Objects
  <2> QED BY <2>1, <2>2
<1>2. CASE ~Save(t)
  <2>1. UNCHANGED <<heap, by>>
    <3>1. CASE Arrive(t)
      BY <3>1 DEF Arrive, parse_event, register_parser, Lifecycle, get_parser,
                  replay_events, list_parsers, Refuse, Begin, store
    <3>2. CASE Serve(t)
      BY <1>2, <3>2 DEF Serve, ListBegin, ListStep, ListNext, ListEnd, ListFails, Try,
                        NextStage, Parse, SaveBegin, SaveFails, SetStatus, store
    <3> QED BY <3>1, <3>2
  <2> QED BY <1>0, <2>1 DEF Grows, Objects
<1> QED BY <1>1, <1>2

\* Every step of a request, the observation left out.
LEMMA StepPlace ==
  ASSUME PlaceInv, NEW t \in Threads, Arrive(t) \/ Serve(t)
  PROVE  StepKeeps /\ Objects \subseteq Objects'
<1>1. StepKeeps
  BY ArrivePlace, ServePlace, SavePlace, SetPlace DEF Serve
<1> QED BY <1>1, StepGrows DEF Grows

\* Every step keeps the first invariant.
LEMMA NextPlace ==
  ASSUME PlaceInv, [ParserNext]_parserVars
  PROVE  PlaceInv'
<1>1. CASE ParserNext
  <2>1. PICK t \in Threads : Arrive(t) \/ Serve(t)
    BY <1>1 DEF ParserNext
  <2>2. StepKeeps /\ Objects \subseteq Objects' /\ Observe
    BY <1>1, <2>1, StepPlace DEF ParserNext
  <2>3. steady' \in [Threads -> SUBSET ((1..3) \X Objects')]
    BY <2>2, SteadyType DEF StepKeeps, PlaceInv
  <2>4. ParserTypeOK'
    BY <2>2, <2>3 DEF StepKeeps, ParserTypeOK, StoreTypes, RequestTypes
  <2> QED BY <2>2, <2>4 DEF StepKeeps, PlaceInv
<1>2. CASE UNCHANGED parserVars
  <2>1. /\ UNCHANGED <<store, pc, req, stage, walk, todo, chosen, result>>
        /\ UNCHANGED steady
    BY <1>2 DEF parserVars, request
  <2>2. Objects' = Objects
    BY <2>1 DEF Objects, store
  <2>3. ParserTypeOK'
    BY <2>1, <2>2 DEF PlaceInv, ParserTypeOK, RequestTypes, StoreTypes, store
  <2>5. \A u \in Threads : Same(u)
    BY <2>1 DEF Same
  <2>6. Places'
    BY <2>5, SamePlace DEF Places, PlaceInv
  <2> QED BY <2>3, <2>6 DEF PlaceInv
<1> QED BY <1>1, <1>2

\* The start-up: what load_from_directory leaves.
LEMMA LoadedFacts ==
  /\ Loaded \in Seq(Definitions) /\ Len(Loaded) \in Nat /\ Len(Loaded) <= MaxObjects
  /\ \A x \in 1..Len(Loaded) : Loaded[x] \in Definitions /\ Loaded[x].sound
<1> DEFINE S == {d \in Definitions : d.sound}
<1>1. Baseline \in Seq(Definitions) /\ Len(Baseline) <= MaxObjects /\ MaxObjects \in Nat
  BY ParserAssumption
<1>2. Loaded \in Seq(Definitions \cap S) /\ Len(Loaded) <= Len(Baseline)
  <2>1. Loaded = Kept(Baseline, S)
    BY DEF Loaded
  <2> HIDE DEF S
  <2> QED BY <1>1, <2>1, KeptFacts
<1>3. Len(Loaded) \in Nat /\ Len(Baseline) \in Nat
  BY <1>1, <1>2
<1>4. \A x \in 1..Len(Loaded) : Loaded[x] \in Definitions /\ Loaded[x].sound
  BY <1>2
<1>5. Loaded \in Seq(Definitions)
  BY <1>2
<1>6. Len(Loaded) <= MaxObjects
  BY <1>1, <1>2, <1>3
<1> QED BY <1>3, <1>4, <1>5, <1>6

\* The store after load_from_directory: typed and sound.
LEMMA InitStore ==
  ASSUME ParserInit
  PROVE  /\ StoreTypes /\ StoreSound
         /\ heap = Loaded /\ active = 1..Len(Loaded)
         /\ by = [x \in 1..Len(Loaded) |-> StartUp]
<1> DEFINE n == Len(Loaded)
           At(o, i, v) == {x \in 1..n : /\ Loaded[x].owner = o /\ Loaded[x].id = i
                                        /\ Loaded[x].version = v}
           First(o) == {x \in 1..n : /\ Loaded[x].owner = o
                                     /\ \A y \in 1..x - 1 : \/ Loaded[y].owner # o
                                                            \/ Loaded[y].id # Loaded[x].id}
           Mine(o) == Kept([x \in 1..n |-> x], First(o))
<1>0. n \in Nat /\ n <= MaxObjects /\ Loaded \in Seq(Definitions)
      /\ \A x \in 1..n : Loaded[x] \in Definitions /\ Loaded[x].sound
  BY LoadedFacts
<1>1. /\ heap = Loaded /\ active = 1..n /\ by = [x \in 1..n |-> StartUp]
      /\ Objects = 1..n
  BY DEF ParserInit, Objects
<1>2. by \in Seq(Callers \cup {StartUp}) /\ Len(by) = n
  <2>1. by \in [1..n -> Callers \cup {StartUp}]
    BY <1>1
  <2>2. by \in Seq(Callers \cup {StartUp})
    BY <1>0, <2>1, SeqDef
  <2>3. 1..Len(by) = 1..n /\ Len(by) \in Nat
    BY <2>1, <2>2
  <2> DEFINE m == Len(by)
             k == n
  <2>4. m = k
    <3>1. 1..m = 1..k /\ m \in Nat /\ k \in Nat
      BY <1>0, <2>3
    <3> HIDE DEF m, k
    <3> QED BY <3>1
  <2> QED BY <2>2, <2>4
<1>3. \A o \in Owners, i \in Ids, v \in Versions :
        slot[o][i][v] = IF At(o, i, v) = {} THEN 0 ELSE Newest(At(o, i, v))
  BY DEF ParserInit
<1>4. \A o \in Owners, i \in Ids, v \in Versions :
        IF At(o, i, v) = {} THEN slot[o][i][v] = 0 ELSE slot[o][i][v] \in At(o, i, v)
  <2>1. ASSUME NEW o \in Owners, NEW i \in Ids, NEW v \in Versions
        PROVE  /\ At(o, i, v) # {} => slot[o][i][v] \in At(o, i, v)
               /\ At(o, i, v) = {} => slot[o][i][v] = 0
    <3>1. At(o, i, v) \subseteq 1..n
      OBVIOUS
    <3>2. slot[o][i][v] = IF At(o, i, v) = {} THEN 0 ELSE Newest(At(o, i, v))
      BY <1>3
    <3> HIDE DEF At
    <3>3. At(o, i, v) # {} => Newest(At(o, i, v)) \in At(o, i, v)
      BY <1>0, <3>1, NewestFacts
    <3> QED BY <3>2, <3>3
  <2> HIDE DEF At
  <2> QED BY <2>1
<1>5. slot \in [Owners -> [Ids -> [Versions -> 0..n]]]
  <2>1. slot = [o \in Owners |-> [i \in Ids |-> [v \in Versions |-> slot[o][i][v]]]]
    BY DEF ParserInit
  <2>2. \A o \in Owners, i \in Ids, v \in Versions : slot[o][i][v] \in 0..n
    BY <1>0, <1>4
  <2> QED BY <2>1, <2>2
<1>6. \A o \in Owners : /\ Mine(o) \in Seq(First(o))
                        /\ Range(Mine(o)) = First(o)
  <2> SUFFICES ASSUME NEW o \in Owners
               PROVE  Mine(o) \in Seq(First(o)) /\ Range(Mine(o)) = First(o)
    OBVIOUS
  <2> DEFINE s == [x \in 1..n |-> x]
             F == First(o)
  <2>1. s \in [1..n -> 1..n] /\ Range(s) = 1..n
    BY DEF Range
  <2>2. s \in Seq(1..n)
    BY <1>0, <2>1, SeqDef
  <2>3. (1..n) \cap F = F
    OBVIOUS
  <2>4. Mine(o) = Kept(s, F)
    OBVIOUS
  <2> HIDE DEF s, F, Mine
  <2>5. Kept(s, F) \in Seq((1..n) \cap F) /\ Range(Kept(s, F)) = Range(s) \cap F
    BY <2>2, KeptFacts
  <2>6. Mine(o) \in Seq(F) /\ Range(Mine(o)) = F
    BY <2>1, <2>3, <2>4, <2>5
  <2> QED BY <2>6 DEF F
<1>7. \A o \in Owners : order[o] = [k \in DOMAIN Mine(o) |-> Loaded[Mine(o)[k]].id]
  BY DEF ParserInit
<1>8. /\ order = [o \in Owners |-> order[o]]
      /\ \A o \in Owners : order[o] \in Seq(Ids)
      /\ \A o \in Owners, x \in 1..n : x \in First(o) => Loaded[x].id \in Range(order[o])
  <2>1. order = [o \in Owners |-> order[o]]
    BY DEF ParserInit
  <2>2. ASSUME NEW o \in Owners
        PROVE  /\ order[o] \in Seq(Ids)
               /\ \A x \in 1..n : x \in First(o) => Loaded[x].id \in Range(order[o])
    <3>2. \A x \in First(o) : x \in 1..n /\ Loaded[x].id \in Ids
      BY <1>0, ParserAssumption
    <3> DEFINE m == Mine(o)
               F == First(o)
    <3>3. /\ m \in Seq(F) /\ Range(m) = F /\ \A x \in F : x \in 1..n /\ Loaded[x].id \in Ids
          /\ order[o] = [k \in DOMAIN m |-> Loaded[m[k]].id]
      BY <1>6, <1>7, <3>2
    <3> HIDE DEF m, F
    <3>4. DOMAIN m = 1..Len(m) /\ Len(m) \in Nat /\ \A k \in DOMAIN m : m[k] \in F
      BY <3>3
    <3>5. order[o] \in [1..Len(m) -> Ids]
      BY <3>3, <3>4
    <3>6. order[o] \in Seq(Ids)
      BY <3>4, <3>5, SeqDef
    <3>7. \A x \in F : Loaded[x].id \in Range(order[o])
      <4> SUFFICES ASSUME NEW x \in F PROVE Loaded[x].id \in Range(order[o])
        OBVIOUS
      <4>1. PICK k \in DOMAIN m : m[k] = x
        BY <3>3 DEF Range
      <4>2. k \in DOMAIN order[o] /\ order[o][k] = Loaded[x].id
        BY <3>3, <4>1
      <4> QED BY <4>2 DEF Range
    <3> QED BY <3>6, <3>7 DEF F
  <2>3. \A o \in Owners : order[o] \in Seq(Ids)
    BY <2>2
  <2>4. \A o \in Owners, x \in 1..n : x \in First(o) => Loaded[x].id \in Range(order[o])
    BY <2>2
  <2> HIDE DEF First, n
  <2> QED BY <2>1, <2>3, <2>4
<1>9. StoreTypes
  <2>1. order \in [Owners -> Seq(Ids)]
    BY <1>8
  <2>2. made \in [Owners -> Nat]
    BY DEF ParserInit
  <2> QED BY <1>0, <1>1, <1>2, <1>5, <2>1, <2>2 DEF StoreTypes
<1>10. StoreSound
  <2> SUFFICES ASSUME NEW o \in Owners, NEW i \in Ids, NEW v \in Versions,
                      slot[o][i][v] # 0, NEW x, x = slot[o][i][v]
               PROVE  /\ heap[x].owner = o /\ heap[x].id = i /\ heap[x].version = v
                      /\ heap[x].sound
                      /\ by[x].system \/ by[x].tenant \in {o, Global}
                      /\ \E k \in DOMAIN order[o] : order[o][k] = i
    BY DEF StoreSound
  <2>1. x \in At(o, i, v)
    BY <1>4
  <2>2. x \in 1..n /\ heap[x].owner = o /\ heap[x].id = i /\ heap[x].version = v
    BY <1>1, <2>1
  <2>3. heap[x].sound /\ by[x].system
    BY <1>0, <1>1, <2>2 DEF StartUp
  <2>4. i \in Range(order[o])
    <3> DEFINE T == {y \in 1..n : Loaded[y].owner = o /\ Loaded[y].id = i}
    <3>1. T \subseteq Nat /\ x \in T
      BY <1>1, <2>2
    <3>2. PICK y \in T : \A z \in T : y <= z
      <4> HIDE DEF T
      <4> QED BY <3>1, LeastOf
    <3>3. y \in First(o)
      <4>1. \A z \in 1..y - 1 : z \in 1..n /\ ~(y <= z)
        BY <1>0, <3>2
      <4> QED BY <3>2, <4>1
    <3>4. Loaded[y].id = i /\ y \in 1..n
      BY <3>2
    <3> QED BY <1>8, <3>3, <3>4
  <2> QED BY <2>2, <2>3, <2>4 DEF Range
<1> QED BY <1>1, <1>9, <1>10

\* The first invariant holds at start-up.
LEMMA InitPlace ==
  ASSUME ParserInit
  PROVE  PlaceInv
<1>1. StoreTypes
  BY InitStore
<1>2. RequestTypes
  <2>1. <<>> \in Seq(Objects) /\ Len(heap) \in Nat /\ NoRequest \in Requests
    BY <1>1 DEF StoreTypes, Requests
  <2>2. NoWalk \in [shelf : 0..2, made : Nat, size : Nat, left : Seq(Ids)]
    BY DEF NoWalk
  <2> QED BY <2>1, <2>2 DEF ParserInit, RequestTypes
<1>3. steady \in [Threads -> SUBSET ((1..3) \X Objects)]
  BY DEF ParserInit
<1>4. Places
  BY DEF ParserInit, Places, PlaceOK, Parsed, NoRequest, BuiltIn, Saving
<1> QED BY <1>1, <1>2, <1>3, <1>4, TypesSplit DEF PlaceInv

\* M2's registry and requests are well typed, and no request is where one of
\* its kind cannot be.
THEOREM PlaceInvariant == ParserSpec => []PlaceInv
BY InitPlace, NextPlace, PTL DEF ParserSpec

\* M2's registry and requests keep their types.
THEOREM ParserTypes == ParserSpec => []ParserTypeOK
<1>1. PlaceInv => ParserTypeOK
  BY DEF PlaceInv
<1> QED BY <1>1, PlaceInvariant, PTL
-----------------------------------------------------------------------------
\* The step of one request leaves the others alone.
LEMMA StepSame ==
  ASSUME PlaceInv, NEW t \in Threads, Arrive(t) \/ Serve(t),
         NEW u \in Threads, u # t
  PROVE  Same(u)
<1>0. RequestTypes
  BY TypesSplit DEF PlaceInv
<1>1. CASE Arrive(t)
  BY <1>0, <1>1 DEF RequestTypes, Same, Arrive, parse_event, register_parser,
     Lifecycle, get_parser, replay_events, list_parsers, Refuse, Begin, Answer
<1>2. CASE Serve(t)
  <2>1. CASE \/ ListBegin(t) \/ ListStep(t) \/ ListNext(t) \/ ListEnd(t) \/ ListFails(t)
    <3>1. walk'[u] = walk[u] /\ todo'[u] = todo[u] /\ UNCHANGED <<req, stage, chosen>>
      BY <2>1, ListKeeps
    <3>2. pc'[u] = pc[u] /\ result'[u] = result[u]
      BY <1>0, <2>1 DEF RequestTypes, ListBegin, ListStep, ListNext, ListEnd, ListFails,
                        Answer
    <3> QED BY <3>1, <3>2 DEF Same
  <2>2. CASE SaveBegin(t)
    BY <1>0, <2>2 DEF RequestTypes, Same, SaveBegin
  <2>3. CASE SaveFails(t)
    BY <1>0, <2>3 DEF RequestTypes, Same, SaveFails, Answer
  <2>4. CASE Try(t)
    BY <1>0, <2>4 DEF RequestTypes, Same, Try
  <2>5. CASE NextStage(t)
    BY <1>0, <2>5 DEF RequestTypes, Same, NextStage, Answer
  <2>6. CASE Parse(t)
    BY <1>0, <2>6 DEF RequestTypes, Same, Parse, Answer
  <2>7. CASE Save(t)
    BY <1>0, <2>7 DEF RequestTypes, Same, Save
  <2>8. CASE SetStatus(t)
    BY <1>0, <2>8 DEF RequestTypes, Same, SetStatus, Answer
  <2> QED BY <1>2, <2>1, <2>2, <2>3, <2>4, <2>5, <2>6, <2>7, <2>8 DEF Serve
<1> QED BY <1>1, <1>2

\* A request that arrives: what it was called with and what it looked up.
LEMMA ArriveFacts ==
  ASSUME PlaceInv, NEW t \in Threads, Arrive(t)
  PROVE  /\ UNCHANGED store /\ pc[t] = "idle" /\ todo'[t] = todo[t]
         /\ pc'[t] \notin {"iterate", "try"}
         /\ ~Parsed(t)' /\ MayCall(req'[t])
         /\ \/ chosen'[t] = 0
            \/ /\ req'[t].kind # "parse" /\ req'[t].caller \in Callers
               /\ \E i \in Ids, v \in 0..MaxVersion :
                    chosen'[t] = Get(i, v, req'[t].caller.tenant)
         /\ req'[t].kind = "parse" =>
              pc'[t] = "list" /\ stage'[t] = 1 /\ chosen'[t] = 0
<1>0. RequestTypes
  BY TypesSplit DEF PlaceInv
<1>1. UNCHANGED store /\ pc[t] = "idle" /\ todo' = todo
  BY DEF Arrive, parse_event, register_parser,
     Lifecycle, get_parser, replay_events, list_parsers, Refuse, Begin
<1>2. result[t] = "none" /\ chosen[t] = 0 /\ req[t] = NoRequest
  BY <1>1, IdleFacts
<1>p. ASSUME NEW c \in Callers, NEW e \in Envelopes, parse_event(t, c, e)
      PROVE  /\ pc'[t] = "list" /\ ~Parsed(t)' /\ MayCall(req'[t])
             /\ chosen'[t] = 0 /\ stage'[t] = 1
  <2> DEFINE r == [kind |-> "parse", caller |-> c, event |-> e]
  <2>1. /\ pc'[t] = "list" /\ result'[t] = "none" /\ req'[t] = r
        /\ chosen'[t] = 0 /\ stage'[t] = 1 /\ (c.system \/ c.tenant = e.tenant)
    BY <1>0, <1>2, <1>p DEF RequestTypes, parse_event, Begin
  <2>2. MayCall(r)
    BY <2>1 DEF MayCall
  <2> QED BY <2>1, <2>2 DEF Parsed
<1>r. ASSUME NEW c \in Callers, NEW d \in Definitions, register_parser(t, c, d)
      PROVE  /\ pc'[t] = "save" /\ ~Parsed(t)' /\ MayCall(req'[t])
             /\ chosen'[t] = 0 /\ req'[t].kind = "register"
  <2> DEFINE r == [kind |-> "register", caller |-> c, definition |-> d]
  <2>1. /\ pc'[t] = "save" /\ result'[t] = "none" /\ req'[t] = r
        /\ chosen'[t] = 0 /\ MayRegister(c, d)
    BY <1>0, <1>2, <1>r DEF RequestTypes, register_parser, Begin
  <2>2. MayCall(r) /\ r.kind = "register"
    BY <2>1 DEF MayCall
  <2> QED BY <2>1, <2>2 DEF Parsed
<1>g. ASSUME NEW c \in Callers, NEW i \in Ids, NEW v \in 0..MaxVersion,
             NEW r, r.kind \in {"get", "enable", "disable", "replay"}, r.caller = c,
             NEW w \in {"set", "done", "parse"}, Begin(t, r, w, Get(i, v, c.tenant)),
             result'[t] \in {"none", "ok", "missing"}
      PROVE  /\ pc'[t] \notin {"iterate", "try"} /\ ~Parsed(t)' /\ MayCall(req'[t])
             /\ req'[t].kind # "parse" /\ req'[t].caller = c
             /\ chosen'[t] = Get(i, v, c.tenant)
  <2>1. pc'[t] = w /\ req'[t] = r /\ chosen'[t] = Get(i, v, c.tenant)
    BY <1>0, <1>g DEF RequestTypes, Begin
  <2>2. MayCall(r) /\ r.kind # "parse"
    BY <1>g DEF MayCall
  <2> QED BY <1>g, <2>1, <2>2 DEF Parsed
<1>x. ASSUME NEW c \in Callers, NEW i \in Ids, NEW v \in 0..MaxVersion,
             \/ \E k \in {"enable", "disable"} : Lifecycle(t, c, k, i, v)
             \/ get_parser(t, c, i, v)
             \/ \E e \in Envelopes : replay_events(t, c, i, v, e)
      PROVE  /\ pc'[t] \notin {"iterate", "try"} /\ ~Parsed(t)' /\ MayCall(req'[t])
             /\ req'[t].kind # "parse" /\ req'[t].caller = c
             /\ chosen'[t] = Get(i, v, c.tenant)
  <2>1. ASSUME NEW k \in {"enable", "disable"}, Lifecycle(t, c, k, i, v)
        PROVE  \E r : /\ r.kind \in {"get", "enable", "disable", "replay"} /\ r.caller = c
                      /\ Begin(t, r, "set", Get(i, v, c.tenant)) /\ result'[t] = "none"
    <3> DEFINE r == [kind |-> k, caller |-> c]
    <3>1. Begin(t, r, "set", Get(i, v, c.tenant)) /\ result'[t] = "none"
      BY <1>2, <2>1 DEF Lifecycle
    <3>2. r.kind \in {"get", "enable", "disable", "replay"} /\ r.caller = c
      OBVIOUS
    <3> HIDE DEF r
    <3> QED BY <3>1, <3>2
  <2>2. ASSUME get_parser(t, c, i, v)
        PROVE  \E r : /\ r.kind \in {"get", "enable", "disable", "replay"} /\ r.caller = c
                      /\ Begin(t, r, "done", Get(i, v, c.tenant))
                      /\ result'[t] \in {"ok", "missing"}
    <3> DEFINE r == [kind |-> "get", caller |-> c]
    <3>1. Begin(t, r, "done", Get(i, v, c.tenant)) /\ result'[t] \in {"ok", "missing"}
      BY <1>0, <2>2 DEF get_parser, RequestTypes
    <3>2. r.kind \in {"get", "enable", "disable", "replay"} /\ r.caller = c
      OBVIOUS
    <3> HIDE DEF r
    <3> QED BY <3>1, <3>2
  <2>3. ASSUME NEW e \in Envelopes, replay_events(t, c, i, v, e)
        PROVE  \E r : /\ r.kind \in {"get", "enable", "disable", "replay"} /\ r.caller = c
                      /\ Begin(t, r, "parse", Get(i, v, c.tenant)) /\ result'[t] = "none"
    <3> DEFINE r == [kind |-> "replay", caller |-> c, event |-> e]
    <3>1. Begin(t, r, "parse", Get(i, v, c.tenant)) /\ result'[t] = "none"
      BY <1>2, <2>3 DEF replay_events
    <3>2. r.kind \in {"get", "enable", "disable", "replay"} /\ r.caller = c
      OBVIOUS
    <3> HIDE DEF r
    <3> QED BY <3>1, <3>2
  <2>4. CASE \E k \in {"enable", "disable"} : Lifecycle(t, c, k, i, v)
    <3>1. PICK r : /\ r.kind \in {"get", "enable", "disable", "replay"} /\ r.caller = c
                   /\ Begin(t, r, "set", Get(i, v, c.tenant)) /\ result'[t] = "none"
      BY <2>1, <2>4
    <3> QED BY <3>1, <1>g
  <2>5. CASE get_parser(t, c, i, v)
    <3>1. PICK r : /\ r.kind \in {"get", "enable", "disable", "replay"} /\ r.caller = c
                   /\ Begin(t, r, "done", Get(i, v, c.tenant))
                   /\ result'[t] \in {"ok", "missing"}
      BY <2>2, <2>5
    <3> QED BY <3>1, <1>g
  <2>6. CASE \E e \in Envelopes : replay_events(t, c, i, v, e)
    <3>1. PICK r : /\ r.kind \in {"get", "enable", "disable", "replay"} /\ r.caller = c
                   /\ Begin(t, r, "parse", Get(i, v, c.tenant)) /\ result'[t] = "none"
      BY <2>3, <2>6
    <3> QED BY <3>1, <1>g
  <2> QED BY <1>x, <2>4, <2>5, <2>6
<1>l. ASSUME NEW c \in Callers, list_parsers(t, c)
      PROVE  /\ pc'[t] \notin {"iterate", "try"} /\ ~Parsed(t)' /\ MayCall(req'[t])
             /\ req'[t].kind # "parse" /\ chosen'[t] = 0
  <2> DEFINE r == [kind |-> "list", caller |-> c]
  <2>1. pc'[t] = "list" /\ req'[t] = r /\ chosen'[t] = 0 /\ result'[t] = "none"
    BY <1>0, <1>2, <1>l DEF RequestTypes, list_parsers, Begin
  <2>2. MayCall(r) /\ r.kind # "parse"
    BY DEF MayCall
  <2> QED BY <2>1, <2>2 DEF Parsed
<1>f. ASSUME Refuse(t)
      PROVE  /\ pc'[t] \notin {"iterate", "try"} /\ ~Parsed(t)' /\ MayCall(req'[t])
             /\ req'[t].kind # "parse" /\ chosen'[t] = 0
  <2>1. /\ pc'[t] = "done" /\ req'[t] = NoRequest /\ chosen'[t] = 0
        /\ result'[t] = "refused"
    BY <1>0, <1>2, <1>f DEF RequestTypes, Refuse, Answer
  <2>2. MayCall(NoRequest) /\ NoRequest.kind # "parse"
    BY DEF MayCall, NoRequest
  <2> QED BY <2>1, <2>2 DEF Parsed
<1>3. CASE \E c \in Callers : \E e \in Envelopes : parse_event(t, c, e)
  BY <1>1, <1>3, <1>p
<1>4. CASE \E c \in Callers : \E d \in Definitions : register_parser(t, c, d)
  BY <1>1, <1>4, <1>r
<1>5. CASE \E c \in Callers : \E i \in Ids, v \in 0..MaxVersion :
             \/ \E k \in {"enable", "disable"} : Lifecycle(t, c, k, i, v)
             \/ get_parser(t, c, i, v)
             \/ \E e \in Envelopes : replay_events(t, c, i, v, e)
  BY <1>1, <1>5, <1>x
<1>6. CASE \E c \in Callers : list_parsers(t, c)
  BY <1>1, <1>6, <1>l
<1>7. CASE Refuse(t)
  BY <1>1, <1>7, <1>f
<1> QED BY <1>3, <1>4, <1>5, <1>6, <1>7 DEF Arrive
-----------------------------------------------------------------------------
(* M2: the store. *)

\* Every object was made by someone who may own it, and every request that runs
\* was let in.
StoreInv == ObjectsSound /\ StoreSound /\ \A t \in Threads : MayOK(t)

\* What is loaded is sound.
LEMMA InitSound ==
  ASSUME ParserInit
  PROVE  StoreInv
<1>1. StoreSound
  BY InitStore
<1>2. ObjectsSound
  <2>1. heap = Loaded /\ by = [x \in 1..Len(Loaded) |-> StartUp]
    BY DEF ParserInit
  <2>2. \A x \in 1..Len(Loaded) : Loaded[x].sound
    BY LoadedFacts
  <2> QED BY <2>1, <2>2 DEF ObjectsSound, Objects, StartUp
<1>3. \A t \in Threads : MayOK(t)
  BY DEF ParserInit, MayOK, MayCall, NoRequest
<1> QED BY <1>1, <1>2, <1>3 DEF StoreInv

\* A request stays what it was called with.
LEMMA ServeKeeps ==
  ASSUME NEW t \in Threads, Serve(t)
  PROVE  req' = req
BY DEF Serve, ListBegin, ListStep, ListNext, ListEnd, ListFails, Try, NextStage, Parse,
       SaveBegin, Save, SaveFails, SetStatus

\* The calls of the requests stay what they were let in with.
LEMMA StepMay ==
  ASSUME PlaceInv, StoreInv, NEW t \in Threads, Arrive(t) \/ Serve(t),
         NEW u \in Threads
  PROVE  MayOK(u)'
<1>0. MayOK(u) /\ (MayOK(u)' <=> MayCall(req'[u]))
  BY DEF StoreInv, MayOK, MayCall
<1>1. CASE u # t
  <2>1. req'[u] = req[u]
    BY <1>1, StepSame DEF Same
  <2> QED BY <1>0, <2>1 DEF MayOK
<1>2. CASE u = t /\ Arrive(t)
  BY <1>0, <1>2, ArriveFacts
<1>3. CASE u = t /\ Serve(t)
  <2>1. req' = req
    BY <1>3, ServeKeeps
  <2> QED BY <1>0, <2>1 DEF MayOK
<1> QED BY <1>1, <1>2, <1>3

\* Only a save changes what the store holds.
LEMMA StepStore ==
  ASSUME NEW t \in Threads, Arrive(t) \/ Serve(t), ~Save(t)
  PROVE  /\ UNCHANGED <<heap, slot, order, made, by>>
         /\ SetStatus(t) \/ UNCHANGED store
<1>1. CASE Arrive(t)
  BY <1>1 DEF Arrive, parse_event, register_parser, Lifecycle, get_parser,
              replay_events, list_parsers, Refuse, Begin, store
<1>2. CASE Serve(t)
  BY <1>2 DEF Serve, ListBegin, ListStep, ListNext, ListEnd, ListFails, Try, NextStage,
              Parse, SaveBegin, SaveFails, SetStatus, store
<1> QED BY <1>1, <1>2

\* A save of an object that may be there leaves the store sound.
LEMMA SaveSound ==
  ASSUME PlaceInv, StoreSound, NEW d \in Definitions, NEW n \in Nat, Len(heap) <= n,
         NEW x \in 1..n, NEW lack \in {"tenant", "id", "version"}, Stored(d, x, lack),
         Grows, heap'[x] = d, d.sound,
         by'[x].system \/ by'[x].tenant \in {d.owner, Global}
  PROVE  StoreSound'
<1>0. StoreTypes /\ Len(heap) \in Nat
  BY TypesSplit DEF PlaceInv, StoreTypes
<1>1. /\ \A o \in Owners, i \in Ids, v \in Versions :
           \/ slot'[o][i][v] = 0
           \/ o = d.owner /\ i = d.id /\ v = d.version /\ slot'[o][i][v] = x
           \/ /\ slot'[o][i][v] = slot[o][i][v]
              /\ i \in Range(order[o]) => i \in Range(order'[o])
      /\ d.id \in Range(order[d.owner]) \/ ~Holds(d.owner, d.id)
           => d.id \in Range(order'[d.owner])
  <2>1. \A o \in Owners, i \in Ids, v \in Versions :
           \/ slot'[o][i][v] = 0
           \/ o = d.owner /\ i = d.id /\ v = d.version /\ slot'[o][i][v] = x
           \/ /\ slot'[o][i][v] = slot[o][i][v]
              /\ i \in Range(order[o]) => i \in Range(order'[o])
    BY <1>0, StoredFacts
  <2>2. d.id \in Range(order[d.owner]) \/ ~Holds(d.owner, d.id)
           => d.id \in Range(order'[d.owner])
    BY <1>0, StoredFacts
  <2> QED BY <2>1, <2>2
<1>2. d.owner \in Owners /\ d.id \in Ids
  BY ParserAssumption
<1>3. d.id \in Range(order'[d.owner])
  <2>1. CASE Holds(d.owner, d.id)
    <3>1. PICK v \in Versions : slot[d.owner][d.id][v] # 0
      BY <2>1 DEF Holds
    <3>2. PICK k \in DOMAIN order[d.owner] : order[d.owner][k] = d.id
      BY <1>2, <3>1 DEF StoreSound
    <3>3. d.id \in Range(order[d.owner])
      BY <3>2 DEF Range
    <3> QED BY <1>1, <3>3
  <2> QED BY <1>1, <2>1
<1> SUFFICES ASSUME NEW o \in Owners, NEW i \in Ids, NEW v \in Versions,
                    slot'[o][i][v] # 0, NEW y, y = slot'[o][i][v]
             PROVE  /\ heap'[y].owner = o /\ heap'[y].id = i /\ heap'[y].version = v
                    /\ heap'[y].sound
                    /\ by'[y].system \/ by'[y].tenant \in {o, Global}
                    /\ \E k \in DOMAIN order'[o] : order'[o][k] = i
  BY DEF StoreSound
<1>4. CASE o = d.owner /\ i = d.id /\ v = d.version /\ y = x
  <2>1. \E k \in DOMAIN order'[o] : order'[o][k] = i
    BY <1>3, <1>4 DEF Range
  <2> QED BY <1>4, <2>1
<1>5. CASE y = slot[o][i][v] /\ (i \in Range(order[o]) => i \in Range(order'[o]))
  <2>1. y = slot[o][i][v] /\ y # 0
    BY <1>5
  <2>2. slot[o][i][v] \in 0..Len(heap)
    BY <1>0 DEF StoreTypes
  <2>3. y \in Objects
    BY <1>0, <2>1, <2>2 DEF Objects
  <2>4. heap'[y] = heap[y] /\ by'[y] = by[y]
    BY <2>3 DEF Grows
  <2>5. /\ heap[y].owner = o /\ heap[y].id = i /\ heap[y].version = v
        /\ heap[y].sound
        /\ by[y].system \/ by[y].tenant \in {o, Global}
        /\ \E k \in DOMAIN order[o] : order[o][k] = i
    BY <2>1 DEF StoreSound
  <2>6. i \in Range(order'[o])
    BY <1>5, <2>5 DEF Range
  <2>7. \E k \in DOMAIN order'[o] : order'[o][k] = i
    BY <2>6 DEF Range
  <2> QED BY <2>4, <2>5, <2>7
<1> QED BY <1>1, <1>4, <1>5

\* Every step of a request keeps the store sound.
LEMMA StepSound ==
  ASSUME PlaceInv, StoreInv, NEW t \in Threads, Arrive(t) \/ Serve(t)
  PROVE  StoreInv'
<1>1. \A u \in Threads : MayOK(u)'
  BY StepMay
<1>0. Len(heap) \in Nat /\ ObjectsSound /\ StoreSound
  BY DEF PlaceInv, ParserTypeOK, RequestTypes, StoreTypes, StoreInv
<1>2. CASE ~Save(t)
  <2>1. UNCHANGED <<heap, slot, order, by>>
    BY <1>2, StepStore
  <2>2. ObjectsSound' /\ StoreSound'
    BY <1>0, <2>1 DEF ObjectsSound, StoreSound, Objects
  <2> QED BY <1>1, <2>2 DEF StoreInv
<1>3. CASE Save(t) /\ req[t].kind = "register"
  <2> DEFINE d == req[t].definition
             n == Len(heap) + 1
  <2>1. /\ d \in Definitions /\ n \in Nat /\ heap'[n] = d /\ by'[n] = req[t].caller
        /\ Objects' = Objects \cup {n} /\ n \in 1..n /\ Grows /\ Stored(d, n, pc[t])
        /\ pc[t] \in {"tenant", "id", "version"}
    BY <1>3, NewObject
  <2>2. MayRegister(req[t].caller, d)
    BY <1>3 DEF StoreInv, MayOK, MayCall
  <2>3. d.sound /\ (by'[n].system \/ by'[n].tenant \in {d.owner, Global})
    BY <2>1, <2>2 DEF MayRegister
  <2>4. Len(heap) <= n
    BY <1>0
  <2> HIDE DEF d, n
  <2>5. StoreSound'
    BY <1>0, <2>1, <2>3, <2>4, SaveSound
  <2>6. ObjectsSound'
    BY <1>0, <2>1, <2>3 DEF ObjectsSound, Grows
  <2> QED BY <1>1, <2>5, <2>6 DEF StoreInv
<1>4. CASE Save(t) /\ req[t].kind # "register"
  <2> DEFINE x == chosen[t]
             d == heap[x]
  <2>1. /\ x \in Objects /\ d \in Definitions /\ Stored(d, x, pc[t])
        /\ pc[t] \in {"tenant", "id", "version"}
        /\ UNCHANGED <<heap, active, by>>
    BY <1>4, OldObject
  <2>2. heap'[x] = d /\ by'[x] = by[x] /\ Grows
    BY <2>1, StepGrows
  <2>3. d.sound /\ (by'[x].system \/ by'[x].tenant \in {d.owner, Global})
    BY <1>0, <2>1, <2>2 DEF ObjectsSound
  <2>4. x \in 1..Len(heap) /\ Len(heap) <= Len(heap)
    BY <1>0, <2>1 DEF Objects
  <2>6. ObjectsSound'
    BY <1>0, <2>1 DEF ObjectsSound, Objects
  <2> HIDE DEF x, d
  <2>5. StoreSound'
    BY <1>0, <2>1, <2>2, <2>3, <2>4, SaveSound
  <2> QED BY <1>1, <2>5, <2>6 DEF StoreInv
<1> QED BY <1>2, <1>3, <1>4

\* Every step keeps the second invariant.
LEMMA NextSound ==
  ASSUME PlaceInv, StoreInv, [ParserNext]_parserVars
  PROVE  StoreInv'
<1>1. CASE ParserNext
  BY <1>1, StepSound DEF ParserNext
<1>2. CASE UNCHANGED parserVars
  <2>1. UNCHANGED <<heap, active, slot, order, by, req>>
    BY <1>2 DEF parserVars, store, request
  <2>2. ObjectsSound' /\ StoreSound'
    BY <2>1 DEF StoreInv, ObjectsSound, StoreSound, Objects
  <2>3. \A u \in Threads : MayOK(u)'
    BY <2>1 DEF StoreInv, MayOK, MayCall
  <2> QED BY <2>2, <2>3 DEF StoreInv
<1> QED BY <1>1, <1>2

\* Every object of M2's registry was made by someone who may own it, and what is
\* stored is stored under its own owner, id and version.
THEOREM StoreInvariant == ParserSpec => []StoreInv
BY InitSound, NextSound, PlaceInvariant, PTL DEF ParserSpec

\* What the store holds was loaded or registered by someone who may, whatever
\* registrations and lifecycle changes overlap.
THEOREM StoreStaysSound == ParserSpec => []StoreSound
<1>1. StoreInv => StoreSound
  BY DEF StoreInv
<1> QED BY <1>1, StoreInvariant, PTL
-----------------------------------------------------------------------------
(* M2: isolation. *)

\* The tenant a request works for.
TenantOf(r) == IF r.kind = "parse" THEN r.event.tenant ELSE r.caller.tenant

\* The object in use is the tenant's or the baseline's.
OwnChosen(t) == chosen[t] > 0 => heap[chosen[t]].owner \in {Global, TenantOf(req[t])}

\* An answer about an event is for a caller who may act for its tenant.
OwnAnswer(t) == Parsed(t) => \/ req[t].caller.system \/ req[t].caller.tenant = Global
                             \/ req[t].event.tenant = req[t].caller.tenant

\* So are the parsers listed and the candidates left.
ListOwn(t) ==
  req[t].kind = "parse" /\ pc[t] \in {"iterate", "try"} =>
    \A k \in DOMAIN todo[t] :
      heap[todo[t][k]].owner \in {Global, req[t].event.tenant}

\* No request uses or answers what is not its tenant's.
Own(t) == OwnChosen(t) /\ ListOwn(t) /\ OwnAnswer(t)

\* The third invariant.
OwnInv == \A t \in Threads : Own(t)

\* At start-up nothing is chosen or answered.
LEMMA InitOwn ==
  ASSUME ParserInit
  PROVE  OwnInv
BY DEF ParserInit, OwnInv, Own, OwnChosen, ListOwn, OwnAnswer, Parsed

\* The requests that do not take the step: their objects stay what they are.
LEMMA SameOwn ==
  ASSUME PlaceInv, Grows, NEW u \in Threads, Own(u), Same(u)
  PROVE  Own(u)'
<1>0. /\ Len(heap) \in Nat /\ chosen[u] \in {BuiltIn} \cup 0..Len(heap)
      /\ todo[u] \in Seq(Objects)
  BY DEF PlaceInv, ParserTypeOK, RequestTypes, StoreTypes
<1>1. OwnChosen(u)'
  <2>1. chosen[u] > 0 => heap'[chosen[u]] = heap[chosen[u]]
    BY <1>0 DEF Grows, Objects, BuiltIn
  <2> QED BY <2>1 DEF Own, OwnChosen, Same, TenantOf
<1>2. ListOwn(u)'
  <2>1. \A k \in DOMAIN todo[u] : heap'[todo[u][k]] = heap[todo[u][k]]
    BY <1>0 DEF Grows
  <2> QED BY <2>1 DEF Own, ListOwn, Same
<1>3. OwnAnswer(u)'
  BY DEF Own, OwnAnswer, Same, Parsed
<1> QED BY <1>1, <1>2, <1>3 DEF Own

\* An arrival finds its object in the tenant's store or the baseline's.
LEMMA ArriveOwn ==
  ASSUME PlaceInv, StoreInv, NEW t \in Threads, Own(t), Arrive(t)
  PROVE  Own(t)'
<1>1. UNCHANGED heap /\ pc'[t] \notin {"iterate", "try"} /\ ~Parsed(t)'
  BY ArriveFacts DEF store
<1>2. ListOwn(t)' /\ OwnAnswer(t)'
  BY <1>1 DEF ListOwn, OwnAnswer
<1>3. CASE chosen'[t] = 0
  BY <1>2, <1>3 DEF Own, OwnChosen
<1>4. CASE chosen'[t] # 0
  <2>1. PICK i \in Ids, v \in 0..MaxVersion :
          /\ chosen'[t] = Get(i, v, req'[t].caller.tenant)
          /\ req'[t].kind # "parse" /\ req'[t].caller \in Callers
    BY <1>4, ArriveFacts
  <2> DEFINE c == req'[t].caller.tenant
             x == chosen'[t]
  <2>2. c \in Owners /\ Global \in Owners
    BY <2>1, ParserAssumption DEF Owners
  <2>3. PICK o \in {c, Global}, w \in Versions : x = slot[o][i][w]
    <3> HIDE DEF c
    <3>1. Get(i, v, c) # 0 =>
            \E o \in {c, Global} : \E w \in Versions : Get(i, v, c) = slot[o][i][w]
      BY <2>2, GetFacts DEF PlaceInv
    <3> QED BY <2>1, <1>4, <3>1 DEF c
  <2>4. heap[x].owner = o
    BY <1>4, <2>2, <2>3 DEF StoreInv, StoreSound
  <2>5. OwnChosen(t)'
    BY <1>1, <2>1, <2>3, <2>4 DEF OwnChosen, TenantOf
  <2> QED BY <1>2, <2>5 DEF Own
<1> QED BY <1>3, <1>4

\* A running request, action by action.
LEMMA ServeOwn ==
  ASSUME PlaceInv, StoreInv, NEW t \in Threads, Own(t), Serve(t), Grows
  PROVE  Own(t)'
<1>0. /\ RequestTypes /\ PlaceOK(t) /\ Len(heap) \in Nat /\ StoreSound /\ MayOK(t)
      /\ todo[t] \in Seq(Objects)
  BY TypesSplit DEF PlaceInv, Places, ParserTypeOK, RequestTypes, StoreTypes, StoreInv
<1>1. req' = req /\ req[t] \in Requests
  BY <1>0, ServeKeeps DEF RequestTypes
<1>2. \A x \in Objects : heap'[x] = heap[x]
  BY DEF Grows
<1>3. chosen'[t] = chosen[t] => OwnChosen(t)'
  <2>1. chosen[t] \in {BuiltIn} \cup 0..Len(heap)
    BY <1>0 DEF RequestTypes
  <2>2. chosen[t] > 0 => heap'[chosen[t]] = heap[chosen[t]]
    BY <1>0, <1>2, <2>1 DEF Objects, BuiltIn
  <2> QED BY <1>1, <2>2 DEF Own, OwnChosen, TenantOf
<1>4. /\ req[t].kind # "parse" => ListOwn(t)'
      /\ pc'[t] \notin {"iterate", "try"} => ListOwn(t)'
      /\ todo'[t] = <<>> => ListOwn(t)'
  BY <1>1 DEF ListOwn
<1>5. result'[t] = result[t] => OwnAnswer(t)'
  BY <1>1 DEF Own, OwnAnswer, Parsed
<1>6. result'[t] \notin {"PARSED", "FAILED", "UNPARSED"} => OwnAnswer(t)'
  BY DEF OwnAnswer, Parsed
<1>7. req[t].kind = "parse" => OwnAnswer(t)'
  BY <1>0, <1>1 DEF MayOK, MayCall, OwnAnswer
<1>8. CASE ListBegin(t)
  <2>1. chosen'[t] = chosen[t] /\ todo'[t] = <<>> /\ result'[t] = result[t]
    BY <1>0, <1>8 DEF RequestTypes, ListBegin
  <2> QED BY <1>3, <1>4, <1>5, <2>1 DEF Own
<1>17. CASE ListStep(t)
  <2>1. /\ chosen'[t] = chosen[t] /\ result'[t] = result[t] /\ UNCHANGED heap
        /\ pc[t] = "iterate"
    BY <1>17 DEF ListStep, store
  <2>2. CASE req[t].kind # "parse"
    BY <1>3, <1>4, <1>5, <2>1, <2>2 DEF Own
  <2>3. CASE req[t].kind = "parse"
    <3> DEFINE i == Head(walk[t].left)
               x == Get(i, 0, Shelf(t))
    <3>1. \A k \in DOMAIN todo[t] : heap[todo[t][k]].owner \in {Global, req[t].event.tenant}
      BY <2>1, <2>3 DEF Own, ListOwn
    <3>2. CASE todo'[t] = todo[t]
      <4>1. ListOwn(t)'
        BY <1>1, <2>1, <3>1, <3>2 DEF ListOwn
      <4> QED BY <1>3, <1>5, <2>1, <4>1 DEF Own
    <3>3. CASE todo'[t] # todo[t]
      <4>1. /\ i \in Ids /\ Shelf(t) \in Owners /\ x \in active
            /\ todo'[t] = Append(todo[t], x)
        BY <1>17, <3>3, ListStepFacts
      <4>2. Shelf(t) \in {Global, req[t].event.tenant}
        <5>1. /\ walk[t].shelf \in 1..Len(Dict(t)) /\ Shelf(t) = Dict(t)[walk[t].shelf]
              /\ req[t] \in Requests
          BY <2>1, WalkFacts
        <5>2. stage[t] \in 1..3
          BY <1>0, <2>3 DEF PlaceOK
        <5> DEFINE o == req[t].event.tenant
        <5>3. Dict(t) \in {<<>>, <<o>>, <<Global>>, <<o, Global>>}
          BY <2>3, <5>1, <5>2, DictionariesFacts DEF Dict
        <5> HIDE DEF o
        <5>4. \A k \in 1..Len(Dict(t)) : Dict(t)[k] \in {Global, o}
          BY <5>3
        <5> QED BY <5>1, <5>4 DEF o
      <4>3. x \in Objects /\ heap[x].owner \in {Shelf(t), Global}
        <5> HIDE DEF i
        <5>1. ParserTypeOK
          BY DEF PlaceInv
        <5> QED BY <1>0, <4>1, <5>1, ReadFacts
      <4> HIDE DEF x
      <4>4. \A k \in DOMAIN todo'[t] :
              heap[todo'[t][k]].owner \in {Global, req[t].event.tenant}
        <5>1. \A k \in DOMAIN Append(todo[t], x) :
                Append(todo[t], x)[k] = x \/ \E j \in DOMAIN todo[t] :
                                               Append(todo[t], x)[k] = todo[t][j]
          BY <1>0, <4>3
        <5> QED BY <3>1, <4>1, <4>2, <4>3, <5>1
      <4>5. ListOwn(t)'
        BY <1>1, <2>1, <4>4 DEF ListOwn
      <4> QED BY <1>3, <1>5, <2>1, <4>5 DEF Own
    <3> QED BY <3>2, <3>3
  <2> QED BY <2>2, <2>3
<1>18. CASE ListNext(t)
  <2>1. /\ chosen'[t] = chosen[t] /\ result'[t] = result[t] /\ UNCHANGED heap
        /\ todo'[t] = todo[t] /\ pc'[t] = pc[t]
    BY <1>18 DEF ListNext, store
  <2>2. ListOwn(t)'
    BY <1>1, <2>1 DEF Own, ListOwn
  <2> QED BY <1>3, <1>5, <2>1, <2>2 DEF Own
<1>9. CASE ListEnd(t) /\ req[t].kind = "parse"
  <2> DEFINE C == ByPriority(todo[t])
  <2>1. /\ chosen'[t] = chosen[t] /\ pc'[t] = "try" /\ result'[t] = result[t]
        /\ todo'[t] = C /\ UNCHANGED heap /\ pc[t] = "iterate"
    BY <1>0, <1>9 DEF RequestTypes, ListEnd, store
  <2>2. Range(C) = Range(todo[t])
    BY <1>0, PriorityFacts DEF PlaceInv
  <2>3. \A x \in Range(todo[t]) : heap[x].owner \in {Global, req[t].event.tenant}
    BY <1>9, <2>1 DEF Own, ListOwn, Range
  <2> HIDE DEF C
  <2>4. ListOwn(t)'
    BY <1>1, <2>1, <2>2, <2>3 DEF ListOwn, Range
  <2> QED BY <1>3, <1>5, <2>1, <2>4 DEF Own
<1>10. CASE ListEnd(t) /\ req[t].kind # "parse"
  <2>1. chosen'[t] = chosen[t] /\ pc'[t] = "done" /\ result'[t] = "ok"
    BY <1>0, <1>10 DEF RequestTypes, ListEnd, Answer
  <2> QED BY <1>3, <1>4, <1>6, <2>1 DEF Own
<1>11. CASE ListFails(t)
  <2>1. chosen'[t] = chosen[t] /\ pc'[t] = "done" /\ result'[t] = "error"
    BY <1>0, <1>11 DEF RequestTypes, ListFails, Answer
  <2> QED BY <1>3, <1>4, <1>6, <2>1 DEF Own
<1>12. CASE Try(t)
  <2>1. todo[t] # <<>> /\ result'[t] = result[t] /\ UNCHANGED heap /\ pc[t] = "try"
    BY <1>0, <1>12 DEF RequestTypes, Try, store
  <2>2. req[t].kind = "parse"
    BY <1>0, <2>1 DEF PlaceOK
  <2>3. \A k \in 1..Len(todo[t]) : heap[todo[t][k]].owner \in {Global, req[t].event.tenant}
    BY <1>0, <2>1, <2>2 DEF Own, ListOwn
  <2>4. CASE Takes(stage[t], Head(todo[t]), req[t].event)
    <3>1. chosen'[t] = Head(todo[t]) /\ pc'[t] = "parse"
      BY <1>0, <1>12, <2>4 DEF RequestTypes, Try
    <3>2. Head(todo[t]) = todo[t][1] /\ 1 \in 1..Len(todo[t])
      BY <1>0, <2>1
    <3>3. OwnChosen(t)'
      BY <1>1, <2>1, <2>2, <2>3, <3>1, <3>2 DEF OwnChosen, TenantOf
    <3> QED BY <1>4, <1>5, <2>1, <3>1, <3>3 DEF Own
  <2>5. CASE ~Takes(stage[t], Head(todo[t]), req[t].event)
    <3>1. chosen'[t] = chosen[t] /\ todo'[t] = Tail(todo[t])
      BY <1>0, <1>12, <2>5 DEF RequestTypes, Try
    <3>2. \A k \in DOMAIN Tail(todo[t]) : /\ k + 1 \in 1..Len(todo[t])
                                         /\ Tail(todo[t])[k] = todo[t][k + 1]
      BY <1>0, <2>1
    <3>3. ListOwn(t)'
      BY <1>1, <2>1, <2>3, <3>1, <3>2 DEF ListOwn
    <3> QED BY <1>3, <1>5, <2>1, <3>1, <3>3 DEF Own
  <2> QED BY <2>4, <2>5
<1>13. CASE NextStage(t)
  <2>1. req[t].kind = "parse"
    BY <1>0, <1>13 DEF PlaceOK, NextStage
  <2>2. /\ pc'[t] \notin {"iterate", "try"}
        /\ chosen'[t] = chosen[t] \/ chosen'[t] = BuiltIn
    BY <1>0, <1>13 DEF RequestTypes, NextStage, Answer
  <2>3. chosen'[t] = BuiltIn => OwnChosen(t)'
    BY DEF OwnChosen, BuiltIn
  <2> QED BY <1>3, <1>4, <1>7, <2>1, <2>2, <2>3 DEF Own
<1>14. CASE Parse(t)
  <2>1. pc'[t] = "done" /\ chosen'[t] = chosen[t]
    BY <1>0, <1>14 DEF RequestTypes, Parse, Answer
  <2>2. OwnAnswer(t)'
    <3>1. CASE req[t].kind = "parse"
      BY <1>7, <3>1
    <3>2. CASE req[t].kind # "parse"
      <4>1. req[t].kind = "replay"
        BY <1>0, <1>14, <3>2 DEF PlaceOK, Parse
      <4>2. \/ result'[t] \in {"missing", "skipped"}
            \/ req[t].caller.tenant = Global
            \/ req[t].event.tenant = req[t].caller.tenant
        BY <1>0, <1>14, <4>1 DEF RequestTypes, Parse, Answer
      <4> QED BY <1>1, <4>2 DEF OwnAnswer, Parsed
    <3> QED BY <3>1, <3>2
  <2> QED BY <1>3, <1>4, <2>1, <2>2 DEF Own
<1>15. CASE Save(t)
  <2>1. chosen'[t] = chosen[t] /\ pc'[t] = "list" /\ result'[t] = result[t]
    BY <1>0, <1>15 DEF RequestTypes, Save
  <2> QED BY <1>3, <1>4, <1>5, <2>1 DEF Own
<1>16. CASE SetStatus(t)
  <2>1. /\ chosen'[t] = chosen[t] /\ pc'[t] \in {"done", "save"}
        /\ result'[t] \in {"missing", result[t]}
    BY <1>0, <1>16 DEF RequestTypes, SetStatus, Answer
  <2> QED BY <1>3, <1>4, <1>5, <1>6, <2>1 DEF Own
<1>19. CASE SaveBegin(t)
  <2>1. /\ chosen'[t] = chosen[t] /\ pc'[t] \in {"tenant", "id", "version"}
        /\ result'[t] = result[t]
    BY <1>0, <1>19 DEF RequestTypes, SaveBegin, Lacks
  <2> QED BY <1>3, <1>4, <1>5, <2>1 DEF Own
<1>20. CASE SaveFails(t)
  <2>1. chosen'[t] = chosen[t] /\ pc'[t] = "done" /\ result'[t] = "error"
    BY <1>0, <1>20 DEF RequestTypes, SaveFails, Answer
  <2> QED BY <1>3, <1>4, <1>6, <2>1 DEF Own
<1> QED BY <1>8, <1>9, <1>10, <1>11, <1>12, <1>13, <1>14, <1>15, <1>16, <1>17, <1>18,
           <1>19, <1>20 DEF Serve

\* Every step keeps the third invariant.
LEMMA NextOwn ==
  ASSUME PlaceInv, StoreInv, OwnInv, [ParserNext]_parserVars
  PROVE  OwnInv'
<1>1. CASE ParserNext
  <2>1. PICK t \in Threads : Arrive(t) \/ Serve(t)
    BY <1>1 DEF ParserNext
  <2>2. Grows
    BY <2>1, StepGrows
  <2>3. ASSUME NEW u \in Threads PROVE Own(u)'
    <3>0. Own(u)
      BY DEF OwnInv
    <3>1. CASE u # t
      BY <2>1, <2>2, <3>0, <3>1, StepSame, SameOwn
    <3>2. CASE u = t
      BY <2>1, <2>2, <3>0, <3>2, ArriveOwn, ServeOwn
    <3> QED BY <3>1, <3>2
  <2> QED BY <2>3 DEF OwnInv
<1>2. CASE UNCHANGED parserVars
  <2>1. UNCHANGED <<heap, pc, req, todo, chosen, result>>
    BY <1>2 DEF parserVars, store, request
  <2> QED BY <2>1 DEF OwnInv, Own, OwnChosen, OwnAnswer, ListOwn, Parsed, TenantOf
<1> QED BY <1>1, <1>2

\* Whatever is registered, stored again or disabled meanwhile, requests keep to
\* their tenant.
THEOREM OwnInvariant == ParserSpec => []OwnInv
BY InitOwn, NextOwn, PlaceInvariant, StoreInvariant, PTL DEF ParserSpec

\* No request sees or runs a definition of another tenant, and no answer is about
\* an event its caller may not act for.
THEOREM RequestsIsolated == ParserSpec => []Isolated
<1>1. OwnInv => Isolated
  BY DEF OwnInv, Own, OwnChosen, OwnAnswer, Isolated, TenantOf
<1> QED BY <1>1, OwnInvariant, PTL
-----------------------------------------------------------------------------
(* M2: the best available parser. *)

\* The candidates left are in the order of their priority.
Sorted(t) == pc[t] = "try" => InPriority(todo[t])

\* list_for_tenant still comes to x.
Ahead(t, x) ==
  \/ Dict(t)[walk[t].shelf] = heap[x].owner /\ heap[x].id \in Range(walk[t].left)
  \/ walk[t].shelf < Len(Dict(t)) /\ Dict(t)[Len(Dict(t))] = heap[x].owner

\* x is listed or will be, and nothing else is listed under its id.
Listed(t, x) ==
  /\ \A k \in DOMAIN todo[t] : heap[todo[t][k]].id = heap[x].id => todo[t][k] = x
  /\ x \in Range(todo[t]) \/ Ahead(t, x)

\* While find_parser runs, what was eligible all along is eligible now, belongs to
\* no step that is over, and in the step at hand is listed or will be, and then is
\* among the candidates left.
Watched(t) ==
  \A e \in Envelopes :
    req[t].kind = "parse" /\ req[t].event = e /\ pc[t] \in Waiting =>
      /\ steady[t] \subseteq Eligible(e)
      /\ \A p \in steady[t] :
           /\ stage[t] <= p[1]
           /\ pc[t] = "iterate" /\ stage[t] = p[1] => Listed(t, p[2])
           /\ pc[t] = "try" /\ stage[t] = p[1] => p[2] \in Range(todo[t])

\* BestAvailable, for one request.
Best(t) ==
  req[t].kind = "parse" /\ (pc[t] = "parse" \/ Parsed(t)) =>
    \A p \in steady[t] :
      /\ StepOf(t) <= p[1]
      /\ StepOf(t) = p[1] => heap[chosen[t]].priority <= heap[p[2]].priority

\* The fourth invariant.
WatchInv == \A t \in Threads : Sorted(t) /\ Watched(t) /\ Best(t)

\* At start-up nothing is watched.
LEMMA InitWatch ==
  ASSUME ParserInit
  PROVE  WatchInv
BY DEF ParserInit, WatchInv, Sorted, Watched, Best, Waiting, Parsed

\* Eligibility depends on the store alone.
LEMMA EligibleStays ==
  ASSUME UNCHANGED <<heap, active, slot>>, NEW e
  PROVE  Eligible(e)' = Eligible(e)
BY DEF Eligible, EligibleAt, Live, Matches, CanParse

\* What a running find_parser is held to is only ever narrowed.
LEMMA KeepsWatch ==
  ASSUME RequestTypes', Observe, NEW u \in Threads, Watched(u), NEW e \in Envelopes,
         req[u].kind = "parse", req[u].event = e, req'[u] = req[u],
         pc[u] \in Waiting, pc'[u] \in Waiting
  PROVE  steady'[u] \subseteq Eligible(e)' /\ steady'[u] \subseteq steady[u]
<1>1. pc[u] # "idle" /\ Watching(u)
  BY DEF Waiting, Watching
<1>2. /\ UNCHANGED store => steady'[u] = steady[u]
      /\ ~UNCHANGED store => steady'[u] = Eligible(e)' \cap steady[u]
  BY <1>1, ObserveFacts
<1>3. steady[u] \subseteq Eligible(e)
  BY DEF Watched
<1>4. CASE UNCHANGED store
  <2>1. Eligible(e)' = Eligible(e)
    BY <1>4, EligibleStays DEF store
  <2> QED BY <1>2, <1>3, <1>4, <2>1
<1>5. CASE ~UNCHANGED store
  BY <1>2, <1>5
<1> QED BY <1>4, <1>5

\* Types of what is compared.
LEMMA WatchTypes ==
  ASSUME PlaceInv, NEW u \in Threads
  PROVE  /\ Len(heap) \in Nat /\ stage[u] \in 0..4 /\ todo[u] \in Seq(Objects)
         /\ chosen[u] \in {BuiltIn} \cup 0..Len(heap)
         /\ \A p \in steady[u] : p[1] \in 1..3 /\ p[2] \in Objects
         /\ \A x \in Objects : heap[x] \in Definitions /\ heap[x].priority \in Nat
<1>1. \A x \in Objects : heap[x] \in Definitions
  BY DEF PlaceInv, ParserTypeOK, RequestTypes, StoreTypes, Objects
<1>2. \A x \in Objects : heap[x].priority \in Nat
  BY <1>1, ParserAssumption
<1>3. steady[u] \subseteq (1..3) \X Objects
  BY DEF PlaceInv, ParserTypeOK, RequestTypes, StoreTypes
<1>4. \A p \in steady[u] : p[1] \in 1..3 /\ p[2] \in Objects
  BY <1>3
<1>5. /\ Len(heap) \in Nat /\ stage[u] \in 0..4 /\ todo[u] \in Seq(Objects)
      /\ chosen[u] \in {BuiltIn} \cup 0..Len(heap)
  BY DEF PlaceInv, ParserTypeOK, RequestTypes, StoreTypes
<1> QED BY <1>1, <1>2, <1>4, <1>5

\* Once the choice is made it stays the best.
LEMMA KeepsBest ==
  ASSUME PlaceInv, RequestTypes', Observe, Grows, NEW u \in Threads, Best(u),
         req'[u] = req[u], stage'[u] = stage[u], chosen'[u] = chosen[u],
         pc[u] = "parse" \/ Parsed(u), pc'[u] \in {"parse", "done"}
  PROVE  Best(u)'
<1>0. /\ Len(heap) \in Nat /\ chosen[u] \in {BuiltIn} \cup 0..Len(heap)
      /\ \A p \in steady[u] : p[1] \in 1..3 /\ p[2] \in Objects
  BY WatchTypes
<1>1. steady'[u] = steady[u]
  BY ObserveFacts DEF Watching
<1> SUFFICES ASSUME req[u].kind = "parse", NEW p \in steady[u]
             PROVE  /\ StepOf(u)' <= p[1]
                    /\ StepOf(u)' = p[1] =>
                         heap'[chosen[u]].priority <= heap'[p[2]].priority
  BY <1>1 DEF Best
<1>2. StepOf(u)' = StepOf(u)
  BY DEF StepOf
<1>3. /\ StepOf(u) <= p[1]
      /\ StepOf(u) = p[1] => heap[chosen[u]].priority <= heap[p[2]].priority
  BY DEF Best
<1>4. heap'[p[2]] = heap[p[2]]
  BY <1>0 DEF Grows
<1>5. ASSUME StepOf(u) = p[1] PROVE heap'[chosen[u]] = heap[chosen[u]]
  <2>1. chosen[u] # BuiltIn /\ chosen[u] # 0
    BY <1>0, <1>5 DEF StepOf
  <2>2. chosen[u] \in Objects
    BY <1>0, <2>1 DEF Objects
  <2> QED BY <2>2 DEF Grows
<1> QED BY <1>2, <1>3, <1>4, <1>5

\* The requests that do not take the step.
LEMMA SameWatch ==
  ASSUME PlaceInv, RequestTypes', Observe, Grows, NEW u \in Threads, Same(u),
         Sorted(u), Watched(u), Best(u)
  PROVE  Sorted(u)' /\ Watched(u)' /\ Best(u)'
<1>0. PlaceOK(u) /\ todo[u] \in Seq(Objects)
  BY WatchTypes DEF PlaceInv, Places
<1>1. Sorted(u)'
  <2>1. \A k \in DOMAIN todo[u] : heap'[todo[u][k]] = heap[todo[u][k]]
    BY <1>0 DEF Grows
  <2> QED BY <2>1 DEF Sorted, InPriority, Same
<1>2. Watched(u)'
  <2>1. ASSUME NEW e \in Envelopes, req[u].kind = "parse", req[u].event = e,
               pc[u] \in Waiting
        PROVE  steady'[u] \subseteq Eligible(e)' /\ steady'[u] \subseteq steady[u]
    BY <2>1, KeepsWatch DEF Same
  <2>2. ASSUME NEW p \in steady[u], pc[u] = "iterate", Listed(u, p[2])
        PROVE  Listed(u, p[2])'
    <3>1. heap'[p[2]] = heap[p[2]]
      BY WatchTypes DEF Grows
    <3>2. Dict(u)' = Dict(u)
      BY DictStays DEF Same
    <3>3. \A k \in DOMAIN todo[u] : heap'[todo[u][k]] = heap[todo[u][k]]
      BY <1>0 DEF Grows
    <3>4. Ahead(u, p[2]) => Ahead(u, p[2])'
      BY <3>1, <3>2 DEF Ahead, Same, Range
    <3> QED BY <2>2, <3>1, <3>3, <3>4 DEF Listed, Same, Range
  <2> HIDE DEF Waiting
  <2> SUFFICES ASSUME NEW e \in Envelopes, req[u].kind = "parse", req[u].event = e,
                      pc[u] \in Waiting
               PROVE  /\ steady'[u] \subseteq Eligible(e)'
                      /\ \A p \in steady'[u] :
                           /\ stage[u] <= p[1]
                           /\ pc[u] = "iterate" /\ stage[u] = p[1] => Listed(u, p[2])'
                           /\ pc[u] = "try" /\ stage[u] = p[1] => p[2] \in Range(todo[u])
    BY DEF Watched, Same, Waiting, Range
  <2>3. steady'[u] \subseteq Eligible(e)' /\ steady'[u] \subseteq steady[u]
    BY <2>1
  <2> QED BY <2>2, <2>3 DEF Watched
<1>3. Best(u)'
  <2>1. CASE pc[u] = "parse" \/ Parsed(u)
    <3>1. pc[u] \in {"parse", "done"}
      BY <1>0, <2>1 DEF PlaceOK, Parsed
    <3> QED BY <2>1, <3>1, KeepsBest DEF Same
  <2>2. CASE ~(pc[u] = "parse" \/ Parsed(u))
    BY <2>2 DEF Best, Same, Parsed
  <2> QED BY <2>1, <2>2
<1> QED BY <1>1, <1>2, <1>3

\* A request that begins watches what is eligible at that moment.
LEMMA ArriveWatch ==
  ASSUME PlaceInv, RequestTypes', Observe, NEW t \in Threads, Arrive(t)
  PROVE  Sorted(t)' /\ Watched(t)' /\ Best(t)'
<1>1. /\ pc[t] = "idle" /\ pc'[t] \notin {"iterate", "try"} /\ ~Parsed(t)'
      /\ req'[t].kind = "parse" => pc'[t] = "list" /\ stage'[t] = 1
  BY ArriveFacts
<1>2. Sorted(t)' /\ Best(t)'
  BY <1>1 DEF Sorted, Best
<1>3. ASSUME NEW e \in Envelopes, req'[t].kind = "parse", req'[t].event = e
      PROVE  /\ steady'[t] \subseteq Eligible(e)'
             /\ \A p \in steady'[t] : stage'[t] <= p[1]
  <2>1. Watching(t)
    BY <1>1, <1>3 DEF Watching
  <2>2. steady'[t] = Eligible(e)'
    BY <1>1, <1>3, <2>1, ObserveFacts
  <2>3. \A p \in Eligible(e)' : p[1] \in 1..3
    BY DEF Eligible
  <2> QED BY <1>1, <1>3, <2>2, <2>3
<1>4. Watched(t)'
  BY <1>1, <1>3 DEF Watched
<1> QED BY <1>2, <1>4

\* An eligible parser is in a dictionary that the step of find_parser lists: the
\* last one or, at step 3, the tenant's.
LEMMA EligibleShelf ==
  ASSUME PlaceInv, NEW t \in Threads, pc[t] \in {"list", "iterate"},
         req[t].kind = "parse", NEW x, EligibleAt(stage[t], x, req[t].event)
  PROVE  /\ stage[t] \in 1..3 /\ req[t].event \in Envelopes
         /\ \/ Len(Dict(t)) = 1 /\ Dict(t)[1] = heap[x].owner
            \/ /\ Len(Dict(t)) = 2 /\ stage[t] = 3
               /\ Dict(t)[1] = req[t].event.tenant /\ Dict(t)[2] = Global
               /\ req[t].event.tenant # Global
               /\ heap[x].owner \in {req[t].event.tenant, Global}
<1> DEFINE e == req[t].event
           o == e.tenant
<1>1. req[t] \in Requests /\ PlaceOK(t)
  BY WalkFacts DEF PlaceInv, Places
<1>2. stage[t] \in 1..3 /\ e \in Envelopes
  BY <1>1, RequestFacts DEF PlaceOK
<1>3. \/ stage[t] = 1 /\ heap[x].owner = o /\ o # Global
      \/ stage[t] = 2 /\ heap[x].owner = Global /\ Class(e).vendor # "Unknown"
      \/ stage[t] = 3 /\ heap[x].owner \in {o, Global}
  BY DEF EligibleAt
<1>4. \/ stage[t] = 1 /\ o # Global /\ Dict(t) = <<o>>
      \/ stage[t] = 1 /\ o = Global /\ Dict(t) = <<>>
      \/ stage[t] = 2 /\ Class(e).vendor = "Unknown" /\ Dict(t) = <<>>
      \/ stage[t] = 2 /\ Dict(t) = <<Global>>
      \/ stage[t] = 3 /\ o # Global /\ Dict(t) = <<o, Global>>
      \/ stage[t] = 3 /\ o = Global /\ Dict(t) = <<Global>>
  BY <1>1, <1>2, DictionariesFacts DEF Dict
<1> HIDE DEF o, e
<1>5. CASE stage[t] = 1
  <2>1. Dict(t) = <<o>> /\ heap[x].owner = o
    BY <1>3, <1>4, <1>5
  <2> QED BY <1>2, <2>1 DEF e
<1>6. CASE stage[t] = 2
  <2>1. Dict(t) = <<Global>> /\ heap[x].owner = Global
    BY <1>3, <1>4, <1>6
  <2> QED BY <1>2, <2>1 DEF e
<1>7. CASE stage[t] = 3 /\ o = Global
  <2>1. Dict(t) = <<Global>> /\ heap[x].owner = Global
    BY <1>3, <1>4, <1>7
  <2> QED BY <1>2, <2>1 DEF e
<1>8. CASE stage[t] = 3 /\ o # Global
  <2>1. Dict(t) = <<o, Global>> /\ heap[x].owner \in {o, Global}
    BY <1>3, <1>4, <1>8
  <2>2. Len(Dict(t)) = 2 /\ Dict(t)[1] = o /\ Dict(t)[2] = Global
    BY <2>1
  <2> QED BY <1>2, <1>8, <2>1, <2>2 DEF e, o
<1> QED BY <1>2, <1>5, <1>6, <1>7, <1>8

\* The first iteration begins: every eligible parser is ahead.
LEMMA BeginWatched ==
  ASSUME PlaceInv, StoreInv, NEW t \in Threads, ListBegin(t), req[t].kind = "parse",
         NEW x \in active, EligibleAt(stage[t], x, req[t].event)
  PROVE  pc'[t] = "iterate" /\ Listed(t, x)'
<1>0. /\ pc[t] = "list" /\ UNCHANGED <<heap, req, stage>> /\ todo'[t] = <<>>
  BY DEF ListBegin, store, PlaceInv, ParserTypeOK, RequestTypes
<1>1. Dict(t)' = Dict(t)
  BY <1>0, DictStays
<1>2. /\ stage[t] \in 1..3 /\ req[t].event \in Envelopes
      /\ \/ Len(Dict(t)) = 1 /\ Dict(t)[1] = heap[x].owner
         \/ /\ Len(Dict(t)) = 2
            /\ Dict(t)[1] = req[t].event.tenant /\ Dict(t)[2] = Global
            /\ heap[x].owner \in {req[t].event.tenant, Global}
  BY <1>0, EligibleShelf
<1>3. Dict(t) # <<>> /\ 1 \in 1..Len(Dict(t))
  BY <1>2
<1>4. Opened(t, 1) /\ pc'[t] = "iterate"
  BY <1>3 DEF ListBegin, Dict, PlaceInv, ParserTypeOK, RequestTypes
<1>5. walk'[t].shelf = 1 /\ walk'[t].left = order[Dict(t)[1]]
  BY <1>0, <1>3, <1>4, OpenedFacts
<1>6. heap[x].id \in Range(order[heap[x].owner])
  BY <1>2, EligibleRead DEF PlaceInv, StoreInv
<1>7. \/ Dict(t)[1] = heap[x].owner
      \/ 1 < Len(Dict(t)) /\ Dict(t)[Len(Dict(t))] = heap[x].owner
  BY <1>2
<1>8. Ahead(t, x)'
  BY <1>0, <1>1, <1>5, <1>6, <1>7 DEF Ahead, Range
<1> QED BY <1>0, <1>4, <1>8 DEF Listed

\* An id is read: what is ahead is listed in its turn, under its own id alone.
LEMMA StepWatch ==
  ASSUME PlaceInv, StoreInv, NEW t \in Threads, ListStep(t), req[t].kind = "parse",
         NEW x \in active, EligibleAt(stage[t], x, req[t].event), Listed(t, x)
  PROVE  Listed(t, x)'
<1> DEFINE i == Head(walk[t].left)
           y == Get(i, 0, Shelf(t))
           seen == walk[t].shelf = 2
                     /\ \E k \in DOMAIN todo[t] : heap[todo[t][k]].id = i
           d == heap[x]
           o == req[t].event.tenant
<1>0. pc[t] = "iterate" /\ UNCHANGED <<heap, req, stage>>
  BY DEF ListStep, store
<1>1. /\ i \in Ids /\ Shelf(t) \in Owners /\ walk[t].left # <<>>
      /\ walk[t].left \in Seq(Ids)
      /\ walk'[t].shelf = walk[t].shelf /\ walk'[t].left = Tail(walk[t].left)
      /\ \/ todo'[t] = todo[t] /\ (y \notin active \/ seen)
         \/ /\ y \in active /\ ~seen /\ y \in Objects
            /\ todo'[t] = Append(todo[t], y)
  BY ListStepFacts
<1>2. Dict(t)' = Dict(t)
  BY <1>0, DictStays
<1>3. /\ stage[t] \in 1..3 /\ req[t].event \in Envelopes
      /\ \/ Len(Dict(t)) = 1 /\ Dict(t)[1] = d.owner
         \/ /\ Len(Dict(t)) = 2 /\ stage[t] = 3
            /\ Dict(t)[1] = o /\ Dict(t)[2] = Global /\ o # Global
            /\ d.owner \in {o, Global}
  BY <1>0, EligibleShelf
<1>4. /\ Get(d.id, 0, d.owner) = x
      /\ stage[t] = 3 /\ d.owner # o /\ Get(d.id, 0, o) \in active
           => Get(d.id, 0, o) = x
  BY <1>3, EligibleRead DEF PlaceInv, StoreInv
<1>5. walk[t].shelf \in 1..Len(Dict(t)) /\ Shelf(t) = Dict(t)[walk[t].shelf]
  BY <1>0, WalkFacts
<1>6. /\ \A k \in DOMAIN todo[t] : heap[todo[t][k]].id = d.id => todo[t][k] = x
      /\ x \in Range(todo[t]) \/ Ahead(t, x)
  BY DEF Listed
<1>7. todo[t] \in Seq(Objects) /\ ParserTypeOK /\ StoreSound
  BY WatchTypes DEF PlaceInv, StoreInv
<1>8. Ahead(t, x) <=>
        \/ Shelf(t) = d.owner /\ d.id \in Range(walk[t].left)
        \/ walk[t].shelf < Len(Dict(t)) /\ Dict(t)[Len(Dict(t))] = d.owner
  BY <1>5 DEF Ahead
<1>9. Ahead(t, x)' <=>
        \/ Shelf(t) = d.owner /\ d.id \in Range(Tail(walk[t].left))
        \/ walk[t].shelf < Len(Dict(t)) /\ Dict(t)[Len(Dict(t))] = d.owner
  BY <1>0, <1>1, <1>2, <1>5 DEF Ahead, Range
<1>10. ASSUME d.id \in Range(walk[t].left), d.id # i
       PROVE  d.id \in Range(Tail(walk[t].left))
  <2> DEFINE l == walk[t].left
  <2>1. l \in Seq(Ids) /\ l # <<>> /\ i = l[1]
    BY <1>1
  <2> HIDE DEF l
  <2>2. PICK k \in DOMAIN l : l[k] = d.id
    BY <1>10 DEF Range, l
  <2>3. k \in 1..Len(l) /\ k # 1
    BY <1>10, <2>1, <2>2
  <2>4. k - 1 \in DOMAIN Tail(l) /\ Tail(l)[k - 1] = l[k]
    BY <2>1, <2>3
  <2> QED BY <2>2, <2>4 DEF Range, l
<1>11. ASSUME y \in active, heap[y].id = d.id, ~seen PROVE y = x
  <2> HIDE DEF i, o
  <2>1. i = d.id
    BY <1>1, <1>7, <1>11, ReadFacts
  <2>2. CASE Shelf(t) = d.owner
    BY <1>4, <2>1, <2>2
  <2>3. CASE Shelf(t) # d.owner /\ Shelf(t) = o /\ stage[t] = 3
    BY <1>4, <1>11, <2>1, <2>3
  <2>4. CASE Shelf(t) # d.owner /\ ~(Shelf(t) = o /\ stage[t] = 3)
    <3>1. walk[t].shelf = 2 /\ Len(Dict(t)) = 2
      BY <1>3, <1>5, <2>4
    <3>2. x \in Range(todo[t])
      BY <1>6, <1>8, <2>4, <3>1
    <3>3. seen
      BY <2>1, <3>1, <3>2 DEF Range
    <3> QED BY <1>11, <3>3
  <2> QED BY <2>2, <2>3, <2>4
<1>12. ASSUME Shelf(t) = d.owner, i = d.id PROVE x \in Range(todo'[t])
  <2>1. y = x
    BY <1>4, <1>12
  <2>2. CASE seen
    <3>1. x \in Range(todo[t])
      BY <1>6, <1>12, <2>2 DEF Range
    <3> QED BY <1>1, <2>2, <3>1
  <2>3. CASE ~seen
    <3> HIDE DEF y, seen
    <3>1. todo'[t] = Append(todo[t], x) /\ x \in Objects
      BY <1>1, <2>1, <2>3
    <3> QED BY <1>7, <3>1, AppendRange
  <2> QED BY <2>2, <2>3
<1> HIDE DEF y, seen, o
<1>13. \A z \in Range(todo'[t]) : heap[z].id = d.id => z = x
  <2>1. CASE todo'[t] = todo[t]
    BY <1>6, <2>1 DEF Range
  <2>2. CASE y \in active /\ ~seen /\ y \in Objects /\ todo'[t] = Append(todo[t], y)
    <3>1. Range(todo'[t]) = Range(todo[t]) \cup {y}
      BY <1>7, <2>2, AppendRange
    <3> QED BY <1>6, <1>11, <2>2, <3>1 DEF Range
  <2> QED BY <1>1, <2>1, <2>2
<1>14. Range(todo[t]) \subseteq Range(todo'[t])
  <2>1. CASE todo'[t] = todo[t]
    BY <2>1
  <2>2. CASE y \in Objects /\ todo'[t] = Append(todo[t], y)
    BY <1>7, <2>2, AppendRange
  <2> QED BY <1>1, <2>1, <2>2
<1>15. x \in Range(todo'[t]) \/ Ahead(t, x)'
  <2>1. CASE x \in Range(todo[t])
    BY <1>14, <2>1
  <2>2. CASE walk[t].shelf < Len(Dict(t)) /\ Dict(t)[Len(Dict(t))] = d.owner
    BY <1>9, <2>2
  <2>3. CASE Shelf(t) = d.owner /\ d.id \in Range(walk[t].left)
    <3> HIDE DEF i
    <3>1. CASE d.id = i
      BY <1>12, <2>3, <3>1
    <3>2. CASE d.id # i
      BY <1>9, <1>10, <2>3, <3>2
    <3> QED BY <3>1, <3>2
  <2> QED BY <1>6, <1>8, <2>1, <2>2, <2>3
<1> QED BY <1>0, <1>13, <1>15 DEF Listed, Range

\* The tenant's dictionary is done: what is not listed is in the baseline's.
LEMMA NextWatched ==
  ASSUME PlaceInv, StoreInv, NEW t \in Threads, ListNext(t), req[t].kind = "parse",
         NEW x \in active, EligibleAt(stage[t], x, req[t].event), Listed(t, x)
  PROVE  Listed(t, x)'
<1>0. /\ pc[t] = "iterate" /\ UNCHANGED <<heap, req, stage>> /\ todo' = todo
      /\ walk[t].left = <<>> /\ walk[t].shelf < Len(Dict(t))
      /\ Opened(t, walk[t].shelf + 1)
  BY DEF ListNext, store, Dict
<1>1. Dict(t)' = Dict(t)
  BY <1>0, DictStays
<1>2. walk[t].shelf \in 1..Len(Dict(t)) /\ Len(Dict(t)) \in 0..2
  BY <1>0, WalkFacts
<1>3. walk[t].shelf + 1 = Len(Dict(t)) /\ Len(Dict(t)) \in 1..Len(Dict(t))
  <2>1. PICK m \in 0..2 : m = Len(Dict(t))
    BY <1>2
  <2>2. PICK k \in 1..m : k = walk[t].shelf /\ k < m
    BY <1>0, <1>2, <2>1
  <2>3. k + 1 = m /\ m \in 1..m
    BY <2>1, <2>2
  <2> QED BY <2>1, <2>2, <2>3
<1>4. /\ walk'[t].shelf = Len(Dict(t))
      /\ walk'[t].left = order[Dict(t)[Len(Dict(t))]]
  BY <1>0, <1>3, OpenedFacts
<1>5. stage[t] \in 1..3 /\ req[t].event \in Envelopes
  BY <1>0, EligibleShelf
<1>6. heap[x].id \in Range(order[heap[x].owner])
  BY <1>5, EligibleRead DEF PlaceInv, StoreInv
<1>7. Ahead(t, x) => Dict(t)[Len(Dict(t))] = heap[x].owner
  BY <1>0 DEF Ahead, Range
<1>8. Ahead(t, x) => Ahead(t, x)'
  BY <1>0, <1>1, <1>4, <1>6, <1>7 DEF Ahead, Range
<1> QED BY <1>0, <1>8 DEF Listed, Range

\* A step of find_parser itself.
LEMMA ServeWatch ==
  ASSUME PlaceInv, StoreInv, RequestTypes', Places', Observe, Grows,
         NEW t \in Threads, Serve(t), Sorted(t), Watched(t), Best(t)
  PROVE  Sorted(t)' /\ Watched(t)' /\ Best(t)'
<1>0. /\ RequestTypes /\ PlaceOK(t) /\ PlaceOK(t)' /\ StoreSound /\ ParserTypeOK
      /\ req[t] \in Requests
  BY TypesSplit DEF PlaceInv, Places, StoreInv, RequestTypes
<1>1. req' = req
  BY ServeKeeps
<1>2. CASE req[t].kind # "parse"
  <2>1. pc'[t] # "try"
    BY <1>0, <1>1, <1>2 DEF PlaceOK
  <2> QED BY <1>1, <1>2, <2>1 DEF Sorted, Watched, Best
<1>3. CASE req[t].kind = "parse"
  <2> DEFINE e == req[t].event
  <2>0. e \in Envelopes /\ stage[t] \in 1..3
    BY <1>0, <1>3, RequestFacts DEF PlaceOK
  <2> HIDE DEF e
  <2>t. /\ Len(heap) \in Nat /\ todo[t] \in Seq(Objects)
        /\ \A p \in steady[t] : p[1] \in 1..3 /\ p[2] \in Objects
        /\ \A x \in Objects : heap[x].priority \in Nat
    BY WatchTypes
  <2>w. pc[t] \in Waiting =>
          /\ steady[t] \subseteq Eligible(e)
          /\ \A p \in steady[t] :
               /\ stage[t] <= p[1]
               /\ pc[t] = "iterate" /\ stage[t] = p[1] => Listed(t, p[2])
               /\ pc[t] = "try" /\ stage[t] = p[1] => p[2] \in Range(todo[t])
    BY <1>3, <2>0 DEF Watched, e
  <2>k. pc[t] \in Waiting /\ pc'[t] \in Waiting =>
          steady'[t] \subseteq Eligible(e)' /\ steady'[t] \subseteq steady[t]
    BY <1>1, <1>3, <2>0, KeepsWatch DEF e
  <2>n. pc'[t] \in {"parse", "done"} => steady'[t] = steady[t]
    BY ObserveFacts DEF Watching
  <2>s. pc'[t] # "try" => Sorted(t)'
    BY DEF Sorted
  <2>v. pc'[t] \notin Waiting => Watched(t)'
    BY DEF Watched, Waiting
  <2>b. pc'[t] \in Waiting => Best(t)'
    BY <1>0 DEF Best, Waiting, PlaceOK, Parsed
  <2>q. ASSUME pc'[t] \in Waiting, steady'[t] \subseteq Eligible(e)',
               \A p \in steady'[t] :
                 /\ stage'[t] <= p[1]
                 /\ pc'[t] = "iterate" /\ stage'[t] = p[1] => Listed(t, p[2])'
                 /\ pc'[t] = "try" /\ stage'[t] = p[1] => p[2] \in Range(todo'[t])
        PROVE  Watched(t)'
    BY <1>1, <2>q DEF Watched, e, Range
  <2>g. ASSUME NEW p \in steady[t], pc[t] \in Waiting, stage[t] = p[1]
        PROVE  p[2] \in active /\ EligibleAt(stage[t], p[2], e)
    <3>1. p \in Eligible(e)
      BY <2>w, <2>g
    <3>2. p[2] \in active /\ EligibleAt(p[1], p[2], e)
      BY <3>1 DEF Eligible
    <3> QED BY <2>g, <3>2
  <2>1. CASE ListBegin(t)
    <3>1. /\ pc[t] = "list" /\ pc'[t] \in {"iterate", "try"} /\ UNCHANGED <<heap, req, stage>>
          /\ todo'[t] = <<>>
      BY <1>0, <2>1 DEF RequestTypes, ListBegin, store
    <3>2. pc[t] \in Waiting /\ pc'[t] \in Waiting
      BY <3>1 DEF Waiting
    <3>3. ASSUME NEW p \in steady[t], stage[t] = p[1]
          PROVE  pc'[t] = "iterate" /\ Listed(t, p[2])'
      <4>1. p[2] \in active /\ EligibleAt(stage[t], p[2], e)
        BY <2>g, <3>1, <3>2, <3>3
      <4> QED BY <1>3, <2>1, <4>1, BeginWatched DEF e
    <3>4. Watched(t)'
      BY <2>w, <2>k, <2>q, <3>1, <3>2, <3>3
    <3>5. Sorted(t)'
      BY <3>1 DEF Sorted, InPriority
    <3> QED BY <2>b, <3>2, <3>4, <3>5
  <2>2. CASE ListStep(t)
    <3>1. /\ pc[t] = "iterate" /\ pc'[t] = "iterate" /\ UNCHANGED <<heap, req, stage>>
      BY <2>2 DEF ListStep, store
    <3>2. pc[t] \in Waiting /\ pc'[t] \in Waiting
      BY <3>1 DEF Waiting
    <3>3. ASSUME NEW p \in steady[t], stage[t] = p[1] PROVE Listed(t, p[2])'
      <4>1. Listed(t, p[2]) /\ p[2] \in active /\ EligibleAt(stage[t], p[2], e)
        BY <2>w, <2>g, <3>1, <3>2, <3>3
      <4> DEFINE x == p[2]
      <4> HIDE DEF x
      <4> QED BY <1>3, <2>2, <4>1, StepWatch DEF x, e
    <3>4. Watched(t)'
      BY <2>w, <2>k, <2>q, <3>1, <3>2, <3>3
    <3> QED BY <2>s, <2>b, <3>1, <3>2, <3>4
  <2>8. CASE ListNext(t)
    <3>1. /\ pc[t] = "iterate" /\ pc'[t] = "iterate" /\ UNCHANGED <<heap, req, stage>>
      BY <2>8 DEF ListNext, store
    <3>2. pc[t] \in Waiting /\ pc'[t] \in Waiting
      BY <3>1 DEF Waiting
    <3>3. ASSUME NEW p \in steady[t], stage[t] = p[1] PROVE Listed(t, p[2])'
      <4>1. Listed(t, p[2]) /\ p[2] \in active /\ EligibleAt(stage[t], p[2], e)
        BY <2>w, <2>g, <3>1, <3>2, <3>3
      <4> QED BY <1>3, <2>8, <4>1, NextWatched DEF e
    <3>4. Watched(t)'
      BY <2>w, <2>k, <2>q, <3>1, <3>2, <3>3
    <3> QED BY <2>s, <2>b, <3>1, <3>2, <3>4
  <2>9. CASE ListEnd(t)
    <3> DEFINE C == ByPriority(todo[t])
    <3>1. /\ pc[t] = "iterate" /\ pc'[t] = "try" /\ stage'[t] = stage[t]
          /\ todo'[t] = C /\ UNCHANGED heap
          /\ walk[t].left = <<>> /\ walk[t].shelf = Len(Dict(t))
      BY <1>0, <1>3, <2>9 DEF RequestTypes, ListEnd, store, Dict
    <3>2. pc[t] \in Waiting /\ pc'[t] \in Waiting
      BY <3>1 DEF Waiting
    <3>3. InPriority(C) /\ Range(C) = Range(todo[t])
      BY <1>0, <2>t, PriorityFacts DEF InPriority
    <3> HIDE DEF C
    <3>4. Sorted(t)'
      BY <3>1, <3>3 DEF Sorted, InPriority
    <3>5. \A p \in steady[t] : stage[t] = p[1] => p[2] \in Range(C)
      <4> SUFFICES ASSUME NEW p \in steady[t], stage[t] = p[1] PROVE p[2] \in Range(C)
        OBVIOUS
      <4>1. Listed(t, p[2])
        BY <2>w, <3>1, <3>2
      <4>2. Len(Dict(t)) \in Nat /\ Range(walk[t].left) = {}
        BY <3>1, WalkFacts DEF Range
      <4>3. ~Ahead(t, p[2])
        BY <3>1, <4>2 DEF Ahead
      <4> QED BY <3>3, <4>1, <4>3 DEF Listed
    <3>6. Watched(t)'
      BY <2>w, <2>k, <2>q, <3>1, <3>2, <3>5
    <3> QED BY <2>b, <3>2, <3>4, <3>6
  <2>3. CASE ListFails(t)
    <3>1. pc'[t] = "done" /\ result'[t] = "error"
      BY <1>0, <2>3 DEF RequestTypes, ListFails, Answer
    <3> QED BY <2>s, <2>v, <3>1 DEF Waiting, Best, Parsed
  <2>4. CASE Try(t)
    <3> DEFINE h == Head(todo[t])
    <3>1. /\ pc[t] = "try" /\ todo[t] # <<>> /\ stage'[t] = stage[t] /\ UNCHANGED heap
          /\ chosen[t] = 0
      BY <1>0, <1>3, <2>4 DEF RequestTypes, Try, store, PlaceOK, Waiting
    <3>2. pc[t] \in Waiting
      BY <3>1 DEF Waiting
    <3>3. h = todo[t][1] /\ 1 \in DOMAIN todo[t] /\ h \in Objects
      BY <2>t, <3>1
    <3>4. CASE Takes(stage[t], h, e)
      <4>1. chosen'[t] = h /\ pc'[t] = "parse"
        BY <1>0, <2>4, <3>4 DEF RequestTypes, Try, e
      <4>2. StepOf(t)' = stage[t]
        BY <2>t, <3>1, <3>3, <4>1 DEF StepOf, Objects, BuiltIn
      <4>3. ASSUME NEW p \in steady[t], stage[t] = p[1]
            PROVE  heap[h].priority <= heap[p[2]].priority
        <5>1. PICK k \in DOMAIN todo[t] : todo[t][k] = p[2]
          BY <2>w, <3>1, <3>2, <4>3 DEF Range
        <5>2. 1 <= k
          BY <2>t
        <5> QED BY <3>1, <3>3, <5>1, <5>2 DEF Sorted, InPriority
      <4>4. \A p \in steady[t] : stage[t] <= p[1]
        BY <2>w, <3>2
      <4>5. steady'[t] = steady[t]
        BY <2>n, <4>1
      <4> HIDE DEF h
      <4>6. Best(t)'
        BY <3>1, <4>1, <4>2, <4>3, <4>4, <4>5 DEF Best
      <4> QED BY <2>s, <2>v, <4>1, <4>6 DEF Waiting
    <3>5. CASE ~Takes(stage[t], h, e)
      <4>1. todo'[t] = Tail(todo[t]) /\ pc'[t] = "try"
        BY <1>0, <2>4, <3>1, <3>5 DEF RequestTypes, Try, e
      <4>2. pc'[t] \in Waiting
        BY <4>1 DEF Waiting
      <4>3. /\ DOMAIN Tail(todo[t]) = 1..Len(todo[t]) - 1 /\ Len(todo[t]) \in Nat
            /\ DOMAIN todo[t] = 1..Len(todo[t])
            /\ \A k \in 1..Len(todo[t]) - 1 : Tail(todo[t])[k] = todo[t][k + 1]
        BY <2>t, <3>1
      <4>4. Sorted(t)'
        <5>1. \A i, j \in DOMAIN Tail(todo[t]) : i <= j =>
                heap[Tail(todo[t])[i]].priority <= heap[Tail(todo[t])[j]].priority
          <6> SUFFICES ASSUME NEW i \in DOMAIN Tail(todo[t]), NEW j \in DOMAIN Tail(todo[t]),
                              i <= j
                       PROVE  heap[Tail(todo[t])[i]].priority <= heap[Tail(todo[t])[j]].priority
            OBVIOUS
          <6>1. /\ i + 1 \in DOMAIN todo[t] /\ j + 1 \in DOMAIN todo[t] /\ i + 1 <= j + 1
                /\ Tail(todo[t])[i] = todo[t][i + 1] /\ Tail(todo[t])[j] = todo[t][j + 1]
            BY <4>3
          <6> QED BY <3>1, <6>1 DEF Sorted, InPriority
        <5> QED BY <3>1, <4>1, <5>1 DEF Sorted, InPriority
      <4>5. \A p \in steady[t] : stage[t] = p[1] => p[2] \in Range(Tail(todo[t]))
        <5> SUFFICES ASSUME NEW p \in steady[t], stage[t] = p[1]
                     PROVE  p[2] \in Range(Tail(todo[t]))
          OBVIOUS
        <5>1. PICK k \in DOMAIN todo[t] : todo[t][k] = p[2]
          BY <2>w, <3>1, <3>2 DEF Range
        <5>2. p \in Eligible(e)
          BY <2>w, <3>2
        <5>3. p[2] \in active /\ EligibleAt(p[1], p[2], e)
          BY <5>2 DEF Eligible
        <5>4. Takes(stage[t], p[2], e)
          BY <5>3 DEF EligibleAt, Takes
        <5>5. p[2] # h
          BY <3>5, <5>4
        <5>6. k # 1
          BY <3>3, <5>1, <5>5
        <5>7. k - 1 \in 1..Len(todo[t]) - 1 /\ (k - 1) + 1 = k
          BY <4>3, <5>1, <5>6
        <5>8. k - 1 \in DOMAIN Tail(todo[t]) /\ Tail(todo[t])[k - 1] = p[2]
          BY <4>3, <5>1, <5>7
        <5> QED BY <5>8 DEF Range
      <4>6. Watched(t)'
        BY <2>w, <2>k, <2>q, <3>1, <3>2, <4>1, <4>2, <4>5
      <4> QED BY <2>b, <4>2, <4>4, <4>6
    <3> QED BY <3>4, <3>5
  <2>5. CASE NextStage(t)
    <3>1. pc[t] = "try" /\ todo[t] = <<>> /\ chosen[t] = 0
      BY <1>0, <1>3, <2>5 DEF NextStage, PlaceOK, Waiting
    <3>2. pc[t] \in Waiting /\ Range(todo[t]) = {}
      BY <3>1 DEF Waiting, Range
    <3>3. \A p \in steady[t] : stage[t] + 1 <= p[1]
      <4> SUFFICES ASSUME NEW p \in steady[t] PROVE stage[t] + 1 <= p[1]
        OBVIOUS
      <4>1. stage[t] <= p[1] /\ stage[t] # p[1] /\ p[1] \in 1..3
        BY <2>w, <2>t, <3>1, <3>2
      <4> QED BY <2>0, <4>1
    <3>4. CASE stage[t] < 3
      <4>1. pc'[t] = "list" /\ stage'[t] = stage[t] + 1
        BY <1>0, <2>5, <3>4 DEF RequestTypes, NextStage
      <4>2. pc'[t] \in Waiting
        BY <4>1 DEF Waiting
      <4>3. Watched(t)'
        BY <2>k, <2>q, <3>2, <3>3, <4>1, <4>2
      <4> QED BY <2>s, <2>b, <4>1, <4>2, <4>3
    <3>5. CASE ~(stage[t] < 3)
      <4>1. pc'[t] \in {"parse", "done"}
        BY <1>0, <2>5, <3>5 DEF RequestTypes, NextStage, Answer
      <4>2. steady[t] = {}
        <5>1. \A p \in steady[t] : FALSE
          BY <2>0, <2>t, <3>3, <3>5
        <5> QED BY <5>1
      <4>3. steady'[t] = {}
        BY <2>n, <4>1, <4>2
      <4>4. Best(t)'
        BY <4>3 DEF Best
      <4> QED BY <2>s, <2>v, <4>1, <4>4 DEF Waiting
    <3> QED BY <3>4, <3>5
  <2>6. CASE Parse(t)
    <3>1. /\ pc[t] = "parse" /\ pc'[t] = "done" /\ chosen'[t] = chosen[t]
          /\ stage'[t] = stage[t] /\ req'[t] = req[t]
      BY <1>0, <2>6 DEF RequestTypes, Parse, Answer
    <3>2. Best(t)'
      BY <3>1, KeepsBest
    <3> QED BY <2>s, <2>v, <3>1, <3>2 DEF Waiting
  <2>7. CASE SaveBegin(t) \/ Save(t) \/ SaveFails(t) \/ SetStatus(t)
    BY <1>0, <1>3, <2>7 DEF PlaceOK, SaveBegin, Save, SaveFails, SetStatus, Changes, Saving
  <2> QED BY <2>1, <2>2, <2>3, <2>4, <2>5, <2>6, <2>7, <2>8, <2>9 DEF Serve
<1> QED BY <1>2, <1>3

\* Every step keeps the fourth invariant.
LEMMA NextWatch ==
  ASSUME PlaceInv, StoreInv, WatchInv, [ParserNext]_parserVars
  PROVE  WatchInv'
<1>1. CASE ParserNext
  <2>1. PICK t \in Threads : Arrive(t) \/ Serve(t)
    BY <1>1 DEF ParserNext
  <2>2. Grows /\ RequestTypes' /\ Places' /\ Observe
    BY <1>1, <2>1, StepGrows, StepPlace DEF ParserNext, StepKeeps
  <2>3. ASSUME NEW u \in Threads PROVE Sorted(u)' /\ Watched(u)' /\ Best(u)'
    <3>0. Sorted(u) /\ Watched(u) /\ Best(u)
      BY DEF WatchInv
    <3>1. CASE u # t
      <4>1. Same(u)
        BY <2>1, <3>1, StepSame
      <4> QED BY <2>2, <3>0, <4>1, SameWatch
    <3>2. CASE u = t
      BY <2>1, <2>2, <3>0, <3>2, ArriveWatch, ServeWatch
    <3> QED BY <3>1, <3>2
  <2> QED BY <2>3 DEF WatchInv
<1>2. CASE UNCHANGED parserVars
  <2>1. /\ UNCHANGED <<heap, active, slot, pc, req, stage, walk, todo, chosen, result>>
        /\ UNCHANGED steady
    BY <1>2 DEF parserVars, store, request
  <2>2. \A u \in Threads : Sorted(u)' /\ Best(u)'
    BY <2>1 DEF WatchInv, Sorted, InPriority, Best, StepOf, Parsed
  <2>3. \A e \in Envelopes : Eligible(e)' = Eligible(e)
    BY <2>1, EligibleStays
  <2>4. \A u \in Threads : Watched(u)'
    <3>1. \A u \in Threads : Dict(u)' = Dict(u)
      BY <2>1, DictStays
    <3> QED BY <2>1, <2>3, <3>1 DEF WatchInv, Watched, Waiting, Listed, Ahead, Range
  <2> QED BY <2>2, <2>4 DEF WatchInv
<1> QED BY <1>1, <1>2

\* find_parser never passes a parser that was eligible all along.
THEOREM WatchInvariant == ParserSpec => []WatchInv
BY InitWatch, NextWatch, PlaceInvariant, StoreInvariant, PTL DEF ParserSpec

\* An event is never answered from a later step than one at which a parser was
\* eligible for it all along, nor by a parser of lower priority of the same step.
THEOREM BestIsTaken == ParserSpec => []BestAvailable
<1>1. WatchInv => BestAvailable
  BY DEF WatchInv, Best, BestAvailable
<1> QED BY <1>1, WatchInvariant, PTL
=============================================================================
