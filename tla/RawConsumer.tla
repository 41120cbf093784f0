---------------------------- MODULE RawConsumer -----------------------------
(***************************************************************************)
(* The M1 -> M2 bridge: one consumer of topic ulpf.raw that suppresses     *)
(* duplicates with an in-memory tracker, posts each event to M2 with       *)
(* retries and commits its position after a message it processed.          *)
(*                                                                         *)
(* The runner builds a new consumer, with a new tracker, whenever the      *)
(* consumer dies; a rebalance keeps the consumer and its tracker but takes *)
(* the position back to the committed offset.                              *)
(***************************************************************************)
EXTENDS Naturals, Sequences, FiniteSets

CONSTANTS
  Events,      \* raw event ids
  Malformed,   \* events the envelope adapter raises on
  Rejected,    \* events M2 always answers with an error status
  Capacity,    \* IdempotencyTracker.capacity
  MaxRetries,  \* RetryPolicy.max_retries
  MaxLog,      \* bound: records on the topic
  MaxFaults    \* bound: failed calls, expiries, rebalances and restarts

ASSUME ConsumerAssumption ==
  /\ Malformed \subseteq Events
  /\ Rejected \subseteq Events
  /\ Capacity \in Nat \ {0}
  /\ MaxRetries \in Nat
  /\ MaxLog \in Nat
  /\ MaxFaults \in Nat

VARIABLES
  log,        \* the records of topic ulpf.raw
  committed,  \* the group's committed offset: records 1..committed are done
  position,   \* records 1..position were handed out by getone
  cpc,        \* "poll", "dispatch", "answered" or "commit"
  current,    \* offset of the message being processed
  attempt,    \* execute_async's attempt
  cache,      \* the tracker's keys, least recently used first
  stale,      \* cached keys older than ttl_seconds
  results,    \* cached keys whose entry holds M2's answer
  handled,    \* handled[e]: how often M2 parsed e
  acked,      \* events for which M2's success was received
  givenUp,    \* events whose processing raised out of process_raw_message
  faults

tracker == <<cache, stale, results>>
cvars == <<committed, position, cpc, current, attempt, tracker, handled, acked,
           givenUp, faults>>
vars == <<log, cvars>>

Cached == {cache[i] : i \in DOMAIN cache}
Msg == log[current]

TypeOK == /\ log \in Seq(Events) /\ Len(log) <= MaxLog
          /\ committed \in Nat /\ position \in Nat
          /\ committed <= Len(log) /\ position <= Len(log)
          /\ cpc \in {"poll", "dispatch", "answered", "commit"}
          /\ current \in Nat
          /\ cpc # "poll" => current \in 1..Len(log)
          /\ attempt \in 0..MaxRetries
          /\ cache \in Seq(Events) /\ Len(cache) <= Capacity
          /\ stale \in SUBSET Events /\ results \in SUBSET Events
          /\ handled \in [Events -> Nat]
          /\ acked \in SUBSET Events /\ givenUp \in SUBSET Events
          /\ faults \in 0..MaxFaults

Init == /\ log = <<>>
        /\ committed = 0 /\ position = 0
        /\ cpc = "poll" /\ current = 0 /\ attempt = 0
        /\ cache = <<>> /\ stale = {} /\ results = {}
        /\ handled = [e \in Events |-> 0]
        /\ acked = {} /\ givenUp = {}
        /\ faults = 0

Fault == faults < MaxFaults /\ faults' = faults + 1
NoFault == UNCHANGED faults
-----------------------------------------------------------------------------
(* IdempotencyTracker. *)

Known(e) == e \in Cached \ stale

Drop(s, i) == [j \in 1..(Len(s) - 1) |-> IF j < i THEN s[j] ELSE s[j + 1]]

Without(e) == IF e \in Cached
              THEN Drop(cache, CHOOSE i \in DOMAIN cache : cache[i] = e)
              ELSE cache

\* An expired entry is deleted first; a full cache then loses its oldest key.
Room(e) == LET left == Without(e)
           IN IF Len(left) >= Capacity THEN Drop(left, 1) ELSE left

\* Mutant: new keys are never recorded.
CheckAndSetForgetting(e, hasResult) == UNCHANGED tracker

\* check_and_set(e) with or without a result: a known key only moves to the
\* end; anything else is recorded as new.
CheckAndSet(e, hasResult) ==
  \/ /\ Known(e)
     /\ cache' = Append(Without(e), e)
     /\ UNCHANGED <<stale, results>>
  \/ /\ ~Known(e)
     /\ cache' = Append(Room(e), e)
     /\ stale' = stale \ {e}
     /\ results' = IF hasResult THEN results \cup {e} ELSE results \ {e}

\* An entry grows older than ttl_seconds.
Expire(e) ==
  /\ Fault
  /\ Known(e)
  /\ stale' = stale \cup {e}
  /\ UNCHANGED <<log, committed, position, cpc, current, attempt, cache,
                 results, handled, acked, givenUp>>
-----------------------------------------------------------------------------
(* start and process_raw_message. *)

\* M1 appends a record; the topic may hold an event more than once.
Produce(e) ==
  /\ Len(log) < MaxLog
  /\ log' = Append(log, e)
  /\ UNCHANGED cvars

\* Where a fetched message goes after the idempotency check and the adapter.
Next_pc(e) == IF Known(e) THEN "commit"
              ELSE IF e \in Malformed THEN "poll" ELSE "dispatch"

\* getone, the idempotency check and the adapter run without an await.
Poll ==
  /\ cpc = "poll" /\ position < Len(log)
  /\ position' = position + 1
  /\ current' = position + 1
  /\ attempt' = 0
  /\ CheckAndSet(log[position + 1], FALSE)
  /\ cpc' = Next_pc(log[position + 1])
  /\ givenUp' = IF ~Known(log[position + 1]) /\ log[position + 1] \in Malformed
                THEN givenUp \cup {log[position + 1]} ELSE givenUp
  /\ UNCHANGED <<log, committed, handled, acked, faults>>

\* M2 parses the event; its answer is on the way.
DispatchLands ==
  /\ cpc = "dispatch" /\ Msg \notin Rejected
  /\ handled' = [handled EXCEPT ![Msg] = @ + 1]
  /\ cpc' = "answered"
  /\ UNCHANGED <<log, committed, position, current, attempt, tracker, acked,
                 givenUp, faults>>

\* 200 or 201: the answer is offered to the tracker, then the commit follows.
DispatchReturns ==
  /\ cpc = "answered"
  /\ acked' = acked \cup {Msg}
  /\ CheckAndSet(Msg, TRUE)
  /\ cpc' = "commit"
  /\ UNCHANGED <<log, committed, position, current, attempt, handled, givenUp,
                 faults>>

\* Mutant: the attempt counter is not advanced.
RetryForever == cpc' = "dispatch" /\ UNCHANGED <<attempt, givenUp>>

\* send_to_m2 raises: it is retried, and after the last attempt the exception
\* leaves process_raw_message and is logged by the loop.
RetryOrGiveUp ==
  \/ /\ attempt < MaxRetries
     /\ attempt' = attempt + 1
     /\ cpc' = "dispatch"
     /\ UNCHANGED givenUp
  \/ /\ attempt >= MaxRetries
     /\ cpc' = "poll"
     /\ givenUp' = givenUp \cup {Msg}
     /\ UNCHANGED attempt

DispatchFails ==
  /\ \/ cpc = "dispatch" /\ Msg \in Rejected /\ NoFault
     \/ cpc \in {"dispatch", "answered"} /\ Fault
  /\ RetryOrGiveUp
  /\ UNCHANGED <<log, committed, position, current, tracker, handled, acked>>

\* commit() without offsets commits the consumer's position.
Commit ==
  /\ cpc = "commit"
  /\ committed' = position
  /\ cpc' = "poll"
  /\ UNCHANGED <<log, position, current, attempt, tracker, handled, acked,
                 givenUp, faults>>

\* commit() raises: logged, and the loop goes on.
CommitFails ==
  /\ cpc = "commit"
  /\ Fault
  /\ cpc' = "poll"
  /\ UNCHANGED <<log, committed, position, current, attempt, tracker, handled,
                 acked, givenUp>>

\* The group rebalances: the position goes back to the committed offset while
\* the message in hand is still being processed.
Rebalance ==
  /\ Fault
  /\ position' = committed
  /\ UNCHANGED <<log, committed, cpc, current, attempt, tracker, handled, acked,
                 givenUp>>

\* Mutant: a restarted bridge finds the keys of the consumer that died.
RestartKeepingTracker ==
  /\ Fault
  /\ position' = committed
  /\ cpc' = "poll" /\ attempt' = 0
  /\ UNCHANGED <<log, committed, current, tracker, handled, acked, givenUp>>

\* The bridge dies and bridge_runner builds a new consumer and tracker.
Restart ==
  /\ Fault
  /\ position' = committed
  /\ cpc' = "poll" /\ attempt' = 0
  /\ cache' = <<>> /\ stale' = {} /\ results' = {}
  /\ UNCHANGED <<log, committed, current, handled, acked, givenUp>>
-----------------------------------------------------------------------------
Consume == Poll \/ DispatchLands \/ DispatchReturns \/ DispatchFails \/ Commit

Disturb == \/ CommitFails \/ Rebalance \/ Restart
           \/ \E e \in Events : Expire(e)

Next == (\E e \in Events : Produce(e)) \/ Consume \/ Disturb

Spec == Init /\ [][Next]_vars

\* The event loop keeps the consumer going.
FairSpec == Spec /\ WF_vars(Consume)
-----------------------------------------------------------------------------
(* Properties. *)

Settled == acked \cup givenUp
InHand == IF cpc = "poll" THEN {} ELSE {Msg}

\* The only event being neither acknowledged nor given up that the tracker may
\* hold is the one in hand: a duplicate is never suppressed on behalf of an
\* event that nobody finished.
TrackerHoldsSettled == Cached \subseteq Settled \cup InHand

\* A committed record was acknowledged by M2 or given up after the retries (or
\* by the adapter): a rebalance, a restart or a suppressed duplicate never
\* commits past a record nobody tried.
LossOnlyAfterGivingUp ==
  \A i \in 1..committed : log[i] \in Settled

\* What makes the two above inductive: every record handed out is settled or in
\* hand, and the message about to be committed is settled.
Progress == /\ committed <= position
            /\ \A i \in 1..position : log[i] \in Settled \cup InHand
            /\ cpc = "commit" => Msg \in Settled

IInv == /\ TypeOK
        /\ TrackerHoldsSettled
        /\ LossOnlyAfterGivingUp
        /\ Progress

\* M2 parses an event again only because of a fault (a lost answer, a restart,
\* a rebalance, an expired entry), unless the topic held more events than the
\* tracker has room for, so that keys were evicted.
RepeatsExplained ==
  Cardinality({log[i] : i \in DOMAIN log}) <= Capacity =>
    \A e \in Events : handled[e] <= 1 + faults

\* An event on the topic is eventually acknowledged by M2 or given up.
EverySettled == \A e \in Events :
  (\E i \in DOMAIN log : log[i] = e) ~> e \in Settled

=============================================================================
