---------------------- MODULE ConfigDistributionProofs -----------------------
(***************************************************************************)
(* For any number of requests, parsers, versions, retries and failures:    *)
(* M6's record of a distribution is the worker's but for what a fault or a *)
(* caller of the API accounts for, no concurrent request loses what        *)
(* another one committed, and the Redis snapshot of all parsers is wrong   *)
(* only about a change it missed.                                          *)
(***************************************************************************)
EXTENDS ConfigDistribution, FiniteSetTheorems, TLAPS

\* A row is absent or has a status and a version.
LEMMA RowCases ==
  ASSUME NEW r \in Rows
  PROVE  /\ r.version \in 0..MaxVersion
         /\ r.status = "absent" <=> r = NoRow
         /\ r # NoRow => r.status \in Statuses /\ r.version \in Versions
<1>1. CASE r = NoRow
  BY <1>1, DistributionAssumption DEF NoRow, Statuses
<1>2. CASE r \in [status : Statuses, version : Versions]
  BY <1>2, DistributionAssumption DEF NoRow, Statuses, Versions
<1> QED
  BY <1>1, <1>2 DEF Rows

\* Setting the status or the version of a row gives a row.
LEMMA RowSet ==
  ASSUME NEW r \in Rows, r # NoRow
  PROVE  /\ \A t \in Statuses : [r EXCEPT !.status = t] \in Rows \ {NoRow}
         /\ \A v \in Versions : [r EXCEPT !.version = v] \in Rows \ {NoRow}
<1>1. r \in [status : Statuses, version : Versions]
  BY DEF Rows
<1>2. \A t \in Statuses :
        [r EXCEPT !.status = t] \in [status : Statuses, version : Versions]
  BY <1>1
<1>3. \A v \in Versions :
        [r EXCEPT !.version = v] \in [status : Statuses, version : Versions]
  BY <1>1
<1>4. NoRow \notin [status : Statuses, version : Versions]
  BY DEF NoRow, Statuses
<1> QED
  BY <1>2, <1>3, <1>4 DEF Rows

\* What a commit writes is a row with the status its object has; a transition
\* keeps the version, an update and an edit the status of the row.
LEMMA WrittenFacts ==
  ASSUME TypeOK, Locking, Objects, NEW s \in Sessions, pc[s] = "commit"
  PROVE  /\ on[s] \in Parsers /\ Written(s) \in Rows \ {NoRow}
         /\ op[s] # "same" => Written(s).status = view[s].status /\ lock[on[s]] = s
         /\ op[s] \in {"same", "edit"} => Written(s) = row[on[s]]
         /\ op[s] = "transition" => Written(s).version = row[on[s]].version
         /\ op[s] = "update" => Written(s).status = row[on[s]].status
         /\ op[s] \in {"transition", "update", "edit", "same", "register"}
<1>1. /\ on[s] \in Parsers /\ view[s] \in Rows \ {NoRow} /\ row[on[s]] \in Rows
      /\ op[s] # "register" => row[on[s]] # NoRow
      /\ op[s] \in {"transition", "update", "edit", "same", "register"}
      /\ op[s] # "same" => lock[on[s]] = s
  BY DEF TypeOK, Locking, Objects, InTx
<1>2. view[s].status \in Statuses
  BY <1>1, RowCases
<1>3. CASE op[s] = "transition"
  <2>1. row[on[s]] \in [status : Statuses, version : Versions]
    BY <1>1, <1>3 DEF Rows
  <2>2. Written(s) = [row[on[s]] EXCEPT !.status = view[s].status]
    BY <1>3 DEF Written
  <2>3. Written(s) \in Rows \ {NoRow}
    BY <1>1, <1>2, <1>3, <2>2, RowSet
  <2> QED
    BY <1>1, <1>3, <2>1, <2>2, <2>3
<1>4. CASE op[s] # "transition"
  BY <1>1, <1>4 DEF Written, Locking, InTx
<1> QED
  BY <1>3, <1>4

\* The initial database, worker and requests satisfy the invariant.
LEMMA InitIInv == Init => IInv
<1> SUFFICES ASSUME Init PROVE IInv
  OBVIOUS
<1> USE DistributionAssumption, DatabaseAssumption
<1>1. row \in [Parsers -> Rows] /\ NoRow \in Rows
  BY DEF Init, Rows
<1>2. TypeOK
  BY <1>1 DEF Init, TypeOK
<1>3. Locking
  BY DEF Init, Locking, InTx
<1>4. Answers
  BY DEF Init, Answers, Adopted, Pushed, PushedOnce, Recorded
<1>5. Objects
  BY DEF Init, Objects, InTx
<1>6. Paid
  <2>1. Spent = {}
    BY DEF Init, Spent
  <2> QED
    BY <2>1, FS_EmptySet DEF Init, Paid
<1> QED
  BY <1>2, <1>3, <1>4, <1>5, <1>6 DEF IInv

\* Fewer requests are paid for by as many faults, one more by one more.
LEMMA PaidStep ==
  ASSUME TypeOK, Paid, NEW s,
         \/ Spent' \subseteq Spent /\ faults' \in {faults, faults + 1}
         \/ Spent' \subseteq Spent \cup {s} /\ faults' = faults + 1
  PROVE  Paid'
<1>1. IsFiniteSet(Spent) /\ faults \in Nat
  BY FS_Subset, DistributionAssumption DEF Spent, TypeOK
<1>2. Cardinality(Spent) \in Nat
  BY <1>1, FS_CardinalityType
<1>3. IsFiniteSet(Spent \cup {s}) /\ Cardinality(Spent \cup {s}) <= Cardinality(Spent) + 1
  <2>1. CASE s \in Spent
    <3>1. Spent \cup {s} = Spent
      BY <2>1
    <3> QED
      BY <1>1, <1>2, <3>1
  <2>2. CASE s \notin Spent
    <3>1. /\ IsFiniteSet(Spent \cup {s})
          /\ Cardinality(Spent \cup {s}) = Cardinality(Spent) + 1
      BY <1>1, <2>2, FS_AddElement
    <3> QED
      BY <1>2, <3>1
  <2> QED
    BY <2>1, <2>2
<1>4. CASE Spent' \subseteq Spent /\ faults' \in {faults, faults + 1}
  <2>1. IsFiniteSet(Spent') /\ Cardinality(Spent') <= Cardinality(Spent)
    BY <1>1, <1>4, FS_Subset
  <2>2. Cardinality(Spent') \in Nat
    BY <2>1, FS_CardinalityType
  <2> QED
    BY <1>1, <1>2, <1>4, <2>1, <2>2 DEF Paid
<1>5. CASE Spent' \subseteq Spent \cup {s} /\ faults' = faults + 1
  <2>1. IsFiniteSet(Spent') /\ Cardinality(Spent') <= Cardinality(Spent \cup {s})
    BY <1>3, <1>5, FS_Subset
  <2>2. Cardinality(Spent') \in Nat /\ Cardinality(Spent \cup {s}) \in Nat
    BY <1>3, <2>1, FS_CardinalityType
  <2> QED
    BY <1>1, <1>2, <1>3, <1>5, <2>1, <2>2 DEF Paid
<1> QED
  BY <1>4, <1>5

\* No action spends a request without a fault, and none two of them at once.
LEMMA NextPaid ==
  ASSUME TypeOK, Answers, Objects, Paid, Next
  PROVE  Paid'
<1> USE DistributionAssumption DEF session, worker
<1>0. faults \in Nat
  BY DEF TypeOK
<1>1. ASSUME NEW s \in Sessions, FlushFails(s) PROVE Paid'
  <2>1. Spent' \subseteq Spent \cup {s}
    BY <1>1 DEF FlushFails, Goto, Spent, TypeOK
  <2>2. CASE s \in broken
    <3>1. Spent' \subseteq Spent /\ faults' = faults
      BY <1>1, <2>1, <2>2 DEF FlushFails, Spent
    <3> QED
      BY <3>1, PaidStep
  <2>3. CASE s \notin broken
    BY <1>1, <2>1, <2>3, PaidStep DEF FlushFails, Fault
  <2> QED
    BY <2>2, <2>3
<1>2. ASSUME NEW s \in Sessions, Unreachable(s) \/ Abort(s) PROVE Paid'
  <2>1. Spent' \subseteq Spent \cup {s} /\ faults' = faults + 1
    BY <1>2 DEF Unreachable, Reply, Abort, Fault, Goto, Spent, TypeOK
  <2> QED
    BY <2>1, PaidStep
<1>3. ASSUME NEW s \in Sessions, Push(s) PROVE Paid'
  <2>1. Spent' \subseteq Spent /\ faults' = faults
    BY <1>3 DEF Push, Goto, Spent, TypeOK
  <2> QED
    BY <2>1, PaidStep
<1>4. ASSUME NEW s \in Sessions, InsertRefused(s) PROVE Paid'
  <2>1. attempt[s] = 0
    BY <1>4 DEF InsertRefused, Objects
  <2>2. Spent' \subseteq Spent /\ faults' = faults
    BY <1>4, <2>1 DEF InsertRefused, Goto, Spent, TypeOK
  <2> QED
    BY <2>2, PaidStep
<1>5. ASSUME NEW s \in Sessions, WorkerChecks(s) \/ WorkerAdopts(s) \/ WorkerFails(s)
      PROVE  Paid'
  <2>1. Spent' \subseteq Spent /\ faults' = faults
    BY <1>5 DEF WorkerChecks, WorkerAdopts, WorkerFails, Reply, Spent, TypeOK
  <2> QED
    BY <2>1, PaidStep
<1>6. ASSUME WorkerRestarts PROVE Paid'
  <2>1. Spent' \subseteq Spent /\ faults' = faults + 1
    BY <1>6 DEF WorkerRestarts, Fault, Spent, TypeOK
  <2> QED
    BY <2>1, PaidStep
<1>7. ASSUME NEW s \in Sessions,
             \/ \E p \in Parsers : Request(s, p)
             \/ Refuse(s) \/ Flush(s) \/ Answered(s) \/ SelectParsers(s) \/ SetRedis(s)
             \/ Commit(s) \/ RedisFails(s)
             \/ \E status \in AckStatuses : process_ack(s, status)
      PROVE  Paid'
  <2>1. /\ broken' = broken /\ reply' = reply /\ attempt' = attempt
        /\ faults' \in {faults, faults + 1}
    BY <1>7
    DEF Request, register, update, transition, Begin, Refuse, Flush, Answered,
        SelectParsers, SetRedis, Commit, RedisFails, process_ack, Fault
  <2>2. \E w \in {"flush", "refused", "push", "select", "set", "commit",
                  "committed", pc[s]} : pc' = [pc EXCEPT ![s] = w]
    BY <1>7
    DEF Request, register, update, transition, Begin, Refuse, Flush, Answered,
        SelectParsers, SetRedis, Commit, RedisFails, process_ack, Goto, TypeOK
  <2>3. Spent' \subseteq Spent
    BY <2>1, <2>2 DEF Spent, TypeOK
  <2> QED
    BY <2>1, <2>3, PaidStep
<1> QED
  BY <1>1, <1>2, <1>3, <1>4, <1>5, <1>6, <1>7 DEF Next, Serve, Work

\* Every action of M6 and of the worker keeps the invariant.
LEMMA NextIInv == IInv /\ [Next]_vars => IInv'
<1> SUFFICES ASSUME IInv, [Next]_vars PROVE IInv'
  OBVIOUS
<1> USE DistributionAssumption
    DEF InTx, Ended, database, session, worker, cached
<1>0. /\ TypeOK /\ Locking /\ Objects /\ Paid
      /\ Answers /\ Adopted /\ Pushed /\ PushedOnce /\ Recorded
  BY DEF IInv, Answers
<1>1. ASSUME Next PROVE IInv'
  <2> USE <1>0
  <2>0. Paid'
    BY <1>1, NextPaid
  <2>1. ASSUME NEW s \in Sessions, NEW p \in Parsers, NEW v \in Versions, register(s, p, v)
        PROVE  IInv'
    <3>0. [status |-> "DRAFT", version |-> v] \in Rows \ {NoRow}
      BY DEF Rows, NoRow, Statuses
    <3>1. TypeOK'
      BY <2>1, <3>0 DEF register, Begin, Arrive, Goto, TypeOK
    <3>2. Locking'
      BY <2>1, <3>0 DEF register, Begin, Arrive, Goto, TypeOK, Locking, Objects
    <3>3. Answers'
      <4>1. Adopted'
        BY <2>1, <3>0 DEF register, Begin, Arrive, Goto, TypeOK, Adopted
      <4>2. Pushed'
        BY <2>1, <3>0 DEF register, Begin, Arrive, Goto, TypeOK, Pushed, Objects, Locking
      <4>3. PushedOnce'
        BY <2>1, <3>0 DEF register, Begin, Arrive, Goto, TypeOK, PushedOnce, Adopted, Pushed, Objects
      <4>4. Recorded'
        BY <2>1, <3>0 DEF register, Begin, Arrive, Goto, TypeOK, Recorded, Objects
      <4> QED
        BY <4>1, <4>2, <4>3, <4>4 DEF Answers
    <3>4. Objects'
      BY <2>1, <3>0 DEF register, Begin, Arrive, Goto, TypeOK, Objects, Locking
    <3> QED
      BY <2>0, <3>1, <3>2, <3>3, <3>4 DEF IInv
  <2>2. ASSUME NEW s \in Sessions, NEW p \in Parsers, NEW v \in Versions, update(s, p, v)
        PROVE  IInv'
    <3>0. row[p] # NoRow /\ [row[p] EXCEPT !.version = v] \in Rows \ {NoRow}
      <4>1. row[p] # NoRow /\ row[p] \in Rows /\ row[p].status \in Statuses
        BY <2>2, RowCases DEF update, TypeOK
      <4> QED
        BY <4>1, RowSet
    <3>1. TypeOK'
      BY <2>2, <3>0 DEF update, Begin, Arrive, Goto, TypeOK
    <3>2. Locking'
      BY <2>2, <3>0 DEF update, Begin, Arrive, Goto, TypeOK, Locking, Objects
    <3>3. Answers'
      <4>1. Adopted'
        BY <2>2, <3>0 DEF update, Begin, Arrive, Goto, TypeOK, Adopted
      <4>2. Pushed'
        BY <2>2, <3>0 DEF update, Begin, Arrive, Goto, TypeOK, Pushed, Objects, Locking
      <4>3. PushedOnce'
        BY <2>2, <3>0 DEF update, Begin, Arrive, Goto, TypeOK, PushedOnce, Adopted, Pushed, Objects
      <4>4. Recorded'
        BY <2>2, <3>0 DEF update, Begin, Arrive, Goto, TypeOK, Recorded, Objects
      <4> QED
        BY <4>1, <4>2, <4>3, <4>4 DEF Answers
    <3>4. Objects'
      BY <2>2, <3>0 DEF update, Begin, Arrive, Goto, TypeOK, Objects, Locking
    <3> QED
      BY <2>0, <3>1, <3>2, <3>3, <3>4 DEF IInv
  <2>3. ASSUME NEW s \in Sessions, NEW p \in Parsers, NEW t \in Targets, transition(s, p, t)
        PROVE  IInv'
    <3>0. row[p] # NoRow /\ [row[p] EXCEPT !.status = t] \in Rows \ {NoRow}
      <4>1. row[p] # NoRow /\ row[p] \in Rows /\ t \in Statuses
        BY <2>3 DEF transition, Allowed, NoRow, Targets, Statuses, TypeOK
      <4>2. row[p].version \in Versions
        BY <4>1, RowCases
      <4> QED
        BY <4>1, <4>2, RowSet
    <3>1. TypeOK'
      BY <2>3, <3>0 DEF transition, Begin, Arrive, Goto, TypeOK
    <3>2. Locking'
      BY <2>3, <3>0 DEF transition, Begin, Arrive, Goto, TypeOK, Locking, Objects
    <3>3. Answers'
      <4>1. Adopted'
        BY <2>3, <3>0 DEF transition, Begin, Arrive, Goto, TypeOK, Adopted
      <4>2. Pushed'
        BY <2>3, <3>0 DEF transition, Begin, Arrive, Goto, TypeOK, Pushed, Objects, Locking
      <4>3. PushedOnce'
        BY <2>3, <3>0 DEF transition, Begin, Arrive, Goto, TypeOK, PushedOnce, Adopted, Pushed, Objects
      <4>4. Recorded'
        BY <2>3, <3>0 DEF transition, Begin, Arrive, Goto, TypeOK, Recorded, Objects
      <4> QED
        BY <4>1, <4>2, <4>3, <4>4 DEF Answers
    <3>4. Objects'
      BY <2>3, <3>0 DEF transition, Begin, Arrive, Goto, TypeOK, Objects, Locking
    <3> QED
      BY <2>0, <3>1, <3>2, <3>3, <3>4 DEF IInv
  <2>4. ASSUME NEW s \in Sessions, Refuse(s)
        PROVE  IInv'
    <3>1. TypeOK'
      BY <2>4 DEF Refuse, Arrive, Goto, TypeOK
    <3>2. Locking'
      BY <2>4 DEF Refuse, Arrive, Goto, TypeOK, Locking, Objects
    <3>3. Answers'
      <4>1. Adopted'
        BY <2>4 DEF Refuse, Arrive, Goto, TypeOK, Adopted
      <4>2. Pushed'
        BY <2>4 DEF Refuse, Arrive, Goto, TypeOK, Pushed, Objects, Locking
      <4>3. PushedOnce'
        BY <2>4 DEF Refuse, Arrive, Goto, TypeOK, PushedOnce, Adopted, Pushed, Objects
      <4>4. Recorded'
        BY <2>4 DEF Refuse, Arrive, Goto, TypeOK, Recorded, Objects
      <4> QED
        BY <4>1, <4>2, <4>3, <4>4 DEF Answers
    <3>4. Objects'
      BY <2>4 DEF Refuse, Arrive, Goto, TypeOK, Objects, Locking
    <3> QED
      BY <2>0, <3>1, <3>2, <3>3, <3>4 DEF IInv
  <2>5. ASSUME NEW s \in Sessions, Flush(s)
        PROVE  IInv'
    <3>0. /\ on[s] \in Parsers /\ view[s] \in Rows \ {NoRow} /\ row[on[s]] \in Rows
          /\ op[s] # "register" => row[on[s]] # NoRow
          /\ op[s] = "update" =>
               [view[s] EXCEPT !.status = row[on[s]].status] \in Rows \ {NoRow}
      <4>1. /\ on[s] \in Parsers /\ view[s] \in Rows \ {NoRow} /\ row[on[s]] \in Rows
            /\ op[s] # "register" => row[on[s]] # NoRow
        BY <2>5 DEF Flush, TypeOK, Objects, Locking
      <4>2. view[s].version \in Versions
        BY <4>1, RowCases
      <4>3. op[s] = "update" => row[on[s]].status \in Statuses
        BY <4>1, RowCases
      <4> QED
        BY <4>1, <4>2, <4>3, RowSet
    <3>1. TypeOK'
      <4>1. op[s] \in {"register", "transition", "update", "edit", "same"}
        BY <2>5 DEF Flush, TypeOK, Locking
      <4>2. view' \in [Sessions -> Rows]
        <5>1. CASE op[s] = "update"
          <6>1. view' = [view EXCEPT ![s] = [view[s] EXCEPT !.status = row[on[s]].status]]
            BY <2>5, <5>1 DEF Flush, TypeOK
          <6> QED
            BY <3>0, <5>1, <6>1 DEF TypeOK
        <5>2. CASE op[s] \in {"edit", "same"}
          <6>1. view' = [view EXCEPT ![s] = row[on[s]]]
            BY <2>5, <5>2 DEF Flush
          <6> QED
            BY <3>0, <6>1 DEF TypeOK
        <5>3. CASE op[s] \in {"register", "transition"}
          <6>1. view' = [view EXCEPT ![s] = view[s]]
            BY <2>5, <5>3 DEF Flush, TypeOK
          <6> QED
            BY <6>1 DEF TypeOK
        <5> QED
          BY <4>1, <5>1, <5>2, <5>3
      <4>3. lock' \in [Parsers -> Sessions \cup {None}]
        BY <2>5, <3>0 DEF Flush, TypeOK
      <4> QED
        BY <2>5, <4>2, <4>3 DEF Flush, Goto, TypeOK
    <3>2. Locking'
      BY <2>5, <3>0 DEF Flush, Goto, TypeOK, Locking, Objects
    <3>3. Answers'
      <4>1. Adopted'
        BY <2>5, <3>0 DEF Flush, Goto, TypeOK, Adopted
      <4>2. Pushed'
        BY <2>5, <3>0 DEF Flush, Goto, TypeOK, Pushed, Objects, Locking
      <4>3. PushedOnce'
        BY <2>5, <3>0 DEF Flush, Goto, TypeOK, PushedOnce, Adopted, Pushed, Objects
      <4>4. Recorded'
        BY <2>5, <3>0 DEF Flush, Goto, TypeOK, Recorded, Objects
      <4> QED
        BY <4>1, <4>2, <4>3, <4>4 DEF Answers
    <3>4. Objects'
      BY <2>5, <3>0 DEF Flush, Goto, TypeOK, Objects, Locking
    <3> QED
      BY <2>0, <3>1, <3>2, <3>3, <3>4 DEF IInv
  <2>6. ASSUME NEW s \in Sessions, InsertRefused(s)
        PROVE  IInv'
    <3>1. TypeOK'
      BY <2>6 DEF InsertRefused, Goto, TypeOK
    <3>2. Locking'
      BY <2>6 DEF InsertRefused, Goto, TypeOK, Locking, Objects
    <3>3. Answers'
      <4>1. Adopted'
        BY <2>6 DEF InsertRefused, Goto, TypeOK, Adopted
      <4>2. Pushed'
        BY <2>6 DEF InsertRefused, Goto, TypeOK, Pushed, Objects, Locking
      <4>3. PushedOnce'
        BY <2>6 DEF InsertRefused, Goto, TypeOK, PushedOnce, Adopted, Pushed, Objects
      <4>4. Recorded'
        BY <2>6 DEF InsertRefused, Goto, TypeOK, Recorded, Objects
      <4> QED
        BY <4>1, <4>2, <4>3, <4>4 DEF Answers
    <3>4. Objects'
      BY <2>6 DEF InsertRefused, Goto, TypeOK, Objects, Locking
    <3> QED
      BY <2>0, <3>1, <3>2, <3>3, <3>4 DEF IInv
  <2>7. ASSUME NEW s \in Sessions, Push(s)
        PROVE  IInv'
    <3>1. TypeOK'
      BY <2>7 DEF Push, Goto, TypeOK, Objects
    <3>2. Locking'
      BY <2>7 DEF Push, Goto, TypeOK, Locking, Objects
    <3>3. Answers'
      <4>1. Adopted'
        BY <2>7 DEF Push, Goto, TypeOK, Adopted
      <4>2. Pushed'
        BY <2>7 DEF Push, Goto, TypeOK, Pushed, Objects, Locking
      <4>3. PushedOnce'
        BY <2>7 DEF Push, Goto, TypeOK, PushedOnce, Adopted, Pushed, Objects
      <4>4. Recorded'
        BY <2>7 DEF Push, Goto, TypeOK, Recorded, Objects
      <4> QED
        BY <4>1, <4>2, <4>3, <4>4 DEF Answers
    <3>4. Objects'
      BY <2>7 DEF Push, Goto, TypeOK, Objects, Locking
    <3> QED
      BY <2>0, <3>1, <3>2, <3>3, <3>4 DEF IInv
  <2>8. ASSUME NEW s \in Sessions, Answered(s)
        PROVE  IInv'
    <3>1. TypeOK'
      BY <2>8 DEF Answered, Goto, TypeOK
    <3>2. Locking'
      BY <2>8 DEF Answered, Goto, TypeOK, Locking, Objects
    <3>3. Answers'
      <4>1. Adopted'
        BY <2>8 DEF Answered, Goto, TypeOK, Adopted
      <4>2. Pushed'
        BY <2>8 DEF Answered, Goto, TypeOK, Pushed, Objects, Locking
      <4>3. PushedOnce'
        BY <2>8 DEF Answered, Goto, TypeOK, PushedOnce, Adopted, Pushed, Objects
      <4>4. Recorded'
        BY <2>8 DEF Answered, Goto, TypeOK, Recorded, Objects
      <4> QED
        BY <4>1, <4>2, <4>3, <4>4 DEF Answers
    <3>4. Objects'
      BY <2>8 DEF Answered, Goto, TypeOK, Objects, Locking
    <3> QED
      BY <2>0, <3>1, <3>2, <3>3, <3>4 DEF IInv
  <2>9. ASSUME NEW s \in Sessions, FlushFails(s)
        PROVE  IInv'
    <3>1. TypeOK'
      BY <2>9 DEF FlushFails, Fault, Released, Goto, TypeOK
    <3>2. Locking'
      BY <2>9 DEF FlushFails, Fault, Released, Goto, TypeOK, Locking, Objects
    <3>3. Answers'
      <4>1. Adopted'
        BY <2>9 DEF FlushFails, Fault, Released, Goto, TypeOK, Adopted
      <4>2. Pushed'
        BY <2>9 DEF FlushFails, Fault, Released, Goto, TypeOK, Pushed, Objects, Locking
      <4>3. PushedOnce'
        BY <2>9 DEF FlushFails, Fault, Released, Goto, TypeOK, PushedOnce, Adopted, Pushed, Objects
      <4>4. Recorded'
        BY <2>9 DEF FlushFails, Fault, Released, Goto, TypeOK, Recorded, Objects
      <4> QED
        BY <4>1, <4>2, <4>3, <4>4 DEF Answers
    <3>4. Objects'
      BY <2>9 DEF FlushFails, Fault, Released, Goto, TypeOK, Objects, Locking
    <3> QED
      BY <2>0, <3>1, <3>2, <3>3, <3>4 DEF IInv
  <2>10. ASSUME NEW s \in Sessions, SelectParsers(s)
        PROVE  IInv'
    <3>1. TypeOK'
      BY <2>10 DEF SelectParsers, Seen, Goto, TypeOK
    <3>2. Locking'
      BY <2>10 DEF SelectParsers, Seen, Goto, TypeOK, Locking, Objects
    <3>3. Answers'
      <4>1. Adopted'
        BY <2>10 DEF SelectParsers, Seen, Goto, TypeOK, Adopted
      <4>2. Pushed'
        BY <2>10 DEF SelectParsers, Seen, Goto, TypeOK, Pushed, Objects, Locking
      <4>3. PushedOnce'
        BY <2>10 DEF SelectParsers, Seen, Goto, TypeOK, PushedOnce, Adopted, Pushed, Objects
      <4>4. Recorded'
        BY <2>10 DEF SelectParsers, Seen, Goto, TypeOK, Recorded, Objects
      <4> QED
        BY <4>1, <4>2, <4>3, <4>4 DEF Answers
    <3>4. Objects'
      BY <2>10 DEF SelectParsers, Seen, Goto, TypeOK, Objects, Locking
    <3> QED
      BY <2>0, <3>1, <3>2, <3>3, <3>4 DEF IInv
  <2>11. ASSUME NEW s \in Sessions, SetRedis(s)
        PROVE  IInv'
    <3>1. TypeOK'
      BY <2>11 DEF SetRedis, Goto, TypeOK
    <3>2. Locking'
      BY <2>11 DEF SetRedis, Goto, TypeOK, Locking, Objects
    <3>3. Answers'
      <4>1. Adopted'
        BY <2>11 DEF SetRedis, Goto, TypeOK, Adopted
      <4>2. Pushed'
        BY <2>11 DEF SetRedis, Goto, TypeOK, Pushed, Objects, Locking
      <4>3. PushedOnce'
        BY <2>11 DEF SetRedis, Goto, TypeOK, PushedOnce, Adopted, Pushed, Objects
      <4>4. Recorded'
        BY <2>11 DEF SetRedis, Goto, TypeOK, Recorded, Objects
      <4> QED
        BY <4>1, <4>2, <4>3, <4>4 DEF Answers
    <3>4. Objects'
      BY <2>11 DEF SetRedis, Goto, TypeOK, Objects, Locking
    <3> QED
      BY <2>0, <3>1, <3>2, <3>3, <3>4 DEF IInv
  <2>12. ASSUME NEW s \in Sessions, RedisFails(s)
        PROVE  IInv'
    <3>1. TypeOK'
      BY <2>12 DEF RedisFails, Fault, Goto, TypeOK
    <3>2. Locking'
      BY <2>12 DEF RedisFails, Fault, Goto, TypeOK, Locking, Objects
    <3>3. Answers'
      <4>1. Adopted'
        BY <2>12 DEF RedisFails, Fault, Goto, TypeOK, Adopted
      <4>2. Pushed'
        BY <2>12 DEF RedisFails, Fault, Goto, TypeOK, Pushed, Objects, Locking
      <4>3. PushedOnce'
        BY <2>12 DEF RedisFails, Fault, Goto, TypeOK, PushedOnce, Adopted, Pushed, Objects
      <4>4. Recorded'
        BY <2>12 DEF RedisFails, Fault, Goto, TypeOK, Recorded, Objects
      <4> QED
        BY <4>1, <4>2, <4>3, <4>4 DEF Answers
    <3>4. Objects'
      BY <2>12 DEF RedisFails, Fault, Goto, TypeOK, Objects, Locking
    <3> QED
      BY <2>0, <3>1, <3>2, <3>3, <3>4 DEF IInv
  <2>13. ASSUME NEW s \in Sessions, Commit(s)
        PROVE  IInv'
    <3>0. /\ on[s] \in Parsers /\ Written(s) \in Rows \ {NoRow}
          /\ row' = [row EXCEPT ![on[s]] = Written(s)]
      BY <2>13, WrittenFacts DEF Commit, IInv
    <3>1. TypeOK'
      BY <2>13, <3>0 DEF Commit, Note, Released, Goto, TypeOK
    <3>2. Locking'
      <4>1. /\ pc[s] = "commit" /\ pc' = [pc EXCEPT ![s] = "committed"]
            /\ UNCHANGED <<on, op, view>>
            /\ lock' = [p \in Parsers |-> IF lock[p] = s THEN None ELSE lock[p]]
        BY <2>13 DEF Commit, Released, Goto
      <4>2. \A p \in Parsers : lock'[p] # None =>
              /\ pc'[lock'[p]] \in InTx \ {"flush"}
              /\ on'[lock'[p]] = p /\ op'[lock'[p]] # "same"
        BY <4>1 DEF TypeOK, Locking
      <4>3. op[s] = "same" => Written(s) = row[on[s]]
        BY <4>1, WrittenFacts
      <4>4. ASSUME NEW t \in Sessions, pc'[t] \in InTx \ {"flush"}, op[t] # "same"
            PROVE  /\ lock'[on[t]] = t
                   /\ row'[on[t]] = row[on[t]]
        <5>1. t # s /\ lock[on[t]] = t /\ on[t] \in Parsers
          BY <4>1, <4>4 DEF TypeOK, Locking
        <5>2. op[s] # "same" => on[s] # on[t]
          BY <4>1, <5>1 DEF Locking
        <5> QED
          BY <3>0, <4>1, <4>3, <5>1, <5>2 DEF TypeOK
      <4>5. ASSUME NEW t \in Sessions
            PROVE  /\ pc'[t] \in InTx => on'[t] \in Parsers /\ op'[t] # "none"
                   /\ pc'[t] \in InTx \ {"flush"} /\ op'[t] # "same" => lock'[on'[t]] = t
                   /\ pc'[t] \in InTx \ {"flush"} =>
                        /\ op'[t] = "update" => view'[t].status = row'[on'[t]].status
                        /\ op'[t] = "edit" => view'[t] = row'[on'[t]]
                        /\ op'[t] = "register" => row'[on'[t]] = NoRow
        <5>1. pc'[t] \in InTx => pc'[t] = pc[t]
          BY <4>1 DEF TypeOK
        <5>2. CASE op[t] = "same"
          BY <4>1, <5>1, <5>2 DEF Locking
        <5>3. CASE op[t] # "same"
          BY <4>1, <4>4, <5>1, <5>3 DEF Locking
        <5> QED
          BY <5>2, <5>3
      <4> QED
        BY <4>2, <4>5 DEF Locking
    <3>3. Answers'
      <4>1. Adopted'
        BY <2>13, <3>0 DEF Commit, Note, Released, Goto, TypeOK, Adopted
      <4>2. Pushed'
        BY <2>13, <3>0 DEF Commit, Note, Released, Goto, TypeOK, Pushed, Objects, Locking
      <4>3. PushedOnce'
        BY <2>13, <3>0 DEF Commit, Note, Released, Goto, TypeOK, PushedOnce, Adopted, Pushed, Objects
      <4>4. Recorded'
        BY <2>13, <3>0 DEF Commit, Note, Released, Goto, TypeOK, Recorded, Objects
      <4> QED
        BY <4>1, <4>2, <4>3, <4>4 DEF Answers
    <3>4. Objects'
      BY <2>13, <3>0 DEF Commit, Note, Released, Goto, TypeOK, Objects, Locking
    <3> QED
      BY <2>0, <3>1, <3>2, <3>3, <3>4 DEF IInv
  <2>14. ASSUME NEW s \in Sessions, Abort(s)
        PROVE  IInv'
    <3>1. TypeOK'
      <4>1. on[s] \in Parsers
        BY <2>14 DEF Abort, Locking
      <4> QED
        BY <2>14, <4>1 DEF Abort, Fault, Note, Released, Goto, TypeOK
    <3>2. Locking'
      BY <2>14 DEF Abort, Fault, Note, Released, Goto, TypeOK, Locking, Objects
    <3>3. Answers'
      <4>1. Adopted'
        BY <2>14 DEF Abort, Fault, Note, Released, Goto, TypeOK, Adopted
      <4>2. Pushed'
        BY <2>14 DEF Abort, Fault, Note, Released, Goto, TypeOK, Pushed, Objects, Locking
      <4>3. PushedOnce'
        BY <2>14 DEF Abort, Fault, Note, Released, Goto, TypeOK, PushedOnce, Adopted, Pushed, Objects
      <4>4. Recorded'
        BY <2>14 DEF Abort, Fault, Note, Released, Goto, TypeOK, Recorded, Objects
      <4> QED
        BY <4>1, <4>2, <4>3, <4>4 DEF Answers
    <3>4. Objects'
      BY <2>14 DEF Abort, Fault, Note, Released, Goto, TypeOK, Objects, Locking
    <3> QED
      BY <2>0, <3>1, <3>2, <3>3, <3>4 DEF IInv
  <2>15. ASSUME NEW s \in Sessions, NEW status \in AckStatuses, process_ack(s, status)
        PROVE  IInv'
    <3>1. TypeOK'
      BY <2>15 DEF process_ack, TypeOK
    <3>2. Locking'
      BY <2>15 DEF process_ack, TypeOK, Locking, Objects
    <3>3. Answers'
      <4>1. Adopted'
        BY <2>15 DEF process_ack, TypeOK, Adopted
      <4>2. Pushed'
        BY <2>15 DEF process_ack, TypeOK, Pushed, Objects, Locking
      <4>3. PushedOnce'
        BY <2>15 DEF process_ack, TypeOK, PushedOnce, Adopted, Pushed, Objects
      <4>4. Recorded'
        BY <2>15 DEF process_ack, TypeOK, Recorded, Objects
      <4> QED
        BY <4>1, <4>2, <4>3, <4>4 DEF Answers
    <3>4. Objects'
      BY <2>15 DEF process_ack, TypeOK, Objects, Locking
    <3> QED
      BY <2>0, <3>1, <3>2, <3>3, <3>4 DEF IInv
  <2>16. ASSUME NEW s \in Sessions, WorkerChecks(s)
        PROVE  IInv'
    <3>1. TypeOK'
      BY <2>16 DEF WorkerChecks, Reply, TypeOK
    <3>2. Locking'
      BY <2>16 DEF WorkerChecks, Reply, TypeOK, Locking, Objects
    <3>3. Answers'
      <4>1. Adopted'
        BY <2>16 DEF WorkerChecks, Reply, TypeOK, Adopted
      <4>2. Pushed'
        BY <2>16 DEF WorkerChecks, Reply, TypeOK, Pushed, Objects, Locking
      <4>3. PushedOnce'
        BY <2>16 DEF WorkerChecks, Reply, TypeOK, PushedOnce, Adopted, Pushed, Objects
      <4>4. Recorded'
        BY <2>16 DEF WorkerChecks, Reply, TypeOK, Recorded, Objects
      <4> QED
        BY <4>1, <4>2, <4>3, <4>4 DEF Answers
    <3>4. Objects'
      BY <2>16 DEF WorkerChecks, Reply, TypeOK, Objects, Locking
    <3> QED
      BY <2>0, <3>1, <3>2, <3>3, <3>4 DEF IInv
  <2>17. ASSUME NEW s \in Sessions, WorkerAdopts(s)
        PROVE  IInv'
    <3>0. view[s].version \in 0..MaxVersion /\ on[s] \in Parsers
      BY <2>17, RowCases DEF WorkerAdopts, TypeOK, Pushed
    <3>1. TypeOK'
      BY <2>17, <3>0 DEF WorkerAdopts, Reply, TypeOK
    <3>2. Locking'
      BY <2>17, <3>0 DEF WorkerAdopts, Reply, TypeOK, Locking, Objects
    <3>3. Answers'
      <4>1. Adopted'
        BY <2>17, <3>0 DEF WorkerAdopts, Reply, TypeOK, Adopted
      <4>2. Pushed'
        BY <2>17, <3>0 DEF WorkerAdopts, Reply, TypeOK, Pushed, Objects, Locking
      <4>3. PushedOnce'
        BY <2>17, <3>0 DEF WorkerAdopts, Reply, TypeOK, PushedOnce, Adopted, Pushed, Objects
      <4>4. Recorded'
        BY <2>17, <3>0 DEF WorkerAdopts, Reply, TypeOK, Recorded, Objects
      <4> QED
        BY <4>1, <4>2, <4>3, <4>4 DEF Answers
    <3>4. Objects'
      BY <2>17, <3>0 DEF WorkerAdopts, Reply, TypeOK, Objects, Locking
    <3> QED
      BY <2>0, <3>1, <3>2, <3>3, <3>4 DEF IInv
  <2>18. ASSUME NEW s \in Sessions, WorkerFails(s)
        PROVE  IInv'
    <3>1. TypeOK'
      BY <2>18 DEF WorkerFails, Reply, TypeOK
    <3>2. Locking'
      BY <2>18 DEF WorkerFails, Reply, TypeOK, Locking, Objects
    <3>3. Answers'
      <4>1. Adopted'
        BY <2>18 DEF WorkerFails, Reply, TypeOK, Adopted
      <4>2. Pushed'
        BY <2>18 DEF WorkerFails, Reply, TypeOK, Pushed, Objects, Locking
      <4>3. PushedOnce'
        BY <2>18 DEF WorkerFails, Reply, TypeOK, PushedOnce, Adopted, Pushed, Objects
      <4>4. Recorded'
        BY <2>18 DEF WorkerFails, Reply, TypeOK, Recorded, Objects
      <4> QED
        BY <4>1, <4>2, <4>3, <4>4 DEF Answers
    <3>4. Objects'
      BY <2>18 DEF WorkerFails, Reply, TypeOK, Objects, Locking
    <3> QED
      BY <2>0, <3>1, <3>2, <3>3, <3>4 DEF IInv
  <2>19. ASSUME WorkerRestarts
        PROVE  IInv'
    <3>1. TypeOK'
      BY <2>19 DEF WorkerRestarts, Fault, TypeOK
    <3>2. Locking'
      BY <2>19 DEF WorkerRestarts, Fault, TypeOK, Locking, Objects
    <3>3. Answers'
      <4>1. Adopted'
        BY <2>19 DEF WorkerRestarts, Fault, TypeOK, Adopted
      <4>2. Pushed'
        BY <2>19 DEF WorkerRestarts, Fault, TypeOK, Pushed, Objects, Locking
      <4>3. PushedOnce'
        BY <2>19 DEF WorkerRestarts, Fault, TypeOK, PushedOnce, Adopted, Pushed, Objects
      <4>4. Recorded'
        BY <2>19 DEF WorkerRestarts, Fault, TypeOK, Recorded, Objects
      <4> QED
        BY <4>1, <4>2, <4>3, <4>4 DEF Answers
    <3>4. Objects'
      BY <2>19 DEF WorkerRestarts, Fault, TypeOK, Objects, Locking
    <3> QED
      BY <2>0, <3>1, <3>2, <3>3, <3>4 DEF IInv
  <2>20. ASSUME NEW s \in Sessions, Unreachable(s)
        PROVE  IInv'
    <3>1. TypeOK'
      BY <2>20 DEF Unreachable, Reply, Fault, TypeOK
    <3>2. Locking'
      BY <2>20 DEF Unreachable, Reply, Fault, TypeOK, Locking
    <3>3. Answers'
      <4>1. Adopted'
        BY <2>20 DEF Unreachable, Reply, Fault, TypeOK, Adopted
      <4>2. Pushed'
        BY <2>20 DEF Unreachable, Reply, Fault, TypeOK, Pushed, Objects, Locking
      <4>3. PushedOnce'
        BY <2>20 DEF Unreachable, Reply, Fault, TypeOK, PushedOnce, Adopted, Pushed, Objects
      <4>4. Recorded'
        BY <2>20 DEF Unreachable, Reply, Fault, TypeOK, Recorded, Objects
      <4> QED
        BY <4>1, <4>2, <4>3, <4>4 DEF Answers
    <3>4. Objects'
      BY <2>20 DEF Unreachable, Reply, Fault, TypeOK, Objects
    <3> QED
      BY <2>0, <3>1, <3>2, <3>3, <3>4 DEF IInv
  <2> HIDE <1>0
  <2> QED
    BY <1>1, <2>1, <2>2, <2>3, <2>4, <2>5, <2>6, <2>7, <2>8, <2>9, <2>10, <2>11, <2>12, <2>13, <2>14, <2>15, <2>16, <2>17, <2>18, <2>19, <2>20
    DEF Next, Serve, Work, Request
<1>2. ASSUME UNCHANGED vars PROVE IInv'
  BY <1>0, <1>2 DEF vars, IInv, TypeOK, Locking, Answers, Adopted, Pushed, PushedOnce,
                   Recorded, Objects, Paid, Spent
<1> QED
  BY <1>1, <1>2

\* The invariant of M6's requests and the worker together, in every behaviour.
THEOREM DistributionInvariant == Spec => []IInv
  BY InitIInv, NextIInv, PTL DEF Spec

\* M6's record of a distribution is the worker's: what is ACKNOWLEDGED was
\* adopted, and every configuration that was adopted and is not acknowledged
\* has cost a fault of its own (config_service.py: _dispatch_single_target;
\* where nobody used process_ack).
THEOREM AcksAreTruthful == Spec => []AckTruthful
<1>1. IInv => AckTruthful
  <2> SUFFICES ASSUME IInv PROVE AckTruthful
    OBVIOUS
  <2>0. TypeOK /\ Answers /\ Objects /\ Paid
    BY DEF IInv
  <2>1. \A s \in Sessions \ told : target[s] = "ACKNOWLEDGED" => s \in applied
    BY <2>0 DEF Answers, Adopted, Recorded
  <2>2. Unknown \ told \subseteq Spent
    BY <2>0 DEF Unknown, Spent, Answers, Pushed, PushedOnce, Recorded, TypeOK
  <2>3. IsFiniteSet(Spent) /\ faults \in Nat
    BY <2>0, FS_Subset, DistributionAssumption DEF Spent, TypeOK
  <2>4. /\ Cardinality(Unknown \ told) <= Cardinality(Spent)
        /\ Cardinality(Unknown \ told) \in Nat /\ Cardinality(Spent) \in Nat
    BY <2>2, <2>3, FS_Subset, FS_CardinalityType
  <2> QED
    BY <2>0, <2>1, <2>3, <2>4 DEF AckTruthful, Paid
<1> QED
  BY <1>1, DistributionInvariant, PTL

\* Only the commit of the request that holds the row writes it, and it writes
\* no column that another request changed since it was read
\* (parser_registry.py: _transition and update; dependencies.py: dep_db).
THEOREM NoUpdateIsLost == Spec => NothingLost
<1> DEFINE Kept(s, p) == /\ pc[s] = "commit" /\ pc'[s] = "committed" /\ lock[p] = s
                         /\ op[s] \in {"transition", "update", "register"}
                         /\ op[s] = "transition" => row'[p].version = row[p].version
                         /\ op[s] = "update" => row'[p].status = row[p].status
                         /\ op[s] = "register" => row[p] = NoRow
<1>1. ASSUME IInv, [Next]_vars
      PROVE  [\A p \in Parsers : row'[p] # row[p] => \E s \in Sessions : Kept(s, p)]_vars
  <2>1. ASSUME NEW s \in Sessions, NEW p \in Parsers, Commit(s), row'[p] # row[p]
        PROVE  Kept(s, p)
    <3>1. /\ pc[s] = "commit" /\ pc'[s] = "committed"
          /\ row' = [row EXCEPT ![on[s]] = Written(s)] /\ row \in [Parsers -> Rows]
      BY <1>1, <2>1 DEF Commit, Goto, IInv, TypeOK
    <3>2. p = on[s] /\ row'[p] = Written(s)
      BY <2>1, <3>1
    <3>3. op[s] = "register" => row[on[s]] = NoRow
      BY <1>1, <3>1 DEF IInv, Locking, InTx
    <3>4. TypeOK /\ Locking /\ Objects
      BY <1>1 DEF IInv
    <3>5. /\ op[s] # "same" => lock[on[s]] = s
          /\ op[s] \in {"same", "edit"} => Written(s) = row[on[s]]
          /\ op[s] = "transition" => Written(s).version = row[on[s]].version
          /\ op[s] = "update" => Written(s).status = row[on[s]].status
          /\ op[s] \in {"transition", "update", "edit", "same", "register"}
      BY <3>1, <3>4, WrittenFacts
    <3> QED
      BY <2>1, <3>1, <3>2, <3>3, <3>5
  <2>2. ASSUME Next, row' # row PROVE \E s \in Sessions : Commit(s)
    <3>1. ASSUME NEW s \in Sessions,
                 \/ \E p \in Parsers : Request(s, p)
                 \/ Refuse(s) \/ Flush(s) \/ InsertRefused(s) \/ Push(s) \/ Answered(s)
          PROVE  FALSE
      BY <2>2, <3>1
      DEF Request, register, update, transition, Begin, Refuse, Flush,
          InsertRefused, Push, Answered, database
    <3>2. ASSUME NEW s \in Sessions,
                 \/ FlushFails(s) \/ SelectParsers(s) \/ SetRedis(s)
                 \/ Unreachable(s) \/ RedisFails(s) \/ Abort(s)
                 \/ \E status \in AckStatuses : process_ack(s, status)
          PROVE  FALSE
      BY <2>2, <3>2
      DEF FlushFails, SelectParsers, SetRedis, Unreachable, RedisFails, Abort,
          process_ack, database
    <3>3. ASSUME WorkerRestarts \/ \E s \in Sessions : Work(s) PROVE FALSE
      BY <2>2, <3>3
      DEF WorkerRestarts, Work, WorkerChecks, WorkerAdopts, WorkerFails, database
    <3> QED
      BY <2>2, <3>1, <3>2, <3>3 DEF Next, Serve
  <2> QED
    BY <1>1, <2>1, <2>2 DEF vars
<1> QED
  BY <1>1, DistributionInvariant, PTL DEF Spec, NothingLost

\* A step keeps what is selected and what Redis lists in agreement with the
\* rows, but for what the history variables record as missed.
LEMMA NextSnapshot == IInv /\ Snapshot /\ [Next]_vars => Snapshot'
<1> SUFFICES ASSUME IInv, Snapshot, [Next]_vars PROVE Snapshot'
  OBVIOUS
<1> USE DEF database, session, worker, cached
<1> DEFINE Held(p) == writer # None /\ lock[p] = writer
           W == \A s \in Sessions : writer = s => pc[s] \in {"commit", "committed", "aborted"}
           S == \A s \in Sessions : pc[s] = "set" =>
                  \A p \in Parsers \ missed[s] : p \in snap[s] <=> p \in Seen(s)
           L == \A p \in Parsers \ behind :
                  p \in redis <=> Active(IF Held(p) THEN view[writer] ELSE row[p])
<1>0. /\ TypeOK /\ Locking /\ Objects /\ None \notin Sessions
      /\ W /\ S /\ L
  BY DistributionAssumption DEF IInv, Snapshot
<1>q. W' /\ S' /\ L' => Snapshot'
  BY DEF Snapshot
<1>1. ASSUME NEW s \in Sessions, SetRedis(s) PROVE Snapshot'
  <2>1. /\ pc[s] = "set" /\ pc' = [pc EXCEPT ![s] = "commit"]
        /\ redis' = snap[s] /\ behind' = missed[s] /\ writer' = s
        /\ row' = row /\ lock' = lock /\ view' = view
        /\ \A t \in Sessions : t # s => snap'[t] = snap[t] /\ missed'[t] = missed[t]
    BY <1>0, <1>1 DEF SetRedis, Goto, TypeOK
  <2>2. W'
    BY <1>0, <2>1 DEF TypeOK
  <2>3. S'
    BY <1>0, <2>1 DEF TypeOK, Seen
  <2>4. L'
    <3>1. \A p \in Parsers \ missed[s] :
            p \in snap[s] <=> Active(IF lock[p] = s THEN view[s] ELSE row[p])
      BY <1>0, <2>1 DEF Seen
    <3> QED
      BY <1>0, <2>1, <3>1 DEF Active
  <2> QED
    BY <1>q, <2>2, <2>3, <2>4
<1>2. ASSUME NEW s \in Sessions, SelectParsers(s) PROVE Snapshot'
  <2>1. /\ pc[s] = "select" /\ pc' = [pc EXCEPT ![s] = "set"]
        /\ redis' = redis /\ behind' = behind /\ writer' = writer
        /\ row' = row /\ lock' = lock /\ view' = view
        /\ snap' = [snap EXCEPT ![s] = Seen(s)]
        /\ \A t \in Sessions : t # s => missed'[t] = missed[t]
    BY <1>0, <1>2 DEF SelectParsers, Goto, TypeOK
  <2>2. W'
    BY <1>0, <2>1 DEF TypeOK
  <2>3. S'
    BY <1>0, <2>1 DEF TypeOK, Seen
  <2>4. L'
    BY <1>0, <2>1 DEF Active
  <2> QED
    BY <1>q, <2>2, <2>3, <2>4
<1>3. ASSUME NEW s \in Sessions, Commit(s) PROVE Snapshot'
  <2> DEFINE changes == Written(s).status # row[on[s]].status
  <2>1. /\ pc[s] = "commit" /\ pc' = [pc EXCEPT ![s] = "committed"]
        /\ redis' = redis /\ writer' = writer /\ snap' = snap /\ view' = view
        /\ row' = [row EXCEPT ![on[s]] = Written(s)]
        /\ lock' = [p \in Parsers |-> IF lock[p] = s THEN None ELSE lock[p]]
        /\ behind' = IF changes /\ writer # s THEN behind \cup {on[s]} ELSE behind
        /\ missed' = [t \in Sessions |-> IF changes /\ pc[t] = "set"
                                         THEN missed[t] \cup {on[s]} ELSE missed[t]]
    BY <1>3 DEF Commit, Note, Released, Goto
  <2>2. /\ on[s] \in Parsers
        /\ op[s] # "same" => Written(s).status = view[s].status /\ lock[on[s]] = s
        /\ op[s] = "same" => Written(s) = row[on[s]]
    BY <1>0, <2>1, WrittenFacts
  <2>3. \A p \in Parsers : lock[p] = s => p = on[s] /\ op[s] # "same"
    BY <1>0 DEF Locking
  <2>4. W'
    BY <1>0, <2>1 DEF TypeOK
  <2>5. S'
    <3> SUFFICES ASSUME NEW t \in Sessions, pc'[t] = "set",
                        NEW p \in Parsers \ missed'[t]
                 PROVE  p \in snap'[t] <=> p \in Seen(t)'
      OBVIOUS
    <3>1. t # s /\ pc[t] = "set" /\ p \notin missed[t]
      BY <1>0, <2>1 DEF TypeOK
    <3>2. lock'[p] = t <=> lock[p] = t
      BY <1>0, <2>1, <3>1
    <3>3. row'[p].status = row[p].status
      BY <1>0, <2>1, <2>2, <3>1 DEF TypeOK
    <3> QED
      BY <1>0, <2>1, <3>1, <3>2, <3>3 DEF Seen, Active
  <2>6. L'
    <3> SUFFICES ASSUME NEW p \in Parsers \ behind'
                 PROVE  p \in redis' <=>
                          Active(IF writer # None /\ lock'[p] = writer
                                 THEN view[writer] ELSE row'[p])
      BY <2>1
    <3>1. p \notin behind
      BY <2>1
    <3>2. p \in redis <=> Active(IF Held(p) THEN view[writer] ELSE row[p])
      BY <1>0, <3>1
    <3>3. CASE p # on[s]
      <4>1. row'[p] = row[p] /\ lock'[p] = lock[p]
        BY <1>0, <2>1, <2>2, <2>3, <3>3 DEF TypeOK
      <4> QED
        BY <2>1, <3>2, <4>1
    <3>4. CASE p = on[s] /\ op[s] = "same"
      <4>1. row'[p] = row[p] /\ lock'[p] = lock[p]
        BY <1>0, <2>1, <2>2, <2>3, <3>4 DEF TypeOK
      <4> QED
        BY <2>1, <3>2, <4>1
    <3>5. CASE p = on[s] /\ op[s] # "same"
      <4>1. lock[p] = s /\ lock'[p] = None /\ row'[p].status = view[s].status
        BY <1>0, <2>1, <2>2, <3>5 DEF TypeOK
      <4>2. CASE writer = s
        BY <1>0, <2>1, <3>2, <4>1, <4>2 DEF Active
      <4>3. CASE writer # s
        <5>1. row'[p].status = row[p].status
          BY <1>0, <2>1, <2>2, <3>5, <4>3 DEF TypeOK
        <5> QED
          BY <1>0, <2>1, <3>2, <4>1, <4>3, <5>1 DEF Active
      <4> QED
        BY <4>2, <4>3
    <3> QED
      BY <3>3, <3>4, <3>5
  <2> QED
    BY <1>q, <2>4, <2>5, <2>6
<1>4. ASSUME NEW s \in Sessions, Abort(s) PROVE Snapshot'
  <2> DEFINE lost == writer = s /\ view[s].status # row[on[s]].status
  <2>1. /\ pc' = [pc EXCEPT ![s] = "aborted"] /\ pc[s] \in InTx
        /\ redis' = redis /\ writer' = writer /\ snap' = snap /\ view' = view
        /\ row' = row
        /\ lock' = [p \in Parsers |-> IF lock[p] = s THEN None ELSE lock[p]]
        /\ behind' = IF lost THEN behind \cup {on[s]} ELSE behind
        /\ \A t \in Sessions : missed'[t] = missed[t]
    BY <1>4 DEF Abort, Note, Released, Goto
  <2>2. \A p \in Parsers : lock[p] = s => p = on[s]
    BY <1>0 DEF Locking
  <2>3. W'
    BY <1>0, <2>1 DEF TypeOK
  <2>4. S'
    <3> SUFFICES ASSUME NEW t \in Sessions, pc'[t] = "set",
                        NEW p \in Parsers \ missed[t]
                 PROVE  p \in snap'[t] <=> p \in Seen(t)'
      BY <2>1
    <3>1. t # s /\ pc[t] = "set"
      BY <1>0, <2>1 DEF TypeOK
    <3>2. lock'[p] = t <=> lock[p] = t
      BY <1>0, <2>1, <3>1
    <3> QED
      BY <1>0, <2>1, <3>1, <3>2 DEF Seen, Active
  <2>5. L'
    <3> SUFFICES ASSUME NEW p \in Parsers \ behind'
                 PROVE  p \in redis <=>
                          Active(IF writer # None /\ lock'[p] = writer
                                 THEN view[writer] ELSE row[p])
      BY <2>1
    <3>1. p \in redis <=> Active(IF Held(p) THEN view[writer] ELSE row[p])
      BY <1>0, <2>1
    <3>2. CASE lock[p] # s
      BY <2>1, <3>1, <3>2
    <3>3. CASE lock[p] = s /\ writer # s
      BY <1>0, <2>1, <3>1, <3>3
    <3>4. CASE lock[p] = s /\ writer = s
      BY <1>0, <2>1, <2>2, <3>1, <3>4 DEF Active
    <3> QED
      BY <3>2, <3>3, <3>4
  <2> QED
    BY <1>q, <2>3, <2>4, <2>5
<1>5. ASSUME NEW s \in Sessions, Flush(s) PROVE Snapshot'
  <2>1. /\ pc[s] = "flush" /\ pc' = [pc EXCEPT ![s] = "push"] /\ on[s] \in Parsers
        /\ redis' = redis /\ writer' = writer /\ snap' = snap /\ row' = row
        /\ behind' = behind /\ missed' = missed
        /\ \A t \in Sessions : t # s => view'[t] = view[t]
        /\ \A p \in Parsers : lock'[p] # lock[p] => lock[p] = None /\ lock'[p] = s
    BY <1>0, <1>5 DEF Flush, Goto, TypeOK, Locking, InTx
  <2>2. writer # s /\ \A p \in Parsers : lock[p] # s
    BY <1>0, <2>1 DEF Locking, InTx
  <2>3. W'
    BY <1>0, <2>1 DEF TypeOK
  <2>4. S'
    <3> SUFFICES ASSUME NEW t \in Sessions, pc'[t] = "set",
                        NEW p \in Parsers \ missed[t]
                 PROVE  p \in snap'[t] <=> p \in Seen(t)'
      BY <2>1
    <3>1. t # s /\ pc[t] = "set" /\ view'[t] = view[t]
      BY <1>0, <2>1 DEF TypeOK
    <3>2. lock'[p] = t <=> lock[p] = t
      BY <1>0, <2>1, <3>1
    <3> QED
      BY <1>0, <2>1, <3>1, <3>2 DEF Seen, Active
  <2>5. L'
    <3> SUFFICES ASSUME NEW p \in Parsers \ behind
                 PROVE  p \in redis <=>
                          Active(IF writer # None /\ lock'[p] = writer
                                 THEN view'[writer] ELSE row[p])
      BY <2>1
    <3>1. p \in redis <=> Active(IF Held(p) THEN view[writer] ELSE row[p])
      BY <1>0
    <3>2. writer # None => lock'[p] = writer <=> lock[p] = writer
      BY <1>0, <2>1, <2>2
    <3>3. writer # None => view'[writer] = view[writer]
      BY <1>0, <2>1, <2>2 DEF TypeOK
    <3> QED
      BY <3>1, <3>2, <3>3
  <2> QED
    BY <1>q, <2>3, <2>4, <2>5
<1>6. ASSUME NEW s \in Sessions, FlushFails(s) PROVE Snapshot'
  <2>1. /\ pc[s] = "await"
        /\ \E w \in {"push", "aborted"} : pc' = [pc EXCEPT ![s] = w]
        /\ UNCHANGED cached /\ row' = row /\ view' = view
        /\ \A p \in Parsers : lock'[p] = lock[p] \/ (lock[p] = s /\ lock'[p] = None)
    BY <1>6 DEF FlushFails, Goto, Released
  <2>2. writer # s
    BY <1>0, <2>1
  <2>3. W'
    BY <1>0, <2>1 DEF TypeOK
  <2>4. S'
    <3> SUFFICES ASSUME NEW t \in Sessions, pc'[t] = "set",
                        NEW p \in Parsers \ missed[t]
                 PROVE  p \in snap'[t] <=> p \in Seen(t)'
      BY <2>1
    <3>1. t # s /\ pc[t] = "set"
      BY <1>0, <2>1 DEF TypeOK
    <3>2. lock'[p] = t <=> lock[p] = t
      BY <1>0, <2>1, <3>1
    <3> QED
      BY <1>0, <2>1, <3>1, <3>2 DEF Seen, Active
  <2>5. L'
    <3> SUFFICES ASSUME NEW p \in Parsers \ behind
                 PROVE  p \in redis <=>
                          Active(IF writer # None /\ lock'[p] = writer
                                 THEN view[writer] ELSE row[p])
      BY <2>1
    <3>1. p \in redis <=> Active(IF Held(p) THEN view[writer] ELSE row[p])
      BY <1>0
    <3>2. writer # None => lock'[p] = writer <=> lock[p] = writer
      BY <1>0, <2>1, <2>2
    <3> QED
      BY <3>1, <3>2
  <2> QED
    BY <1>q, <2>3, <2>4, <2>5
<1>7. ASSUME NEW s \in Sessions,
             \/ \E p \in Parsers : Request(s, p)
             \/ Refuse(s) \/ InsertRefused(s) \/ Push(s) \/ Answered(s)
             \/ RedisFails(s)
      PROVE  Snapshot'
  <2>1. /\ \E w \in {"flush", "refused", "aborted", "await", "select", "commit"} :
             pc' = [pc EXCEPT ![s] = w]
        /\ pc[s] \in {"idle", "flush", "push", "await", "select", "set"}
        /\ UNCHANGED <<cached, row, lock>>
        /\ view' # view => pc[s] = "idle"
        /\ \A t \in Sessions : t # s => view'[t] = view[t]
    BY <1>0, <1>7
    DEF Request, register, update, transition, Begin, Arrive, Refuse,
        InsertRefused, Push, Answered, RedisFails, Goto, TypeOK
  <2>2. writer # s
    BY <1>0, <2>1
  <2>3. pc[s] = "idle" => \A p \in Parsers : lock[p] # s
    BY <1>0 DEF Locking, InTx
  <2>4. W'
    BY <1>0, <2>1 DEF TypeOK
  <2>5. S'
    BY <1>0, <2>1, <2>3 DEF TypeOK, Seen, Active
  <2>6. L'
    <3>1. writer # None => view'[writer] = view[writer]
      BY <1>0, <2>1, <2>2 DEF TypeOK
    <3> QED
      BY <1>0, <2>1, <3>1
  <2> QED
    BY <1>q, <2>4, <2>5, <2>6
<1>8. ASSUME \/ \E s \in Sessions :
                  \/ Work(s) \/ Unreachable(s)
                  \/ \E status \in AckStatuses : process_ack(s, status)
             \/ WorkerRestarts \/ UNCHANGED vars
      PROVE  Snapshot'
  <2>1. UNCHANGED <<cached, row, lock, pc, view>>
    BY <1>8
    DEF Work, WorkerChecks, WorkerAdopts, WorkerFails, Unreachable, process_ack,
        WorkerRestarts, vars
  <2> QED
    BY <2>1 DEF Snapshot, Seen
<1> QED
  BY <1>1, <1>2, <1>3, <1>4, <1>5, <1>6, <1>7, <1>8 DEF Next, Serve

\* The snapshot of all parsers that Redis holds is wrong only about a parser
\* whose last change it missed, for any number of requests on any parsers and
\* whatever fails (config_service.py: _build_parsers selects inside the
\* transaction, _sync_redis_snapshot writes before the commit).
THEOREM RedisStaysCurrent == Spec => []RedisCurrent
<1>1. Init => Snapshot
  BY DistributionAssumption DEF Init, Snapshot, Active
<1>2. IInv /\ Snapshot => RedisCurrent
  <2> SUFFICES ASSUME IInv, Snapshot, NEW p \in Parsers \ behind,
                      lock[p] = None \/ pc[lock[p]] # "commit"
               PROVE  p \in redis <=> Active(row[p])
    BY DEF RedisCurrent
  <2>1. writer # None => lock[p] # writer
    <3>1. writer # None => /\ writer \in Sessions
                           /\ pc[writer] \in {"commit", "committed", "aborted"}
      BY DEF IInv, TypeOK, Snapshot
    <3>2. lock[p] # None => pc[lock[p]] \in InTx
      BY DEF IInv, Locking
    <3> QED
      BY <3>1, <3>2 DEF InTx
  <2> QED
    BY <2>1 DEF Snapshot
<1> QED
  BY <1>1, <1>2, DistributionInvariant, NextSnapshot, PTL DEF Spec
=============================================================================
