------------------------- MODULE ConfigDistribution --------------------------
(***************************************************************************)
(* M6: requests to the parser registry, each in a database transaction of  *)
(* its own (READ COMMITTED), which push their configuration event to the   *)
(* synchronisation worker and refresh the Redis snapshot of all parsers    *)
(* before they commit.  A session reads its parser's row without a lock    *)
(* and locks it from its first flush to its end, unless the request        *)
(* changes no column.                                                      *)
(*                                                                         *)
(* Of the worker (ConfigSync) this module keeps what decides an answer for *)
(* a parser: the recorded ACKs, the version to beat and the adoption after *)
(* the check.                                                              *)
(***************************************************************************)
EXTENDS Naturals, FiniteSets

CONSTANTS
  Sessions,     \* requests to the parser registry
  Parsers,      \* the ids of parsers
  Databases,    \* the tables of parsers a behaviour may start from
  None,         \* no session
  MaxVersion,   \* bound: parser versions are 1..MaxVersion
  MaxRetries,   \* DistributionTargetState.max_retries
  MaxOpen,      \* bound: requests in progress at a time
  MaxFaults     \* bound: database, network and Redis failures and restarts

ASSUME DistributionAssumption ==
  /\ IsFiniteSet(Sessions) /\ None \notin Sessions
  /\ MaxVersion \in Nat \ {0} /\ MaxRetries \in Nat \ {0}
  /\ MaxOpen \in Nat /\ MaxFaults \in Nat

Versions == 1..MaxVersion

VARIABLES
  row,       \* row[p]: the committed row of parser p
  lock,      \* lock[p]: the session that holds the row
  pc,        \* pc[s]: where the request is
  on,        \* on[s]: the parser it is about
  op,        \* op[s]: "register", "transition", or an update that changes
             \* the version, other columns ("edit") or nothing ("same")
  view,      \* view[s]: the Parser object of the session
  target,    \* target[s]: status of the session's DistributionTargetState
  attempt,   \* attempt[s]: its retry_count
  broken,    \* sessions whose transaction a failed flush has ended
  redis,     \* the active parsers that config:parsers lists
  snap,      \* snap[s]: the list the session selected and has not yet set
  wire,      \* sessions whose event is on its way to the worker
  applying,  \* sessions whose event passed the worker's checks
  reply,     \* reply[s]: what push_configuration returned or will return
  acks,      \* acks[s]: the ACK the worker has recorded for s
  bar,       \* bar[p]: the worker's active version of p, 0 for none
  applied,   \* history: sessions whose event the worker ever adopted
  told,      \* history: distributions somebody acknowledged through the API
  writer,    \* history: the session that wrote config:parsers last
  missed,    \* history: missed[s], what was changed and committed since snap[s]
  behind,    \* history: the parsers whose last change config:parsers missed
  faults

database == <<row, lock>>
session == <<pc, on, op, view, target, attempt, broken, told>>
worker == <<wire, applying, reply, acks, bar, applied>>
cached == <<redis, snap, writer, missed, behind>>
vars == <<database, session, worker, cached, faults>>

Statuses == {"DRAFT", "PENDING_APPROVAL", "APPROVED", "ACTIVE", "DISABLED",
             "ROLLED_BACK"}
NoRow == [status |-> "absent", version |-> 0]
Rows == [status : Statuses, version : Versions] \cup {NoRow}

ASSUME DatabaseAssumption == Databases \subseteq [Parsers -> Rows]

InTx == {"flush", "push", "await", "select", "set", "commit"}
Ended == {"committed", "aborted", "refused"}

TypeOK ==
  /\ row \in [Parsers -> Rows] /\ lock \in [Parsers -> Sessions \cup {None}]
  /\ pc \in [Sessions -> {"idle"} \cup InTx \cup Ended]
  /\ on \in [Sessions -> Parsers \cup {None}]
  /\ op \in [Sessions -> {"none", "register", "transition", "update", "edit",
                         "same"}]
  /\ view \in [Sessions -> Rows]
  /\ target \in [Sessions -> {"none", "SENT", "ACKNOWLEDGED", "FAILED"}]
  /\ attempt \in [Sessions -> 0..MaxRetries]
  /\ broken \subseteq Sessions /\ told \subseteq Sessions
  /\ wire \subseteq Sessions /\ applying \subseteq Sessions
  /\ reply \in [Sessions -> {"none", "APPLIED", "FAILED", "UNREACHED"}]
  /\ acks \in [Sessions -> {"none", "APPLIED", "FAILED"}]
  /\ applied \subseteq Sessions
  /\ bar \in [Parsers -> 0..MaxVersion]
  /\ redis \subseteq Parsers /\ snap \in [Sessions -> SUBSET Parsers]
  /\ writer \in Sessions \cup {None}
  /\ missed \in [Sessions -> SUBSET Parsers] /\ behind \subseteq Parsers
  /\ faults \in 0..MaxFaults

\* _build_parsers lists the active ones.
Active(r) == r.status = "ACTIVE"

\* The database and Redis as earlier requests left them, the worker restarted.
Init ==
  /\ row \in Databases /\ lock = [p \in Parsers |-> None]
  /\ pc = [s \in Sessions |-> "idle"]
  /\ on = [s \in Sessions |-> None]
  /\ op = [s \in Sessions |-> "none"]
  /\ view = [s \in Sessions |-> NoRow]
  /\ target = [s \in Sessions |-> "none"]
  /\ attempt = [s \in Sessions |-> 0]
  /\ broken = {} /\ told = {}
  /\ wire = {} /\ applying = {} /\ applied = {}
  /\ acks = [s \in Sessions |-> "none"]
  /\ reply = [s \in Sessions |-> "none"]
  /\ bar = [p \in Parsers |-> 0]
  /\ redis = {p \in Parsers : Active(row[p])}
  /\ snap = [s \in Sessions |-> {}] /\ missed = [s \in Sessions |-> {}]
  /\ writer = None /\ behind = {}
  /\ faults = 0

Fault == faults < MaxFaults /\ faults' = faults + 1
Goto(s, where) == pc' = [pc EXCEPT ![s] = where]
Released(s) == [p \in Parsers |-> IF lock[p] = s THEN None ELSE lock[p]]
-----------------------------------------------------------------------------
(* ParserRegistry: the request reads the row, checks and sets its object. *)

\* The lifecycle methods and what PARSER_TRANSITIONS allows.
Targets == {"PENDING_APPROVAL", "APPROVED", "ACTIVE", "DISABLED",
            "ROLLED_BACK"}

Allowed(from) ==
  CASE from = "DRAFT"            -> {"PENDING_APPROVAL"}
    [] from = "PENDING_APPROVAL" -> {"APPROVED", "DRAFT"}
    [] from = "APPROVED"         -> {"ACTIVE"}
    [] from = "ACTIVE"           -> {"DISABLED", "ROLLED_BACK"}
    [] from = "ROLLED_BACK"      -> {"ACTIVE"}
    [] from = "DISABLED"         -> {"ACTIVE"}
    [] OTHER                     -> {}

Open == {s \in Sessions : pc[s] \in InTx}

Arrive(s) == pc[s] = "idle" /\ Cardinality(Open) < MaxOpen

Begin(s, p, kind, object) ==
  /\ Arrive(s)
  /\ on' = [on EXCEPT ![s] = p]
  /\ op' = [op EXCEPT ![s] = kind]
  /\ view' = [view EXCEPT ![s] = object]
  /\ Goto(s, "flush")
  /\ UNCHANGED <<database, target, attempt, broken, told, worker, cached, faults>>

register(s, p, v) ==
  row[p] = NoRow /\ Begin(s, p, "register", [status |-> "DRAFT", version |-> v])

transition(s, p, t) ==
  /\ t \in Allowed(row[p].status)
  /\ Begin(s, p, "transition", [row[p] EXCEPT !.status = t])

\* A PATCH that gives no new version edits other columns, or none: then the
\* values and the actor are the ones loaded.
update(s, p, v) ==
  /\ row[p] # NoRow
  /\ \E kind \in IF v = row[p].version THEN {"edit", "same"} ELSE {"update"} :
       Begin(s, p, kind, [row[p] EXCEPT !.version = v])

\* DuplicateError, ParserNotFound or InvalidStateTransition.
Refuse(s) ==
  /\ Arrive(s)
  /\ Goto(s, "refused")
  /\ UNCHANGED <<database, on, op, view, target, attempt, broken, told, worker,
                 cached, faults>>

\* The first flush waits for the row, except that of an update that changes
\* nothing, which sends no UPDATE.  An UPDATE sets the changed column of the
\* row as it is by then; only update() refreshes its object.  The audit and
\* outbox records follow in the same transaction, the target SENT.
Flush(s) ==
  LET p == on[s]
  IN  /\ pc[s] = "flush" /\ (op[s] # "same" => lock[p] = None)
      /\ op[s] = "register" => row[p] = NoRow
      /\ lock' = IF op[s] = "same" THEN lock ELSE [lock EXCEPT ![p] = s]
      /\ view' = [view EXCEPT ![s] =
                    CASE op[s] = "update"             -> [@ EXCEPT !.status = row[p].status]
                      [] op[s] \in {"edit", "same"}   -> row[p]
                      [] op[s] \in {"register", "transition"} -> @]
      /\ target' = [target EXCEPT ![s] = "SENT"]
      /\ Goto(s, "push")
      /\ UNCHANGED <<row, on, op, attempt, broken, told, worker, cached, faults>>

\* The parser id was taken meanwhile: the unique index refuses the INSERT.
InsertRefused(s) ==
  /\ pc[s] = "flush" /\ lock[on[s]] = None
  /\ op[s] = "register" /\ row[on[s]] # NoRow
  /\ Goto(s, "aborted")
  /\ UNCHANGED <<database, on, op, view, target, attempt, broken, told, worker,
                 cached, faults>>
-----------------------------------------------------------------------------
(* _dispatch_single_target and push_configuration. *)

\* M6 is configured with the worker's address.
Push(s) ==
  /\ pc[s] = "push"
  /\ attempt' = [attempt EXCEPT ![s] = @ + 1]
  /\ wire' = wire \cup {s}
  /\ reply' = [reply EXCEPT ![s] = "none"]
  /\ Goto(s, "await")
  /\ UNCHANGED <<database, on, op, view, target, broken, told, applying, acks,
                 bar, applied, cached, faults>>

\* Mutant: any answer of the worker counts as an acknowledgement.
AnsweredAcknowledged(s) ==
  /\ pc[s] = "await" /\ reply[s] # "none" /\ s \notin broken
  /\ target' = [target EXCEPT ![s] = "ACKNOWLEDGED"]
  /\ Goto(s, "select")
  /\ UNCHANGED <<database, on, op, view, attempt, broken, told, worker, cached,
                 faults>>

\* APPLIED acknowledges; any other status fails the target, without a retry.
Answered(s) ==
  /\ pc[s] = "await" /\ reply[s] # "none" /\ s \notin broken
  /\ target' = [target EXCEPT ![s] = IF reply[s] = "APPLIED"
                                     THEN "ACKNOWLEDGED" ELSE "FAILED"]
  /\ Goto(s, "select")
  /\ UNCHANGED <<database, on, op, view, attempt, broken, told, worker, cached,
                 faults>>

\* The answer of a push still waited for.
Reply(s, status) ==
  reply' = IF reply[s] = "none" THEN [reply EXCEPT ![s] = status] ELSE reply

\* Refused, timed out or no 200: push_configuration answers FAILED itself; the
\* event is lost or still under way.
Unreachable(s) ==
  /\ Fault /\ pc[s] = "await" /\ reply[s] = "none"
  /\ wire' \in {wire, wire \ {s}}
  /\ Reply(s, "UNREACHED")
  /\ UNCHANGED <<database, session, applying, acks, bar, applied, cached>>

\* The flush after the answer raises inside the retry loop, and so does every
\* later one: the event may be pushed again, and the request ends in error.
FlushFails(s) ==
  /\ pc[s] = "await" /\ reply[s] # "none"
  /\ IF s \in broken THEN UNCHANGED faults ELSE Fault
  /\ broken' = broken \cup {s}
  /\ \/ attempt[s] < MaxRetries /\ Goto(s, "push") /\ UNCHANGED lock
     \/ Goto(s, "aborted") /\ lock' = Released(s)
  /\ UNCHANGED <<row, on, op, view, target, attempt, told, worker, cached>>
-----------------------------------------------------------------------------
(* _sync_redis_snapshot and the end of the transaction. *)

\* Mutant: the snapshot is built from the committed rows.
SeenCommitted(s) == {p \in Parsers : Active(row[p])}

\* A SELECT sees the committed rows and what its own transaction wrote.
Seen(s) == {p \in Parsers : Active(IF lock[p] = s THEN view[s] ELSE row[p])}

SelectParsers(s) ==
  /\ pc[s] = "select"
  /\ snap' = [snap EXCEPT ![s] = Seen(s)]
  /\ missed' = [missed EXCEPT ![s] = {}]
  /\ Goto(s, "set")
  /\ UNCHANGED <<database, on, op, view, target, attempt, broken, told, worker,
                 redis, writer, behind, faults>>

SetRedis(s) ==
  /\ pc[s] = "set"
  /\ redis' = snap[s] /\ snap' = [snap EXCEPT ![s] = {}]
  /\ behind' = missed[s] /\ missed' = [missed EXCEPT ![s] = {}]
  /\ writer' = s
  /\ Goto(s, "commit")
  /\ UNCHANGED <<database, on, op, view, target, attempt, broken, told, worker,
                 faults>>

\* A Redis error is swallowed.
RedisFails(s) ==
  /\ Fault /\ pc[s] \in {"select", "set"}
  /\ Goto(s, "commit")
  /\ UNCHANGED <<database, on, op, view, target, attempt, broken, told, worker,
                 cached>>

\* History, at the end of s: lost, if Redis does not show what became of its
\* parser; changed, if its commit changed what others may have selected.
Note(s, lost, changed) ==
  /\ behind' = IF lost THEN behind \cup {on[s]} ELSE behind
  /\ missed' = [t \in Sessions |-> IF changed /\ pc[t] = "set"
                                   THEN missed[t] \cup {on[s]} ELSE missed[t]]
  /\ UNCHANGED <<redis, snap, writer>>

\* Mutant: the whole object is written back.
WrittenWhole(s) == view[s]

\* What the session changed: a transition only the status, no column at all if
\* the values were the ones loaded.
Written(s) ==
  CASE op[s] = "transition" -> [row[on[s]] EXCEPT !.status = view[s].status]
    [] op[s] = "same"       -> row[on[s]]
    [] op[s] \in {"register", "update", "edit"} -> view[s]

\* dep_db commits.
Commit(s) ==
  LET changes == Written(s).status # row[on[s]].status
  IN  /\ pc[s] = "commit"
      /\ row' = [row EXCEPT ![on[s]] = Written(s)]
      /\ lock' = Released(s)
      /\ Note(s, changes /\ writer # s, changes)
      /\ Goto(s, "committed")
      /\ UNCHANGED <<on, op, view, target, attempt, broken, told, worker, faults>>

\* Mutant: a failed transaction keeps its row.
AbortLocked(s) ==
  /\ Fault /\ pc[s] \in InTx
  /\ Goto(s, "aborted")
  /\ UNCHANGED <<database, on, op, view, target, attempt, broken, told, worker,
                 cached>>

\* A statement or the commit fails, or the process dies: the transaction is
\* rolled back.
Abort(s) ==
  /\ Fault /\ pc[s] \in InTx
  /\ lock' = Released(s)
  /\ Note(s, writer = s /\ view[s].status # row[on[s]].status, FALSE)
  /\ Goto(s, "aborted")
  /\ UNCHANGED <<row, on, op, view, target, attempt, broken, told, worker>>

\* process_ack takes the caller's word for a committed distribution and its
\* version: the endpoint asks for no credentials, and the status is compared
\* with nothing.  An unknown distribution or another version is refused, a
\* repeated APPLIED changes nothing.
process_ack(s, status) ==
  /\ pc[s] = "committed" /\ ~(target[s] = "ACKNOWLEDGED" /\ status = "APPLIED")
  /\ target' = [target EXCEPT ![s] = IF status = "APPLIED" THEN "ACKNOWLEDGED"
                                     ELSE "FAILED"]
  /\ told' = told \cup {s}
  /\ UNCHANGED <<database, pc, on, op, view, attempt, broken, worker, cached,
                 faults>>
-----------------------------------------------------------------------------
(* The worker. *)

Stale(s) == bar[on[s]] # 0 /\ view[s].version <= bar[on[s]]

\* The checks of apply_configuration: a recorded ACK is repeated, a version
\* that is not newer is refused, anything else goes on to M2.
WorkerChecks(s) ==
  /\ s \in wire
  /\ wire' = wire \ {s}
  /\ IF acks[s] = "none" /\ ~Stale(s)
     THEN applying' = applying \cup {s} /\ UNCHANGED reply
     ELSE /\ Reply(s, IF acks[s] # "none" THEN acks[s] ELSE "FAILED")
          /\ UNCHANGED applying
  /\ UNCHANGED <<database, session, acks, bar, applied, cached, faults>>

\* Registered with M2, written and verified: recorded and answered APPLIED.
WorkerAdopts(s) ==
  /\ s \in applying
  /\ applying' = applying \ {s}
  /\ acks' = [acks EXCEPT ![s] = "APPLIED"]
  /\ applied' = applied \cup {s}
  /\ bar' = [bar EXCEPT ![on[s]] = view[s].version]
  /\ Reply(s, "APPLIED")
  /\ UNCHANGED <<database, session, wire, cached, faults>>

\* The handler raises or adoption cannot be verified: recorded and answered, as
\* FAILED or another status that is not APPLIED.
WorkerFails(s) ==
  /\ s \in applying
  /\ applying' = applying \ {s}
  /\ acks' = [acks EXCEPT ![s] = "FAILED"]
  /\ Reply(s, "FAILED")
  /\ UNCHANGED <<database, session, wire, bar, applied, cached, faults>>

\* The worker's memory is lost; the pushes it was working on fail.
WorkerRestarts ==
  /\ Fault
  /\ acks' = [s \in Sessions |-> "none"]
  /\ bar' = [p \in Parsers |-> 0] /\ applying' = {}
  /\ reply' = [s \in Sessions |-> IF s \in applying /\ reply[s] = "none"
                                  THEN "FAILED" ELSE reply[s]]
  /\ UNCHANGED <<database, session, wire, applied, cached>>
-----------------------------------------------------------------------------
Serve(s) == \/ Flush(s) \/ InsertRefused(s)
            \/ Push(s) \/ Answered(s) \/ FlushFails(s)
            \/ SelectParsers(s) \/ SetRedis(s) \/ Commit(s)

Work(s) == WorkerChecks(s) \/ WorkerAdopts(s) \/ WorkerFails(s)

Request(s, p) == \/ \E v \in Versions : register(s, p, v) \/ update(s, p, v)
                 \/ \E t \in Targets : transition(s, p, t)

AckStatuses == {"APPLIED", "REJECTED", "FAILED"}

Next == \/ \E s \in Sessions :
             \/ \E p \in Parsers : Request(s, p)
             \/ Refuse(s)
             \/ Serve(s) \/ Work(s)
             \/ Unreachable(s) \/ RedisFails(s) \/ Abort(s)
             \/ \E status \in AckStatuses : process_ack(s, status)
        \/ WorkerRestarts

Spec == Init /\ [][Next]_vars

\* The event loops of M6 and of the worker run every ready task; PostgreSQL
\* grants a lock that is free again and again; a push ends, answered or not.
FairSpec == /\ Spec
            /\ \A s \in Sessions : SF_vars(Serve(s)) /\ WF_vars(Work(s))
-----------------------------------------------------------------------------
(* Properties. *)

\* Requests that are over, of whose configuration the worker runs and M6 knows
\* nothing: rolled back after the push, or committed with a FAILED target.
Unknown == {s \in applied : \/ pc[s] = "aborted"
                            \/ pc[s] = "committed" /\ target[s] # "ACKNOWLEDGED"}

\* M6's record of a distribution is the worker's, though the push is made
\* before the commit and may be adopted after its time-out.  What M6 shows
\* ACKNOWLEDGED was adopted, and each configuration that was adopted and is not
\* acknowledged has cost a fault of its own: a lost answer, a failed flush or
\* commit.  Where somebody called POST /configuration/ack, M6 shows what it was
\* told.
AckTruthful ==
  /\ \A s \in Sessions \ told : target[s] = "ACKNOWLEDGED" => s \in applied
  /\ Cardinality(Unknown \ told) <= faults

\* No update is lost between requests that read the row before they locked
\* it: a transition keeps the version another request committed meanwhile, an
\* update the status, an edit both, and nothing else writes the row.
NothingLost ==
  [][\A p \in Parsers : row'[p] # row[p] =>
       \E s \in Sessions :
         /\ pc[s] = "commit" /\ pc'[s] = "committed" /\ lock[p] = s
         /\ op[s] \in {"transition", "update", "register"}
         /\ op[s] = "transition" => row'[p].version = row[p].version
         /\ op[s] = "update" => row'[p].status = row[p].status
         /\ op[s] = "register" => row[p] = NoRow]_vars

\* config:parsers is one snapshot of all parsers, written before the commit by
\* whichever request comes last.  It lists a parser exactly when the committed
\* row is active (while a request that is about to commit does not hold it),
\* whatever failed before, except where it missed that parser's last change: it
\* was selected before the change was committed and written after the change's
\* own snapshot, or its writer was rolled back, or the write failed.
RedisCurrent ==
  \A p \in Parsers \ behind :
    (lock[p] = None \/ pc[lock[p]] # "commit") => (p \in redis <=> Active(row[p]))

\* Every request ends, whatever locks, retries and failures it meets: in the
\* end, and for good, no transaction is open (requests are finitely many).
EveryRequestEnds == <>[](\A s \in Sessions : pc[s] \notin InTx)

-----------------------------------------------------------------------------
(* The inductive invariant behind AckTruthful and NothingLost. *)

\* From its first flush on a request holds its row, unless it changes nothing;
\* an update then sees its status, an edit all of it, and a registration that
\* there is none.
Locking ==
  /\ \A p \in Parsers : lock[p] # None =>
       /\ pc[lock[p]] \in InTx \ {"flush"}
       /\ on[lock[p]] = p /\ op[lock[p]] # "same"
  /\ \A s \in Sessions :
       /\ pc[s] \in InTx => on[s] \in Parsers /\ op[s] # "none"
       /\ pc[s] \in InTx \ {"flush"} /\ op[s] # "same" => lock[on[s]] = s
       /\ pc[s] \in InTx \ {"flush"} =>
            /\ op[s] = "update" => view[s].status = row[on[s]].status
            /\ op[s] = "edit" => view[s] = row[on[s]]
            /\ op[s] = "register" => row[on[s]] = NoRow

\* What the worker records and answers APPLIED it has adopted.
Adopted ==
  \A s \in Sessions : acks[s] = "APPLIED" \/ reply[s] = "APPLIED" => s \in applied

\* What the worker has met was pushed; a failed flush leads to an abort only.
Pushed ==
  /\ \A s \in wire \cup applying \cup applied :
       attempt[s] > 0 /\ on[s] \in Parsers /\ view[s] # NoRow
  /\ \A s \in broken : pc[s] \in {"push", "await", "aborted"}

\* An event is pushed once unless a flush has failed: it is under way, being
\* applied or adopted; while the worker has it, it is unanswered, and once
\* adopted it is answered APPLIED, or the answer was lost.
PushedOnce ==
  \A s \in Sessions \ broken :
    /\ pc[s] = "push" => attempt[s] = 0
    /\ s \in wire => s \notin applying
    /\ s \in wire \cup applying =>
         s \notin applied /\ reply[s] \in {"none", "UNREACHED"}
    /\ s \in applied => reply[s] \in {"APPLIED", "UNREACHED"}

\* The target's status is the worker's answer.
Recorded ==
  \A s \in Sessions \ told :
    /\ target[s] = "ACKNOWLEDGED" => reply[s] = "APPLIED"
    /\ pc[s] \in {"select", "set", "commit", "committed"} =>
         /\ reply[s] # "none"
         /\ target[s] = "ACKNOWLEDGED" \/ reply[s] # "APPLIED"
    /\ pc[s] \in {"idle", "flush", "push", "await"} => target[s] # "ACKNOWLEDGED"

Answers == Adopted /\ Pushed /\ PushedOnce /\ Recorded

\* Objects in use are rows with a status; attempts stay below the bound.
Objects ==
  \A s \in Sessions :
    /\ pc[s] \in InTx \cup {"committed"} => view[s] # NoRow
    /\ pc[s] \in InTx /\ op[s] # "register" => row[on[s]] # NoRow
    /\ pc[s] \in {"idle", "flush"} => attempt[s] = 0
    /\ pc[s] = "push" => attempt[s] < MaxRetries

\* The requests a fault was spent on.
Spent == {s \in Sessions : \/ s \in broken \/ reply[s] = "UNREACHED"
                           \/ pc[s] = "aborted" /\ attempt[s] > 0}

Paid == Cardinality(Spent) <= faults

IInv == TypeOK /\ Locking /\ Answers /\ Objects /\ Paid

\* Behind RedisCurrent: a snapshot that is not yet written agrees with the rows
\* its session sees, but for what was committed since; Redis agrees with the
\* rows its writer sees, but for what it missed.
Snapshot ==
  /\ \A s \in Sessions :
       /\ writer = s => pc[s] \in {"commit", "committed", "aborted"}
       /\ pc[s] = "set" => \A p \in Parsers \ missed[s] : p \in snap[s] <=> p \in Seen(s)
  /\ \A p \in Parsers \ behind :
       p \in redis <=>
         Active(IF writer # None /\ lock[p] = writer THEN view[writer] ELSE row[p])
=============================================================================
