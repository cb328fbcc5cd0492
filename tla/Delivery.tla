------------------------------ MODULE Delivery ------------------------------
(***************************************************************************)
(* The durable delivery core: outbox rows, the append-only receipts, the   *)
(* tasks ("lanes") that create or claim a row and hand one attempt of it   *)
(* to a transport, and the asynchronous feedback of deferred transports.   *)
(*                                                                         *)
(* A lane is one run of RetryWorker._retry_outbox_item (a dispatcher lane) *)
(* or of DeliveryCoordinator._execute_owned_delivery (a pipeline lane).    *)
(* Its id is its worker_id; ids are fresh in the code, here an id is       *)
(* reused only once no row but the one being taken carries it.  Each       *)
(* action is the code between two awaits on storage or on the transport.   *)
(***************************************************************************)
EXTENDS OutboxRow, Sequences

CONSTANTS Rows,         \* outbox ids
          NoRow,
          Targets,      \* event-scoped delivery identities
          TargetOf,     \* the identity an outbox id belongs to
          AdapterOf,    \* the adapter that serves a target
          Hosts,        \* processes sharing the database
          Host,         \* the process a lane runs in
          Origins,      \* how the row of an id may come into being
          Bounded,      \* rows whose delivery carries a deadline
          Outcomes,     \* what deliver() of the adapters may come back with
          MaxAttempts,  \* RetryPolicy.max_attempts
          AttemptCap    \* bound of the model on generations

ASSUME RowsAssumption ==
  /\ NoRow \notin Rows
  /\ TargetOf \in [Rows -> Targets]
  /\ Origins \in [Rows -> SUBSET {"staged", "direct", "replay"}]
ASSUME LanesAssumption == Host \in [Lanes -> Hosts]
ASSUME OutcomesAssumption == Outcomes \subseteq {"sent", "queued", "transient", "permanent"}
ASSUME BudgetAssumption == MaxAttempts \in Nat \ {0} /\ AttemptCap \in Nat

VARIABLES
  rows,      \* the delivery_outbox table
  receipts,  \* per row, its receipts in insertion order
  lanes,     \* the running delivery tasks
  calls,     \* history: <<target, attempt>> whose native call was started
  deferred   \* hand-offs a transport accepted and has not reported on yet

vars == <<rows, receipts, lanes, calls, deferred>>

Receipt == [attempt: Nat, status: RECEIPT_STATUSES, retryable: BOOLEAN]

PCs == {"idle", "claimed", "reconciled", "prepared", "reserved", "dispatching",
        "authorized", "calling", "returned", "recorded", "raised", "unrecorded"}

Lane == [pc: PCs, row: Rows \cup {NoRow}, attempt: Nat, active: Nat,
         mode: {"pipeline", "initial", "retry"},
         result: {"none", "sent", "queued", "transient", "permanent"},
         receipt: Nat, inflight: BOOLEAN]

IdleLane == [pc |-> "idle", row |-> NoRow, attempt |-> 0, active |-> NULL, mode |-> "retry",
             result |-> "none", receipt |-> NULL, inflight |-> FALSE]

Init ==
  /\ rows = [r \in Rows |-> AbsentRow]
  /\ receipts = [r \in Rows |-> <<>>]
  /\ lanes = [l \in Lanes |-> IdleLane]
  /\ calls = {}
  /\ deferred = {}

------------------------------------------------------------------------------
(* Generations of one delivery identity. *)

Exists(r) == rows[r].status # "absent"
OfTarget(t) == {r \in Rows : TargetOf[r] = t /\ Exists(r)}

\* NOT EXISTS (sibling with effective attempt >= generation).
NoNewerGeneration(r, generation) ==
  \A s \in OfTarget(TargetOf[r]) \ {r} : Effective(rows[s]) < generation

\* create_outbox_item adopts a row at or beyond the requested attempt.
Adopted(t, attempt) ==
  \E s \in OfTarget(t) : rows[s].attempt >= attempt \/ rows[s].active >= attempt

Gen(l) == <<TargetOf[lanes[l].row], lanes[l].attempt>>

\* A worker id no other row still carries.
FreshId(l, r) == lanes[l].pc = "idle" /\ \A s \in Rows \ {r} : rows[s].worker # l

SetLane(l, lane) == lanes' = [lanes EXCEPT ![l] = lane]
SetRow(r, row) == rows' = [rows EXCEPT ![r] = row]
GoTo(l, pc) == SetLane(l, [lanes[l] EXCEPT !.pc = pc])
EndLane(l) == SetLane(l, IdleLane)
Record(r, new) == receipts' = [receipts EXCEPT ![r] = @ \o new]
Rcpt(attempt, status) == [attempt |-> attempt, status |-> status, retryable |-> FALSE]

------------------------------------------------------------------------------
(* Creation. *)

PipelineLane(r, attempt) ==
  [IdleLane EXCEPT !.pc = "dispatching", !.row = r, !.attempt = attempt,
                   !.mode = "pipeline", !.inflight = TRUE]

\* Durable ingress stages initial work: attempt 0, no owner.
Stage(r) ==
  /\ ~Exists(r) /\ "staged" \in Origins[r]
  /\ ~Adopted(TargetOf[r], 0)
  /\ SetRow(r, NewRow("pending", 0, NoLane, NoRun))
  /\ UNCHANGED <<receipts, lanes, calls, deferred>>

\* Live delivery that dispatches at once: attempt 1, owned by the pipeline.
CreateDirect(l, r) ==
  /\ ~Exists(r) /\ "direct" \in Origins[r]
  /\ FreshId(l, r)
  /\ ~Adopted(TargetOf[r], 1)
  /\ SetRow(r, NewRow("in_progress", 1, l, NoRun))
  /\ SetLane(l, PipelineLane(r, 1))
  /\ UNCHANGED <<receipts, calls, deferred>>

\* Mutant of NextGeneration: reservations are not counted.
NextNumber(t, generation) ==
  /\ \A s \in OfTarget(t) : rows[s].attempt < generation
  /\ generation = 1 \/ \E s \in OfTarget(t) : rows[s].attempt + 1 = generation

\* MAX(effective attempt) + 1 over the identity, 1 when it has no row.
NextGeneration(t, generation) ==
  /\ \A s \in OfTarget(t) : Effective(rows[s]) < generation
  /\ generation = 1 \/ \E s \in OfTarget(t) : Effective(rows[s]) + 1 = generation

\* Replay allocates a fresh generation, once per named run.
CreateReplay(l, r, run) ==
  /\ ~Exists(r) /\ "replay" \in Origins[r]
  /\ FreshId(l, r)
  /\ run # NoRun => \A s \in OfTarget(TargetOf[r]) : rows[s].run # run
  /\ \E generation \in 1..AttemptCap :
       /\ NextGeneration(TargetOf[r], generation)
       /\ SetRow(r, NewRow("in_progress", generation, l, run))
       /\ SetLane(l, PipelineLane(r, generation))
  /\ UNCHANGED <<receipts, calls, deferred>>

------------------------------------------------------------------------------
(* Claiming. *)

SameAdapter(r, s) == AdapterOf[TargetOf[r]] = AdapterOf[TargetOf[s]]

\* RetryWorker._active: adapters with a running dispatcher lane in this process.
Excluded(l, r) ==
  \E m \in Lanes : /\ Host[m] = Host[l]
                   /\ lanes[m].pc # "idle" /\ lanes[m].mode # "pipeline"
                   /\ SameAdapter(r, lanes[m].row)

\* one_per_adapter: another row of the adapter has an unexpired owner.
AdapterBusy(r) ==
  \E s \in Rows \ {r} : /\ SameAdapter(r, s)
                        /\ rows[s].status = "in_progress" /\ rows[s].lease = "live"

Claim(l, r) ==
  /\ FreshId(l, r)
  /\ Due(rows[r])
  /\ NoNewerGeneration(r, Effective(rows[r]))
  /\ ~Excluded(l, r)
  /\ ~AdapterBusy(r)
  /\ LET claimed == ClaimedBy(rows[r], l) IN
       /\ SetRow(r, claimed)
       /\ SetLane(l, [IdleLane EXCEPT !.pc = "claimed", !.row = r,
                                      !.attempt = claimed.attempt, !.active = claimed.active])
  /\ UNCHANGED <<receipts, calls, deferred>>

------------------------------------------------------------------------------
(* Guarded transitions of a lane's row.  A rejected compare-and-set leaves *)
(* the row alone; the lane ends either way.                                *)

NonTerminal == OUTBOX_STATUSES \ TERMINAL_OUTBOX_STATUSES

AllowedFrom(status) ==
  CASE status = "sent"                       -> {"in_progress", "queued"}
    [] status \in {"queued", "retry_wait"}   -> {"in_progress"}
    [] status = "dead_lettered"              -> {"in_progress", "retry_wait"}
    [] OTHER                                 -> NonTerminal

Mark(l, status, attempt, receipt) ==
  LET r == lanes[l].row IN
  rows' = IF /\ rows[r].status \in AllowedFrom(status)
             /\ rows[r].worker = l
             /\ AttemptFence(rows[r], attempt)
          THEN [rows EXCEPT ![r] = Leave(rows[r], status, attempt, receipt)]
          ELSE rows

\* Mutant of Finalizable: feedback settles whatever attempt the row is in.
FinalizableAny(r, attempt) == rows[r].status \in {"queued", "in_progress"}

\* Mutant of Finalizable: feedback also revises a settled row.
FinalizableLate(r, attempt) == Exists(r) /\ Effective(rows[r]) = attempt

\* The exact generation, still queued or in progress.
Finalizable(r, attempt) ==
  rows[r].status \in {"queued", "in_progress"} /\ Effective(rows[r]) = attempt

\* finalize_outbox_terminal / finalize_deferred_handoff: receipts and row
\* move in one transaction; the row points at the last receipt.
Finalize(r, status, new) ==
  /\ Record(r, new)
  /\ SetRow(r, Leave(rows[r], status, Effective(rows[r]), Len(receipts[r]) + Len(new)))

------------------------------------------------------------------------------
(* A dispatcher lane before it reserves an attempt. *)

Item(l) == lanes[l].row

\* Event or dispatch context gone, content no longer retained.
AbandonUnstarted(l) ==
  LET row == rows[Item(l)]
      keep == IF lanes[l].active = NULL THEN Effective(row) ELSE lanes[l].active IN
  /\ lanes[l].pc \in {"claimed", "reconciled"}
  /\ Mark(l, "abandoned", keep, NULL)
  /\ EndLane(l)
  /\ UNCHANGED <<receipts, calls, deferred>>

\* Snapshot unreadable, shutdown before start, initial preparation failed.
ReleaseUnstarted(l) ==
  LET r == Item(l) IN
  /\ lanes[l].pc \in {"claimed", "prepared"}
  /\ rows' = IF lanes[l].active = NULL /\ Owns(rows[r], l) /\ rows[r].active = NULL
             THEN [rows EXCEPT ![r].status = IF lanes[l].attempt = 0 THEN "pending"
                                             ELSE "retry_wait",
                               ![r].worker = NoLane, ![r].lease = "none"]
             ELSE rows
  /\ EndLane(l)
  /\ UNCHANGED <<receipts, calls, deferred>>

\* _retry_attempt_evidence: a terminal lifecycle receipt of the attempt, else
\* its latest receipt, else NULL.
Evidence(r, attempt) ==
  LET current == {i \in DOMAIN receipts[r] : receipts[r][i].attempt = attempt}
      terminal == {i \in current : receipts[r][i].status \in LIFECYCLE_TERMINALS}
      among == IF terminal # {} THEN terminal ELSE current IN
  IF current = {} THEN NULL ELSE CHOOSE i \in among : \A j \in among : j <= i

\* reconcile_retry_claim: evidence of the reserved (or next) attempt is
\* committed without a dispatch; a reservation without evidence is consumed.
Reconcile(l) ==
  LET lane == lanes[l]
      reserved == lane.active # NULL
      attempt == IF reserved THEN lane.active ELSE lane.attempt + 1
      found == Evidence(lane.row, attempt) IN
  /\ lane.pc = "claimed"
  /\ \/ /\ found # NULL
        /\ SetLane(l, [lane EXCEPT !.pc = "recorded", !.attempt = attempt, !.receipt = found])
     \/ /\ found = NULL /\ reserved
        /\ SetLane(l, [lane EXCEPT !.pc = "unrecorded", !.attempt = attempt,
                                   !.result = "transient"])
     \/ /\ found = NULL /\ ~reserved
        /\ GoTo(l, "reconciled")
  /\ UNCHANGED <<rows, receipts, calls, deferred>>

\* Adapter not started or no delivery capacity: back off, attempt unchanged.
Defer(l) ==
  /\ lanes[l].pc = "reconciled"
  /\ Mark(l, "retry_wait", lanes[l].attempt, NULL)
  /\ EndLane(l)
  /\ UNCHANGED <<receipts, calls, deferred>>

RenewedBy(l) == [rows EXCEPT ![Item(l)].lease = "live"]

\* Initial work is prepared under a renewed, still unreserved claim.
PrepareInitial(l) ==
  /\ lanes[l].pc = "reconciled" /\ lanes[l].attempt = 0
  /\ \/ Owns(rows[Item(l)], l) /\ rows' = RenewedBy(l) /\ GoTo(l, "prepared")
     \/ ~Owns(rows[Item(l)], l) /\ EndLane(l) /\ UNCHANGED rows
  /\ UNCHANGED <<receipts, calls, deferred>>

\* Mutant of CanReserve: siblings are not consulted.
CanReserveAlone(l) ==
  LET row == rows[Item(l)] IN
  /\ Owns(row, l)
  /\ row.active = NULL
  /\ row.attempt = lanes[l].attempt

\* reserve_outbox_attempt: durable identity of the dispatch about to begin.
CanReserve(l) ==
  LET row == rows[Item(l)] IN
  /\ Owns(row, l)
  /\ row.active = NULL
  /\ row.attempt = lanes[l].attempt
  /\ NoNewerGeneration(Item(l), row.attempt + 1)

Reserve(l) ==
  LET lane == lanes[l]
      attempt == lane.attempt + 1 IN
  /\ lane.pc = (IF lane.attempt = 0 THEN "prepared" ELSE "reconciled")
  /\ attempt <= AttemptCap
  /\ \/ /\ CanReserve(l)
        /\ rows' = [rows EXCEPT ![lane.row].active = attempt]
        /\ SetLane(l, [lane EXCEPT !.pc = "reserved", !.attempt = attempt,
                                   !.mode = IF lane.attempt = 0 THEN "initial" ELSE "retry"])
     \/ ~CanReserve(l) /\ EndLane(l) /\ UNCHANGED rows
  /\ UNCHANGED <<receipts, calls, deferred>>

\* The dispatch starts on a fresh lease or not at all.  Initial dispatches
\* register with the pipeline's in-flight map.
RenewReserved(l) ==
  /\ lanes[l].pc = "reserved"
  /\ \/ /\ Owns(rows[Item(l)], l)
        /\ rows' = RenewedBy(l)
        /\ SetLane(l, [lanes[l] EXCEPT !.pc = "dispatching",
                                       !.inflight = (lanes[l].mode = "initial")])
     \/ ~Owns(rows[Item(l)], l) /\ EndLane(l) /\ UNCHANGED rows
  /\ UNCHANGED <<receipts, calls, deferred>>

------------------------------------------------------------------------------
(* TargetDelivery.deliver_to_target: one reserved attempt. *)

\* authorize_native_submission; the content grant itself is outside this model.
Authorized(l) ==
  LET row == rows[Item(l)] IN
  /\ Owns(row, l)
  /\ \/ row.active = lanes[l].attempt
     \/ row.active = NULL /\ lanes[l].mode = "pipeline" /\ row.attempt = lanes[l].attempt
  /\ NoNewerGeneration(Item(l), Effective(row))
  /\ row.lease = "live"
  /\ ~row.elapsed

Authorize(l) ==
  /\ lanes[l].pc = "dispatching"
  /\ Authorized(l)
  /\ GoTo(l, "authorized")
  /\ UNCHANGED <<rows, receipts, calls, deferred>>

\* An exception leaves target delivery before the attempt has a receipt:
\* authority or content denied, deadline fence, storage failure.
Raise(l, kind) ==
  /\ lanes[l].pc \in {"dispatching", "authorized", "returned"}
  /\ SetLane(l, [lanes[l] EXCEPT !.pc = "raised", !.result = kind])
  /\ UNCHANGED <<rows, receipts, calls, deferred>>

\* ... or after it: storing the native reference of a sent message fails.
NativeRefFails(l, kind) ==
  /\ lanes[l].pc = "recorded" /\ lanes[l].result = "sent"
  /\ SetLane(l, [lanes[l] EXCEPT !.pc = "raised", !.result = kind])
  /\ UNCHANGED <<rows, receipts, calls, deferred>>

AppendReceipt(l, receipt) ==
  /\ Record(Item(l), <<receipt>>)
  /\ SetLane(l, [lanes[l] EXCEPT !.pc = "recorded",
                                 !.receipt = Len(receipts[Item(l)]) + 1])
  /\ UNCHANGED <<rows, calls, deferred>>

\* Adapter missing, deadline, planner or renderer error: a failed attempt.
FailBeforeCall(l, kind) ==
  /\ lanes[l].pc = "dispatching"
  /\ AppendReceipt(l, [Rcpt(lanes[l].attempt, "failed") EXCEPT !.retryable = (kind = "transient")])

\* The plan skips, or the mutation's relation target is not bindable.
Suppress(l) ==
  /\ lanes[l].pc = "dispatching"
  /\ AppendReceipt(l, Rcpt(lanes[l].attempt, "suppressed"))

\* _dispatch_start_fenced_invoke: clock check and call are one step.
NativeStart(l) ==
  /\ lanes[l].pc = "authorized"
  /\ ~rows[Item(l)].elapsed
  /\ calls' = calls \cup {Gen(l)}
  /\ GoTo(l, "calling")
  /\ UNCHANGED <<rows, receipts, deferred>>

NativeReturn(l, outcome) ==
  /\ lanes[l].pc = "calling"
  /\ SetLane(l, [lanes[l] EXCEPT !.pc = "returned", !.result = outcome])
  /\ deferred' = IF outcome = "queued"
                 THEN deferred \cup {[row |-> Item(l), attempt |-> lanes[l].attempt,
                                      host |-> Host[l]]}
                 ELSE deferred
  /\ UNCHANGED <<rows, receipts, calls>>

RecordReturn(l) ==
  LET result == lanes[l].result
      status == IF result \in {"sent", "queued"} THEN result ELSE "failed" IN
  /\ lanes[l].pc = "returned"
  /\ AppendReceipt(l, [Rcpt(lanes[l].attempt, status) EXCEPT
                         !.retryable = (result = "transient")])

------------------------------------------------------------------------------
(* Committing an attempt's outcome to the row. *)

\* Mutant of Exhausted: one attempt too many.
ExhaustedLate(attempt) == attempt > MaxAttempts

\* RetryExecutor.is_exhausted.
Exhausted(attempt) == attempt >= MaxAttempts

\* finalize_retry_attempt_error re-reads the attempt's evidence; the pipeline's
\* finalize_outbox_outcome goes by the exception alone.
AfterRaise(l) ==
  LET lane == lanes[l]
      found == IF lane.mode = "retry" THEN Evidence(lane.row, lane.attempt) ELSE NULL IN
  /\ lane.pc = "raised"
  /\ \/ found # NULL /\ SetLane(l, [lane EXCEPT !.pc = "recorded", !.receipt = found,
                                                !.result = "none"])
     \/ found = NULL /\ GoTo(l, "unrecorded")
  /\ UNCHANGED <<rows, receipts, calls, deferred>>

\* No receipt: the reserved identity is consumed as a failed attempt.
CommitUnrecorded(l) ==
  LET lane == lanes[l]
      again == lane.result = "transient" /\ ~Exhausted(lane.attempt) IN
  /\ lane.pc = "unrecorded"
  /\ Mark(l, IF again THEN "retry_wait" ELSE "dead_lettered", lane.attempt, NULL)
  /\ EndLane(l)
  /\ UNCHANGED <<receipts, calls, deferred>>

\* Mutant of CommitAccepted: a suppression is taken for a row status.
CommitNamed(l, evidence) ==
  /\ evidence.status # "failed"
  /\ Mark(l, evidence.status, lanes[l].attempt, lanes[l].receipt)
  /\ UNCHANGED receipts

\* queued, sent and lifecycle evidence map to the status they name.
CommitAccepted(l, evidence) ==
  /\ evidence.status \notin {"failed", "suppressed"}
  /\ Mark(l, evidence.status, lanes[l].attempt, lanes[l].receipt)
  /\ UNCHANGED receipts

\* The retry path abandons a suppressed row; the pipeline's commit of it is
\* refused ("unsupported outbox lifecycle authority status") and swallowed.
CommitSuppressed(l, evidence) ==
  /\ evidence.status = "suppressed"
  /\ \/ lanes[l].mode = "retry" /\ Mark(l, "abandoned", lanes[l].attempt, lanes[l].receipt)
     \/ lanes[l].mode # "retry" /\ UNCHANGED rows
  /\ UNCHANGED receipts

CommitFailed(l, evidence) ==
  LET lane == lanes[l]
      again == evidence.retryable /\ ~Exhausted(lane.attempt) IN
  /\ evidence.status = "failed"
  /\ \/ /\ again
        /\ Mark(l, "retry_wait", lane.attempt, lane.receipt)
        /\ UNCHANGED receipts
     \/ /\ ~again /\ Finalizable(lane.row, lane.attempt) /\ rows[lane.row].worker = l
        /\ Finalize(lane.row, "dead_lettered", <<Rcpt(lane.attempt, "dead_lettered")>>)
     \/ /\ ~again /\ ~(Finalizable(lane.row, lane.attempt) /\ rows[lane.row].worker = l)
        /\ UNCHANGED <<rows, receipts>>

CommitRecorded(l) ==
  LET evidence == receipts[Item(l)][lanes[l].receipt] IN
  /\ lanes[l].pc = "recorded"
  /\ \/ CommitAccepted(l, evidence)
     \/ CommitSuppressed(l, evidence)
     \/ CommitFailed(l, evidence)
  /\ EndLane(l)
  /\ UNCHANGED <<calls, deferred>>

------------------------------------------------------------------------------
(* Asynchronous feedback of deferred transports.  Its reads before the     *)
(* compare-and-set can only reject, which is DropFeedback.                 *)

Completed(d) ==
  /\ Finalizable(d.row, d.attempt)
  /\ Finalize(d.row, "sent", <<Rcpt(d.attempt, "sent")>>)
  /\ deferred' = deferred \ {d}
  /\ UNCHANGED <<lanes, calls>>

\* exhausted and permanent_failed also append the failed attempt.
Failed(d, status) ==
  /\ Finalizable(d.row, d.attempt)
  /\ Finalize(d.row, status,
              (IF status = "dead_lettered" THEN <<Rcpt(d.attempt, "failed")>> ELSE <<>>)
                \o <<Rcpt(d.attempt, status)>>)
  /\ deferred' = deferred \ {d}
  /\ UNCHANGED <<lanes, calls>>

DropFeedback(d) ==
  /\ deferred' = deferred \ {d}
  /\ UNCHANGED <<rows, receipts, lanes, calls>>

------------------------------------------------------------------------------
(* Guarded retirement of unstarted rows. *)

Retire(r, status) ==
  /\ Unstarted(rows[r])
  /\ NoNewerGeneration(r, rows[r].attempt)
  /\ SetRow(r, Leave(rows[r], status, rows[r].attempt, NULL))
  /\ UNCHANGED <<receipts, lanes, calls, deferred>>

OperatorCancel(r) == Retire(r, "cancelled")
DeadlineRetire(r) == rows[r].elapsed /\ Retire(r, "abandoned")

------------------------------------------------------------------------------
(* Time and faults. *)

\* The periodic renewal beside a dispatch.
RenewLease(l) ==
  /\ lanes[l].pc \in {"dispatching", "authorized", "calling", "returned", "recorded"}
  /\ Owns(rows[Item(l)], l) /\ rows[Item(l)].lease = "expired"
  /\ rows' = RenewedBy(l)
  /\ UNCHANGED <<receipts, lanes, calls, deferred>>

LeaseExpires(r) ==
  /\ rows[r].lease = "live"
  /\ SetRow(r, [rows[r] EXCEPT !.lease = "expired"])
  /\ UNCHANGED <<receipts, lanes, calls, deferred>>

BackoffElapses(r) ==
  /\ rows[r].backoff
  /\ SetRow(r, [rows[r] EXCEPT !.backoff = FALSE])
  /\ UNCHANGED <<receipts, lanes, calls, deferred>>

QueuedGoesStale(r) ==
  /\ rows[r].status = "queued" /\ ~rows[r].stale
  /\ SetRow(r, [rows[r] EXCEPT !.stale = TRUE])
  /\ UNCHANGED <<receipts, lanes, calls, deferred>>

DeadlinePasses(r) ==
  /\ r \in Bounded /\ rows[r].status \in NonTerminal /\ ~rows[r].elapsed
  /\ SetRow(r, [rows[r] EXCEPT !.elapsed = TRUE])
  /\ UNCHANGED <<receipts, lanes, calls, deferred>>

\* Drain timeout at shutdown: suppressed evidence for what is still in flight,
\* at attempt 1 when the row cannot be read.
DrainAbandon(l) ==
  /\ lanes[l].pc # "idle" /\ lanes[l].inflight
  /\ \E attempt \in {1, Effective(rows[Item(l)])} :
       Record(Item(l), <<Rcpt(attempt, "suppressed")>>)
  /\ SetLane(l, [lanes[l] EXCEPT !.inflight = FALSE])
  /\ UNCHANGED <<rows, calls, deferred>>

\* Cancellation, or a storage error that leaves the row to its lease.
LaneDies(l) ==
  /\ lanes[l].pc # "idle"
  /\ EndLane(l)
  /\ UNCHANGED <<rows, receipts, calls, deferred>>

\* A process stops: its lanes and the hand-offs its adapters hold are gone.
Crash(h) ==
  /\ \E l \in Lanes : Host[l] = h /\ lanes[l].pc # "idle"
  /\ lanes' = [l \in Lanes |-> IF Host[l] = h THEN IdleLane ELSE lanes[l]]
  /\ deferred' = {d \in deferred : d.host # h}
  /\ UNCHANGED <<rows, receipts, calls>>

------------------------------------------------------------------------------

Kinds == {"transient", "permanent"}

LaneStep(l) ==
  \/ Reconcile(l) \/ PrepareInitial(l) \/ Reserve(l) \/ RenewReserved(l)
  \/ Authorize(l) \/ NativeStart(l) \/ RecordReturn(l)
  \/ AfterRaise(l) \/ CommitUnrecorded(l) \/ CommitRecorded(l)
  \/ AbandonUnstarted(l) \/ ReleaseUnstarted(l) \/ Defer(l) \/ Suppress(l)
  \/ \E kind \in Kinds : Raise(l, kind) \/ NativeRefFails(l, kind) \/ FailBeforeCall(l, kind)
  \/ \E outcome \in Outcomes : NativeReturn(l, outcome)

Next ==
  \/ \E r \in Rows : \/ Stage(r) \/ OperatorCancel(r) \/ DeadlineRetire(r)
                     \/ LeaseExpires(r) \/ BackoffElapses(r) \/ QueuedGoesStale(r)
                     \/ DeadlinePasses(r)
  \/ \E l \in Lanes, r \in Rows : \/ CreateDirect(l, r) \/ Claim(l, r)
                                  \/ \E run \in Runs \cup {NoRun} : CreateReplay(l, r, run)
  \/ \E l \in Lanes : LaneStep(l) \/ RenewLease(l) \/ DrainAbandon(l) \/ LaneDies(l)
  \/ \E d \in deferred : \/ Completed(d) \/ DropFeedback(d)
                         \/ \E status \in LIFECYCLE_TERMINALS : Failed(d, status)
  \/ \E h \in Hosts : Crash(h)

Spec == Init /\ [][Next]_vars

\* Time passes, the dispatcher polls forever, a running task takes its next
\* step and a transport call returns.  A fault may end a task at any step, but
\* not at the same step forever (strong fairness).
Fairness ==
  /\ \A r \in Rows : /\ WF_vars(LeaseExpires(r))
                      /\ WF_vars(BackoffElapses(r))
                      /\ SF_vars(\E l \in Lanes : Claim(l, r))
  /\ \A l \in Lanes : /\ WF_vars(LaneStep(l))
                       /\ SF_vars(Reconcile(l))
                       /\ SF_vars(PrepareInitial(l))
                       /\ SF_vars(Reserve(l))
                       /\ SF_vars(CommitUnrecorded(l))
                       /\ SF_vars(CommitRecorded(l))

FairSpec == Spec /\ Fairness

------------------------------------------------------------------------------
(* Properties. *)

\* Type invariant of the tables, the lanes and the transport's hand-offs.
TypeOK ==
  /\ rows \in [Rows -> Row]
  /\ receipts \in [Rows -> Seq(Receipt)]
  /\ lanes \in [Lanes -> Lane]
  /\ \A l \in Lanes : lanes[l].pc # "idle" => lanes[l].row \in Rows
  /\ calls \subseteq Targets \X Nat
  /\ deferred \subseteq [row: Rows, attempt: Nat, host: Hosts]

\* A generation of a delivery identity is handed to the transport at most
\* once: whoever is about to make the native call of a generation is the only
\* one, and nobody made it before (reserve_outbox_attempt, replay allocation).
NoSecondHandoff ==
  \A l \in Lanes :
    lanes[l].pc \in {"reserved", "dispatching", "authorized"} =>
      /\ Gen(l) \notin calls
      /\ \A m \in Lanes \ {l} : lanes[m].pc \in {"reserved", "dispatching", "authorized"}
                                  => Gen(m) # Gen(l)

\* Rows of one delivery identity never stand for the same generation, so
\* "newest effective attempt" always names one row (claim, authorization).
GenerationsDistinct ==
  \A r \in Rows, s \in Rows :
    r # s /\ Exists(r) /\ Exists(s) /\ TargetOf[r] = TargetOf[s]
      => Effective(rows[r]) # Effective(rows[s])

\* An accepted row points at accepting evidence of its own attempt, and that
\* attempt's native call was really made (mark_outbox_sent / _queued and the
\* feedback commit).
AcceptanceEvidenced ==
  \A r \in Rows :
    rows[r].status \in {"sent", "queued"} =>
      /\ rows[r].receipt \in DOMAIN receipts[r]
      /\ receipts[r][rows[r].receipt].status = rows[r].status
      /\ receipts[r][rows[r].receipt].attempt = rows[r].attempt
      /\ <<TargetOf[r], rows[r].attempt>> \in calls

\* The CHECK constraints of the table and the claim columns: a reservation is
\* the next attempt of a claimed row, and only a claimed row has an owner.
ClaimColumns ==
  \A r \in Rows :
    /\ rows[r].active # NULL => /\ rows[r].status = "in_progress"
                                /\ rows[r].active = rows[r].attempt + 1
    /\ rows[r].status # "in_progress" => rows[r].worker = NoLane /\ rows[r].lease = "none"

\* No step takes a row back: a terminal row is final and the generation a row
\* stands for never decreases (the attempt and status guards of every UPDATE).
RowsOnlyAdvance ==
  [][\A r \in Rows :
       /\ Effective(rows'[r]) >= Effective(rows[r])
       /\ rows[r].status \in TERMINAL_OUTBOX_STATUSES => rows'[r] = rows[r]
       /\ rows[r].status # "absent" => rows'[r].status # "absent"]_vars


\* The retry budget: no native call beyond max_attempts (is_exhausted).
AttemptsWithinBudget == \A c \in calls : c[2] <= MaxAttempts

------------------------------------------------------------------------------
(* What the documentation says of the same steps. *)

\* delivery_state.py: the table lists the observed legal transitions.
TransitionsAsTabled ==
  [][\A r \in Rows :
       Exists(r) /\ rows'[r].status # rows[r].status
         => rows'[r].status \in OUTBOX_TRANSITIONS[rows[r].status]]_vars

\* routing-delivery.md 7.4 (11): a claim whose attempt evidence was persisted
\* is repaired by the preflight before any resend.
PreflightRepairsAcceptance ==
  [][\A l \in Lanes :
       lanes[l].pc = "claimed" /\ lanes'[l].pc = "reconciled"
         => \A i \in DOMAIN receipts[Item(l)] : receipts[Item(l)][i].status # "sent"]_vars

\* routing-delivery.md 7.4 (8): durable sent evidence wins over an exception
\* raised later in the same delivery call.
SentEvidenceWins ==
  \A r \in Rows :
    rows[r].status \in {"dead_lettered", "retry_wait"} =>
      \A i \in DOMAIN receipts[r] :
        receipts[r][i].attempt = rows[r].attempt => receipts[r][i].status # "sent"

==============================================================================
