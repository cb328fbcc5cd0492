------------------------------ MODULE OutboxRow ------------------------------
(***************************************************************************)
(* One row of the delivery_outbox table and the guarded UPDATEs that move  *)
(* it (core/storage/sqlite/_outbox.py, statements.py).  Every operator     *)
(* here is the WHERE clause or the SET clause of one statement.            *)
(*                                                                         *)
(* Timestamps are abstracted to what the predicates compare:               *)
(*   lease    "none" (NULL), "live" (after now) or "expired";              *)
(*   backoff  next_attempt_at lies in the future;                          *)
(*   stale    a queued row older than STALE_QUEUED_GRACE_SECONDS;          *)
(*   elapsed  the earliest effective delivery deadline has passed.         *)
(***************************************************************************)
EXTENDS DeliveryState, Naturals

CONSTANTS Lanes,      \* claim owners (worker ids)
          NoLane,     \* worker_id IS NULL
          Runs,       \* named replay runs
          NoRun       \* replay_run_id IS NULL

ASSUME NoLaneAssumption == NoLane \notin Lanes
ASSUME NoRunAssumption == NoRun \notin Runs

NULL == 0             \* active_attempt IS NULL, receipt_id IS NULL

Row == [status: OUTBOX_STATUSES \cup {"absent"},
        attempt: Nat, active: Nat,
        worker: Lanes \cup {NoLane}, lease: {"none", "live", "expired"},
        backoff: BOOLEAN, stale: BOOLEAN, elapsed: BOOLEAN,
        receipt: Nat, run: Runs \cup {NoRun}]

\* INSERT: staged work is pending and unowned, dispatched work is leased.
NewRow(status, attempt, worker, run) ==
  [status |-> status, attempt |-> attempt, active |-> NULL, worker |-> worker,
   lease |-> IF worker = NoLane THEN "none" ELSE "live",
   backoff |-> FALSE, stale |-> FALSE, elapsed |-> FALSE, receipt |-> NULL, run |-> run]

AbsentRow == NewRow("absent", 0, NoLane, NoRun)

\* COALESCE(active_attempt, attempt_number): the generation a row stands for.
Effective(row) == IF row.active = NULL THEN row.attempt ELSE row.active

\* The attempt guard of _update_outbox_status: a live reservation must match
\* exactly, an unreserved row may keep or advance its attempt.
AttemptFence(row, attempt) ==
  IF row.active = NULL THEN row.attempt <= attempt ELSE row.active = attempt

\* Mutant of Leave: the reservation is not cleared.
LeaveReserved(row, status, attempt, receipt) ==
  [row EXCEPT !.status = status, !.attempt = attempt,
              !.worker = NoLane, !.lease = "none",
              !.backoff = (status = "retry_wait"), !.stale = FALSE,
              !.receipt = IF receipt = NULL THEN row.receipt ELSE receipt]

\* SET clause of every transition out of a claim.
Leave(row, status, attempt, receipt) ==
  [row EXCEPT !.status = status, !.attempt = attempt, !.active = NULL,
              !.worker = NoLane, !.lease = "none",
              !.backoff = (status = "retry_wait"), !.stale = FALSE,
              !.receipt = IF receipt = NULL THEN row.receipt ELSE receipt]


\* claim_due_outbox_items, the row's own part of the predicate.
Due(row) ==
  /\ \/ row.status \in CLAIMABLE_OUTBOX_STATUSES \cup {"in_progress"}
     \/ row.status = "queued" /\ row.stale
  /\ ~row.backoff
  /\ row.lease # "live"

\* Mutant of ClaimedBy: a reclaim clears the reservation it finds.
ClaimedAnew(row, worker) ==
  [row EXCEPT !.status = "in_progress", !.worker = worker, !.lease = "live",
              !.active = NULL, !.backoff = FALSE, !.stale = FALSE]

\* The claim's UPDATE: a reservation it finds stays.
ClaimedBy(row, worker) ==
  [row EXCEPT !.status = "in_progress", !.worker = worker, !.lease = "live",
              !.backoff = FALSE, !.stale = FALSE]

Owns(row, worker) == row.status = "in_progress" /\ row.worker = worker

\* No claim, no reservation, no lease: the row is provably unstarted.
Unstarted(row) ==
  /\ row.status \in CLAIMABLE_OUTBOX_STATUSES
  /\ row.active = NULL /\ row.worker = NoLane /\ row.lease = "none"

==============================================================================
