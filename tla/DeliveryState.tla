---------------------------- MODULE DeliveryState ----------------------------
(***************************************************************************)
(* The status vocabulary of the durable delivery outbox and of its         *)
(* receipts (core/engine/pipeline/delivery_state.py).                      *)
(***************************************************************************)

TERMINAL_OUTBOX_STATUSES == {"sent", "dead_lettered", "cancelled", "abandoned"}

CLAIMABLE_OUTBOX_STATUSES == {"pending", "retry_wait"}

OUTBOX_STATUSES ==
  CLAIMABLE_OUTBOX_STATUSES \cup {"in_progress", "queued"} \cup TERMINAL_OUTBOX_STATUSES

RECEIPT_STATUSES ==
  {"queued", "sent", "failed", "suppressed", "dead_lettered", "cancelled", "abandoned"}

\* The lifecycle statuses that end a delivery (TERMINAL minus acceptance).
LIFECYCLE_TERMINALS == {"dead_lettered", "cancelled", "abandoned"}

\* The table the source publishes: status -> statuses it may move to.
OUTBOX_TRANSITIONS ==
  [s \in OUTBOX_STATUSES |->
     CASE s = "pending"     -> {"in_progress", "cancelled", "abandoned"}
       [] s = "retry_wait"  -> {"in_progress", "cancelled", "dead_lettered", "abandoned"}
       [] s = "queued"      -> {"in_progress", "sent", "cancelled", "abandoned"}
       [] s = "in_progress" -> OUTBOX_STATUSES \ {"in_progress"}
       [] OTHER             -> {}]

==============================================================================
