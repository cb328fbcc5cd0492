--------------------------- MODULE DeliveryProofs ---------------------------
(***************************************************************************)
(* Proofs about Delivery for every set of rows, lanes, hosts and targets,  *)
(* every retry budget and every cap.                                       *)
(*                                                                         *)
(* The argument.  Every generation of an identity is created by one step   *)
(* (a create or a reservation) that looks at all rows of the identity and  *)
(* picks a number above each of them; no other step changes the generation *)
(* a row stands for.  So whatever a lane, a receipt or a made call carries *)
(* lies at or below the generations that exist, and a new one is unused.   *)
(***************************************************************************)
EXTENDS Delivery, WellFoundedInduction, TLAPS

------------------------------------------------------------------------------
(* The inductive invariant. *)

\* A lane that is committing evidence points at a receipt of its own attempt.
RecordedPointer ==
  \A l \in Lanes :
    lanes[l].pc = "recorded" =>
      /\ lanes[l].receipt \in DOMAIN receipts[lanes[l].row]
      /\ receipts[lanes[l].row][lanes[l].receipt].attempt = lanes[l].attempt

\* The type invariant with the pointers that keep it inductive.
Typed == TypeOK /\ RecordedPointer

\* Places at which a lane holds an attempt whose call is still to be made.
Holding == {"reserved", "dispatching", "authorized"}

\* What a lane carries lies at or below the generation of its row.
LaneBehind(l) ==
  lanes[l].pc # "idle" =>
    /\ Exists(lanes[l].row)
    /\ lanes[l].attempt <= Effective(rows[lanes[l].row])
    /\ lanes[l].active <= Effective(rows[lanes[l].row])
    /\ lanes[l].inflight \/ lanes[l].pc \in Holding => lanes[l].attempt >= 1

\* A reservation is the next attempt of its row.
ReservesNext == \A r \in Rows : rows[r].active # NULL => rows[r].active = rows[r].attempt + 1

\* An id that is not in use stands for no generation.
AbsentUnused == \A r \in Rows : ~Exists(r) => Effective(rows[r]) = 0

\* The receipts of a row lie at or below its generation.
ReceiptsBehind ==
  \A r \in Rows : \A i \in DOMAIN receipts[r] : receipts[r][i].attempt <= Effective(rows[r])

\* A call that was made belongs to a generation some row has reached.
CallsBehind ==
  \A c \in calls : \E r \in Rows :
    TargetOf[r] = c[1] /\ Exists(r) /\ c[2] <= Effective(rows[r])

\* Together: everything in use lies behind the rows, and nothing is used twice.
Generations ==
  /\ ReservesNext
  /\ AbsentUnused
  /\ \A l \in Lanes : LaneBehind(l)
  /\ ReceiptsBehind
  /\ CallsBehind
  /\ NoSecondHandoff
  /\ GenerationsDistinct

------------------------------------------------------------------------------
(* The tables and the lanes. *)

\* Receipts are only appended: old ones stay where they are.
Appended ==
  \A r \in Rows : \A i \in DOMAIN receipts[r] :
    i \in DOMAIN receipts'[r] /\ receipts'[r][i] = receipts[r][i]

\* What appending to one row's receipts does (append_receipt).
LEMMA RecordEffect ==
  ASSUME TypeOK, NEW r \in Rows, NEW new \in Seq(Receipt), Record(r, new)
  PROVE  /\ receipts' \in [Rows -> Seq(Receipt)]
         /\ Appended
         /\ \A s \in Rows \ {r} : receipts'[s] = receipts[s]
         /\ Len(receipts'[r]) = Len(receipts[r]) + Len(new)
         /\ \A i \in DOMAIN receipts'[r] \ DOMAIN receipts[r] :
              /\ i - Len(receipts[r]) \in DOMAIN new
              /\ receipts'[r][i] = new[i - Len(receipts[r])]
<1> DEFINE old == receipts[r]
<1>1. old \in Seq(Receipt) /\ receipts \in [Rows -> Seq(Receipt)]
  BY DEF TypeOK
<1>2. old \o new \in Seq(Receipt)
  BY <1>1
<1>3. receipts' = [receipts EXCEPT ![r] = old \o new]
  BY DEF Record
<1>4. receipts'[r] = old \o new /\ \A s \in Rows \ {r} : receipts'[s] = receipts[s]
  BY <1>1, <1>3
<1>5. /\ Len(old \o new) = Len(old) + Len(new)
      /\ \A i \in 1..Len(old) : (old \o new)[i] = old[i]
      /\ \A i \in (Len(old) + 1)..(Len(old) + Len(new)) : (old \o new)[i] = new[i - Len(old)]
      /\ Len(old) \in Nat /\ Len(new) \in Nat
      /\ DOMAIN old = 1..Len(old) /\ DOMAIN new = 1..Len(new)
      /\ DOMAIN (old \o new) = 1..(Len(old) + Len(new))
  BY <1>1, <1>2
<1>6. receipts' \in [Rows -> Seq(Receipt)]
  BY <1>1, <1>2, <1>3
<1>7. Appended
  <2> SUFFICES ASSUME NEW s \in Rows, NEW i \in DOMAIN receipts[s]
               PROVE  i \in DOMAIN receipts'[s] /\ receipts'[s][i] = receipts[s][i]
    BY SMTT(40) DEF Appended
  <2>1. CASE s = r
    BY <2>1, <1>4, <1>5
  <2>2. CASE s # r
    BY <2>2, <1>4
  <2> QED BY <2>1, <2>2
<1>8. \A i \in DOMAIN receipts'[r] \ DOMAIN receipts[r] :
        /\ i - Len(receipts[r]) \in DOMAIN new
        /\ receipts'[r][i] = new[i - Len(receipts[r])]
  BY <1>4, <1>5
<1> QED BY <1>4, <1>5, <1>6, <1>7, <1>8

\* Replacing one lane leaves the others as they are.
LEMMA SetLaneEffect ==
  ASSUME TypeOK, NEW l \in Lanes, NEW lane \in Lane, SetLane(l, lane),
         lane.pc # "idle" => lane.row \in Rows
  PROVE  /\ lanes' \in [Lanes -> Lane]
         /\ \A m \in Lanes : lanes'[m].pc # "idle" => lanes'[m].row \in Rows
         /\ lanes'[l] = lane
         /\ \A m \in Lanes \ {l} : lanes'[m] = lanes[m]
  BY DEF TypeOK, SetLane

\* A lane that is not running is a lane.
LEMMA IdleLaneType == IdleLane \in Lane /\ IdleLane.pc = "idle"
  BY DEF IdleLane, Lane, PCs, NULL

\* Replacing one row leaves the others as they are.
LEMMA SetRowEffect ==
  ASSUME TypeOK, NEW r \in Rows, NEW row \in Row, SetRow(r, row)
  PROVE  /\ rows' \in [Rows -> Row]
         /\ rows'[r] = row
         /\ \A s \in Rows \ {r} : rows'[s] = rows[s]
  BY DEF TypeOK, SetRow

\* Rows built by the INSERT, the claim and the transitions are rows.
LEMMA NewRowType ==
  ASSUME NEW status \in OUTBOX_STATUSES \cup {"absent"}, NEW attempt \in Nat,
         NEW worker \in Lanes \cup {NoLane}, NEW run \in Runs \cup {NoRun}
  PROVE  /\ NewRow(status, attempt, worker, run) \in Row
         /\ NewRow(status, attempt, worker, run).status = status
         /\ NewRow(status, attempt, worker, run).active = NULL
         /\ NewRow(status, attempt, worker, run).attempt = attempt
         /\ Effective(NewRow(status, attempt, worker, run)) = attempt
  BY DEF NewRow, Row, NULL, Effective

\* A transition out of a claim sets status and attempt and clears the reservation.
LEMMA LeaveType ==
  ASSUME NEW row \in Row, NEW status \in OUTBOX_STATUSES, NEW attempt \in Nat, NEW receipt \in Nat
  PROVE  /\ Leave(row, status, attempt, receipt) \in Row
         /\ Leave(row, status, attempt, receipt).status = status
         /\ Leave(row, status, attempt, receipt).active = NULL
         /\ Leave(row, status, attempt, receipt).attempt = attempt
         /\ Effective(Leave(row, status, attempt, receipt)) = attempt
  BY Zenon DEF Leave, Row, NULL, Effective

\* The generation of a row is a number.
LEMMA EffectiveType ==
  ASSUME NEW row \in Row
  PROVE  Effective(row) \in Nat
  BY DEF Effective, Row

\* A guarded transition either leaves its row alone or moves it out of the claim.
LEMMA MarkEffect ==
  ASSUME TypeOK, NEW l \in Lanes, lanes[l].row \in Rows, NEW status \in OUTBOX_STATUSES,
         NEW attempt \in Nat, NEW receipt \in Nat, Mark(l, status, attempt, receipt)
  PROVE  /\ rows' \in [Rows -> Row]
         /\ \A s \in Rows \ {lanes[l].row} : rows'[s] = rows[s]
         /\ \/ rows'[lanes[l].row] = rows[lanes[l].row]
            \/ /\ rows[lanes[l].row].status \in AllowedFrom(status)
               /\ AttemptFence(rows[lanes[l].row], attempt)
               /\ rows'[lanes[l].row] = Leave(rows[lanes[l].row], status, attempt, receipt)
<1> DEFINE r == lanes[l].row
           left == Leave(rows[r], status, attempt, receipt)
<1>1. rows \in [Rows -> Row] /\ r \in Rows
  BY DEF TypeOK
<1>2. left \in Row
  BY <1>1, LeaveType
<1>3. CASE rows' = rows
  BY <1>1, <1>3, SMTT(40)
<1>4. CASE /\ rows[r].status \in AllowedFrom(status)
           /\ AttemptFence(rows[r], attempt)
           /\ rows' = [rows EXCEPT ![r] = left]
  BY <1>1, <1>2, <1>4
<1> QED BY <1>3, <1>4, Zenon DEF Mark

\* One lane moves; the tables stay typed and receipts are only appended.
LEMMA LaneTyped ==
  ASSUME Typed, NEW l \in Lanes, NEW lane \in Lane, SetLane(l, lane),
         lane.pc # "idle" => lane.row \in Rows,
         lane.pc = "recorded" => /\ lane.receipt \in DOMAIN receipts'[lane.row]
                                 /\ receipts'[lane.row][lane.receipt].attempt = lane.attempt,
         rows' \in [Rows -> Row], receipts' \in [Rows -> Seq(Receipt)], Appended,
         calls' \subseteq Targets \X Nat,
         deferred' \subseteq [row: Rows, attempt: Nat, host: Hosts]
  PROVE  Typed'
<1>1. TypeOK
  BY SMTT(40) DEF Typed
<1>2. /\ lanes' \in [Lanes -> Lane]
      /\ \A m \in Lanes : lanes'[m].pc # "idle" => lanes'[m].row \in Rows
      /\ lanes'[l] = lane
      /\ \A m \in Lanes \ {l} : lanes'[m] = lanes[m]
  BY <1>1, SetLaneEffect, SMTT(40)
<1>3. TypeOK'
  BY <1>2, Zenon DEF TypeOK
<1>4. RecordedPointer'
  <2> SUFFICES ASSUME NEW m \in Lanes, lanes'[m].pc = "recorded"
               PROVE  /\ lanes'[m].receipt \in DOMAIN receipts'[lanes'[m].row]
                      /\ receipts'[lanes'[m].row][lanes'[m].receipt].attempt = lanes'[m].attempt
    BY SMTT(40) DEF RecordedPointer
  <2>1. CASE m = l
    BY <2>1, <1>2, Zenon
  <2>2. CASE m # l
    <3>1. lanes'[m] = lanes[m] /\ lanes[m].row \in Rows
      BY <2>2, <1>1, <1>2 DEF TypeOK
    <3> QED BY <3>1, SMTT(40) DEF Typed, RecordedPointer, Appended
  <2> QED BY <2>1, <2>2, SMTT(40)
<1> QED BY <1>3, <1>4 DEF Typed

\* No lane moves.
LEMMA TablesTyped ==
  ASSUME Typed, lanes' = lanes,
         rows' \in [Rows -> Row], receipts' \in [Rows -> Seq(Receipt)], Appended,
         calls' \subseteq Targets \X Nat,
         deferred' \subseteq [row: Rows, attempt: Nat, host: Hosts]
  PROVE  Typed'
<1>1. TypeOK'
  BY SMTT(40) DEF Typed, TypeOK
<1>2. RecordedPointer'
  BY DEF Typed, TypeOK, RecordedPointer, Appended
<1> QED BY <1>1, <1>2 DEF Typed

\* Writing no receipt keeps the old ones.
LEMMA SameReceipts ==
  ASSUME receipts' = receipts
  PROVE  Appended
  BY SMTT(40) DEF Appended

------------------------------------------------------------------------------
(* Steps that create no generation. *)

\* No row's generation changes, none appears or disappears.
RowsQuiet ==
  \A r \in Rows :
    /\ Effective(rows'[r]) = Effective(rows[r])
    /\ rows'[r].status = "absent" <=> rows[r].status = "absent"
    /\ rows'[r].active # NULL => rows'[r].active = rows'[r].attempt + 1

\* What a lane may become: it carries nothing beyond its row's generation and
\* holds an attempt only if it held that attempt before.
Carried(l, lane) ==
  \/ lane.pc = "idle"
  \/ /\ lane.row \in Rows
     /\ Exists(lane.row)
     /\ lane.attempt <= Effective(rows[lane.row])
     /\ lane.active <= Effective(rows[lane.row])
     /\ lane.inflight \/ lane.pc \in Holding => lane.attempt >= 1
     /\ lane.pc \in Holding => /\ lanes[l].pc \in Holding
                               /\ lane.row = lanes[l].row
                               /\ lane.attempt = lanes[l].attempt

\* A step that creates no generation and makes no call keeps the invariant.
LEMMA QuietStep ==
  ASSUME Typed, Generations, Typed', RowsQuiet, calls' = calls, ReceiptsBehind',
         \A l \in Lanes : lanes'[l] = lanes[l] \/ Carried(l, lanes'[l])
  PROVE  Generations'
<1>1. \A l \in Lanes : Carried(l, lanes[l])
  BY DEF Typed, TypeOK, Generations, LaneBehind, Carried
<1>2. \A l \in Lanes : Carried(l, lanes'[l])
  BY <1>1
<1>3. ReservesNext'
  BY DEF RowsQuiet, ReservesNext
<1>4. AbsentUnused'
  BY SMTT(40) DEF Generations, AbsentUnused, RowsQuiet, Exists
<1>5. \A l \in Lanes : LaneBehind(l)'
  BY <1>2, SMTT(40) DEF Carried, LaneBehind, RowsQuiet, Exists
<1>6. CallsBehind'
  BY SMTT(40) DEF Generations, CallsBehind, RowsQuiet, Exists
<1>7. NoSecondHandoff'
  <2>1. \A l \in Lanes : lanes'[l].pc \in Holding =>
          lanes[l].pc \in Holding /\ Gen(l)' = Gen(l)
    BY <1>2 DEF Carried, Gen, Holding
  <2> QED BY <2>1, Zenon DEF Generations, NoSecondHandoff, Holding
<1>8. GenerationsDistinct'
  BY DEF Generations, GenerationsDistinct, RowsQuiet, Exists
<1> QED BY <1>3, <1>4, <1>5, <1>6, <1>7, <1>8, Zenon DEF Generations

\* Rows that do not change keep their generations.
LEMMA UnchangedRowsQuiet ==
  ASSUME ReservesNext, rows' = rows
  PROVE  RowsQuiet
  BY DEF RowsQuiet, ReservesNext

\* Receipts that do not change stay behind rows that keep their generation.
LEMMA UnchangedReceiptsBehind ==
  ASSUME ReceiptsBehind, RowsQuiet, receipts' = receipts
  PROVE  ReceiptsBehind'
  BY SMTT(40) DEF ReceiptsBehind, RowsQuiet

\* Appended receipts of a generation the row has reached.
LEMMA RecordBehind ==
  ASSUME TypeOK, ReceiptsBehind, RowsQuiet, NEW r \in Rows, NEW new \in Seq(Receipt),
         Record(r, new), \A i \in DOMAIN new : new[i].attempt <= Effective(rows[r])
  PROVE  ReceiptsBehind'
<1> SUFFICES ASSUME NEW s \in Rows, NEW i \in DOMAIN receipts'[s]
             PROVE  receipts'[s][i].attempt <= Effective(rows[s])
  BY DEF ReceiptsBehind, RowsQuiet
<1>1. CASE s # r \/ i \in DOMAIN receipts[s]
  <2>1. i \in DOMAIN receipts[s] /\ receipts'[s][i] = receipts[s][i]
    BY <1>1, RecordEffect DEF Appended
  <2> QED BY <2>1, SMTT(40) DEF ReceiptsBehind
<1>2. CASE s = r /\ i \notin DOMAIN receipts[s]
  <2>1. /\ i - Len(receipts[r]) \in DOMAIN new
        /\ receipts'[s][i] = new[i - Len(receipts[r])]
    BY <1>2, RecordEffect, SMTT(40)
  <2> QED BY <2>1, <1>2
<1> QED BY <1>1, <1>2

\* A guarded transition at or below the row's generation keeps it.
LEMMA MarkQuiet ==
  ASSUME TypeOK, ReservesNext, NEW l \in Lanes, lanes[l].row \in Rows,
         NEW status \in OUTBOX_STATUSES, NEW attempt \in Nat, NEW receipt \in Nat,
         attempt <= Effective(rows[lanes[l].row]), Mark(l, status, attempt, receipt)
  PROVE  RowsQuiet
<1> DEFINE r == lanes[l].row
           left == Leave(rows[r], status, attempt, receipt)
<1>1. /\ \A s \in Rows \ {r} : rows'[s] = rows[s]
      /\ \/ rows'[r] = rows[r]
         \/ /\ rows[r].status \in AllowedFrom(status)
            /\ AttemptFence(rows[r], attempt)
            /\ rows'[r] = left
  BY MarkEffect, SMTT(40)
<1>2. \A s \in Rows : rows[s].active # NULL => rows[s].active = rows[s].attempt + 1
  BY SMTT(40) DEF ReservesNext
<1>3. CASE rows'[r] = rows[r]
  BY <1>1, <1>2, <1>3, Zenon DEF RowsQuiet
<1>4. CASE /\ rows[r].status \in AllowedFrom(status)
           /\ AttemptFence(rows[r], attempt)
           /\ rows'[r] = left
  <2>1. rows[r] \in Row
    BY Zenon DEF TypeOK
  <2>2. left.status = status /\ left.active = NULL /\ Effective(left) = attempt
    BY <2>1, Zenon DEF Leave, Row, NULL, Effective
  <2>3. Effective(rows[r]) = attempt
    BY <1>4, <2>1, SMTT(40) DEF AttemptFence, Effective, Row, NULL
  <2>4. status # "absent" /\ rows[r].status # "absent"
    BY <1>4, Zenon DEF AllowedFrom, NonTerminal, OUTBOX_STATUSES, CLAIMABLE_OUTBOX_STATUSES,
                TERMINAL_OUTBOX_STATUSES
  <2> QED BY <1>1, <1>2, <1>4, <2>2, <2>3, <2>4 DEF RowsQuiet
<1> QED BY <1>1, <1>3, <1>4, Zenon

\* The inductive invariant.
IInv == Typed /\ Generations

\* One lane moves and no receipt is written.
LEMMA LaneMoves ==
  ASSUME IInv, NEW l \in Lanes, NEW lane \in Lane, SetLane(l, lane), Carried(l, lane),
         lane.pc = "recorded" => /\ lane.receipt \in DOMAIN receipts[lane.row]
                                 /\ receipts[lane.row][lane.receipt].attempt = lane.attempt,
         RowsQuiet, rows' \in [Rows -> Row], receipts' = receipts, calls' = calls,
         deferred' \subseteq [row: Rows, attempt: Nat, host: Hosts]
  PROVE  IInv'
<1>1. TypeOK /\ Generations /\ ReceiptsBehind
  BY SMTT(40) DEF IInv, Typed, Generations
<1>2. Appended /\ ReceiptsBehind'
  BY <1>1, SameReceipts, UnchangedReceiptsBehind, SMTT(40)
<1>3. lane.pc # "idle" => lane.row \in Rows
  BY Zenon DEF Carried
<1>4. Typed'
  BY <1>1, <1>2, <1>3, LaneTyped, SMTT(40) DEF IInv, TypeOK
<1>5. \A m \in Lanes : lanes'[m] = lanes[m] \/ Carried(m, lanes'[m])
  BY <1>1, <1>3, SetLaneEffect, SMTT(40)
<1>6. Generations'
  BY <1>2, <1>4, <1>5, QuietStep DEF IInv
<1> QED BY <1>4, <1>6, SMTT(40) DEF IInv

\* No lane moves and no receipt is written.
LEMMA RowsMove ==
  ASSUME IInv, lanes' = lanes, RowsQuiet, rows' \in [Rows -> Row],
         receipts' = receipts, calls' = calls,
         deferred' \subseteq [row: Rows, attempt: Nat, host: Hosts]
  PROVE  IInv'
<1>1. TypeOK /\ Generations /\ ReceiptsBehind
  BY DEF IInv, Typed, Generations
<1>2. Appended /\ ReceiptsBehind'
  BY <1>1, SameReceipts, UnchangedReceiptsBehind, SMTT(40)
<1>3. Typed'
  BY <1>1, <1>2, TablesTyped DEF IInv, TypeOK
<1>4. Generations'
  BY <1>2, <1>3, QuietStep, Zenon DEF IInv
<1> QED BY <1>3, <1>4 DEF IInv

\* A lane of the invariant carries what it may.
LEMMA LaneFacts ==
  ASSUME IInv, NEW l \in Lanes, lanes[l].pc # "idle"
  PROVE  /\ lanes[l] \in Lane /\ lanes[l].row \in Rows /\ rows[lanes[l].row] \in Row
         /\ rows[lanes[l].row].status # "absent"
         /\ lanes[l].attempt \in Nat /\ lanes[l].active \in Nat
         /\ lanes[l].attempt <= Effective(rows[lanes[l].row])
         /\ lanes[l].active <= Effective(rows[lanes[l].row])
         /\ lanes[l].inflight \/ lanes[l].pc \in Holding => lanes[l].attempt >= 1
         /\ Carried(l, lanes[l])
  BY Zenon DEF IInv, Typed, TypeOK, Generations, LaneBehind, Carried, Lane, Exists

\* What the invariant says of the tables.
LEMMA InvFacts ==
  ASSUME IInv
  PROVE  /\ TypeOK /\ Typed /\ Generations /\ ReservesNext /\ ReceiptsBehind
         /\ rows \in [Rows -> Row] /\ lanes \in [Lanes -> Lane]
         /\ receipts \in [Rows -> Seq(Receipt)] /\ calls \subseteq Targets \X Nat
         /\ deferred \subseteq [row: Rows, attempt: Nat, host: Hosts]
         /\ IdleLane \in Lane /\ \A l \in Lanes : Carried(l, IdleLane)
  BY IdleLaneType, SMTT(40) DEF IInv, Typed, TypeOK, Generations, Carried

\* The clocks, and the retirement of an unstarted row.
LEMMA RowSteps ==
  ASSUME IInv, NEW r \in Rows,
         \/ LeaseExpires(r) \/ BackoffElapses(r) \/ QueuedGoesStale(r) \/ DeadlinePasses(r)
         \/ OperatorCancel(r) \/ DeadlineRetire(r)
  PROVE  IInv'
<1> USE InvFacts
<1>1. rows[r] \in Row /\ (rows[r].active # NULL => rows[r].active = rows[r].attempt + 1)
  BY SMTT(40) DEF ReservesNext
<1>2. ASSUME NEW row \in Row, SetRow(r, row), UNCHANGED <<receipts, lanes, calls, deferred>>,
             Effective(row) = Effective(rows[r]), row.status = "absent" <=> rows[r].status = "absent",
             row.active # NULL => row.active = row.attempt + 1
      PROVE  IInv'
  <2>1. rows' \in [Rows -> Row] /\ rows'[r] = row /\ \A s \in Rows \ {r} : rows'[s] = rows[s]
    BY <1>2, SetRowEffect, SMTT(40)
  <2>2. RowsQuiet
    BY <1>2, <2>1 DEF RowsQuiet, ReservesNext
  <2> QED BY <1>2, <2>1, <2>2, RowsMove, SMTT(40)
<1>3. CASE LeaseExpires(r)
  <2>1. [rows[r] EXCEPT !.lease = "expired"] \in Row
    BY <1>1, Zenon DEF Row
  <2> QED BY <1>1, <1>2, <1>3, <2>1, Zenon DEF LeaseExpires, Effective, Row
<1>4. CASE BackoffElapses(r)
  <2>1. [rows[r] EXCEPT !.backoff = FALSE] \in Row
    BY <1>1, Zenon DEF Row
  <2> QED BY <1>1, <1>2, <1>4, <2>1, Zenon DEF BackoffElapses, Effective, Row
<1>5. CASE QueuedGoesStale(r)
  <2>1. [rows[r] EXCEPT !.stale = TRUE] \in Row
    BY <1>1, Zenon DEF Row
  <2> QED BY <1>1, <1>2, <1>5, <2>1, Zenon DEF QueuedGoesStale, Effective, Row
<1>6. CASE DeadlinePasses(r)
  <2>1. [rows[r] EXCEPT !.elapsed = TRUE] \in Row
    BY <1>1, Zenon DEF Row
  <2> QED BY <1>1, <1>2, <1>6, <2>1, Zenon DEF DeadlinePasses, Effective, Row
<1>7. ASSUME NEW status \in {"cancelled", "abandoned"}, Retire(r, status)
      PROVE  IInv'
  <2> DEFINE left == Leave(rows[r], status, rows[r].attempt, NULL)
  <2>1. rows[r].attempt \in Nat /\ NULL \in Nat /\ status \in OUTBOX_STATUSES
    BY <1>1, Zenon DEF Row, NULL, OUTBOX_STATUSES, TERMINAL_OUTBOX_STATUSES
  <2>2. /\ left \in Row /\ left.status = status /\ left.active = NULL
        /\ Effective(left) = rows[r].attempt
    <3>1. left \in Row
      BY <1>1, <2>1, LeaveType, Zenon
    <3>2. left.status = status /\ left.active = NULL /\ Effective(left) = rows[r].attempt
      BY <1>1, <2>1, SMTT(40) DEF Leave, Row, NULL, Effective
    <3> QED BY <3>1, <3>2, Zenon
  <2>3. Effective(rows[r]) = rows[r].attempt /\ rows[r].status # "absent" /\ status # "absent"
    BY <1>7, SMTT(40) DEF Retire, Unstarted, Effective, CLAIMABLE_OUTBOX_STATUSES
  <2>4. SetRow(r, left) /\ UNCHANGED <<receipts, lanes, calls, deferred>>
    BY <1>7 DEF Retire
  <2> HIDE DEF left
  <2> QED BY <1>2, <2>2, <2>3, <2>4, SMTT(40)
<1> QED BY <1>3, <1>4, <1>5, <1>6, <1>7, SMTT(40) DEF OperatorCancel, DeadlineRetire

\* A claim takes the row's numbers as they stand.
LEMMA ClaimStep ==
  ASSUME IInv, NEW l \in Lanes, NEW r \in Rows, Claim(l, r)
  PROVE  IInv'
<1> DEFINE claimed == ClaimedBy(rows[r], l)
           lane == [IdleLane EXCEPT !.pc = "claimed", !.row = r,
                                    !.attempt = claimed.attempt, !.active = claimed.active]
<1>1. rows[r] \in Row /\ (rows[r].active # NULL => rows[r].active = rows[r].attempt + 1)
  BY InvFacts DEF ReservesNext
<1>2. claimed \in Row
  BY <1>1, Zenon DEF ClaimedBy, Row, OUTBOX_STATUSES
<1>3. /\ claimed.attempt = rows[r].attempt /\ claimed.active = rows[r].active
      /\ claimed.status # "absent"
  BY <1>1 DEF ClaimedBy, Row
<1>4. rows[r].status # "absent"
  BY DEF Claim, Due, CLAIMABLE_OUTBOX_STATUSES
<1>5. SetRow(r, claimed) /\ SetLane(l, lane) /\ UNCHANGED <<receipts, calls, deferred>>
  BY SMTT(40) DEF Claim
<1>6. Effective(claimed) = Effective(rows[r])
  BY <1>3 DEF Effective
<1> HIDE DEF claimed
<1>7. /\ rows' \in [Rows -> Row] /\ rows'[r] = claimed
      /\ \A s \in Rows \ {r} : rows'[s] = rows[s]
  BY <1>2, <1>5, InvFacts, SetRowEffect
<1>8. RowsQuiet
  BY <1>1, <1>3, <1>4, <1>6, <1>7, InvFacts, Zenon DEF RowsQuiet, ReservesNext
<1>9. /\ lane \in Lane
      /\ lane.pc = "claimed" /\ lane.row = r /\ lane.inflight = FALSE
      /\ lane.attempt = rows[r].attempt /\ lane.active = rows[r].active
  BY <1>1, <1>3, Zenon DEF IdleLane, Lane, PCs, NULL, Row
<1> HIDE DEF lane
<1>10. rows[r].attempt <= Effective(rows[r]) /\ rows[r].active <= Effective(rows[r])
  BY <1>1, SMTT(40) DEF Effective, Row, NULL
<1>11. Carried(l, lane)
  BY <1>4, <1>9, <1>10, SMTT(40) DEF Carried, Exists, Holding
<1> QED BY <1>5, <1>7, <1>8, <1>9, <1>11, InvFacts, LaneMoves, Zenon

\* A lane ends, its row keeps its generation.
LEMMA LaneEnds ==
  ASSUME IInv, NEW l \in Lanes, EndLane(l), RowsQuiet, rows' \in [Rows -> Row],
         UNCHANGED <<receipts, calls, deferred>>
  PROVE  IInv'
  BY InvFacts, IdleLaneType, LaneMoves, Zenon DEF EndLane

\* A lane ends after a guarded transition of its row that writes no receipt.
LEMMA MarkEnds ==
  ASSUME IInv, NEW l \in Lanes, lanes[l].pc # "idle", EndLane(l),
         NEW status \in OUTBOX_STATUSES, NEW attempt \in Nat, NEW receipt \in Nat,
         attempt <= Effective(rows[lanes[l].row]), Mark(l, status, attempt, receipt),
         UNCHANGED <<receipts, calls, deferred>>
  PROVE  IInv'
<1>1. lanes[l].row \in Rows
  BY LaneFacts
<1>2. RowsQuiet /\ rows' \in [Rows -> Row]
  BY <1>1, InvFacts, MarkEffect, MarkQuiet, Zenon
<1> QED BY <1>2, LaneEnds, SMTT(40)

\* Renewing a lease changes no generation.
LEMMA RenewQuiet ==
  ASSUME IInv, NEW l \in Lanes, lanes[l].pc # "idle", rows' = RenewedBy(l)
  PROVE  RowsQuiet /\ rows' \in [Rows -> Row]
<1> DEFINE r == lanes[l].row
           row == [rows[r] EXCEPT !.lease = "live"]
<1>1. r \in Rows /\ rows[r] \in Row
  BY LaneFacts, Zenon
<1>2. row \in Row
  BY <1>1 DEF Row
<1>3. /\ row.status = rows[r].status /\ row.attempt = rows[r].attempt
      /\ row.active = rows[r].active /\ Effective(row) = Effective(rows[r])
  BY <1>1, Zenon DEF Row, Effective
<1>4. SetRow(r, row)
  BY DEF RenewedBy, SetRow, Item
<1> HIDE DEF row
<1>5. rows' \in [Rows -> Row] /\ rows'[r] = row /\ \A s \in Rows \ {r} : rows'[s] = rows[s]
  BY <1>1, <1>2, <1>4, InvFacts, SetRowEffect, Zenon
<1> QED BY <1>3, <1>5, InvFacts, Zenon DEF RowsQuiet, ReservesNext

\* A dispatcher lane before its reservation.
LEMMA UnreservedSteps ==
  ASSUME IInv, NEW l \in Lanes,
         \/ AbandonUnstarted(l) \/ ReleaseUnstarted(l) \/ Defer(l) \/ PrepareInitial(l)
  PROVE  IInv'
<1> DEFINE r == lanes[l].row
<1>1. lanes[l].pc # "idle"
  BY Zenon DEF AbandonUnstarted, ReleaseUnstarted, Defer, PrepareInitial
<1>2. /\ r \in Rows /\ rows[r] \in Row /\ lanes[l] \in Lane
      /\ rows[r].status # "absent" /\ lanes[l].attempt \in Nat /\ lanes[l].active \in Nat
      /\ lanes[l].attempt <= Effective(rows[r]) /\ lanes[l].active <= Effective(rows[r])
      /\ Effective(rows[r]) \in Nat /\ NULL \in Nat
      /\ {"abandoned", "retry_wait"} \subseteq OUTBOX_STATUSES
  BY <1>1, LaneFacts, EffectiveType, Zenon
     DEF NULL, OUTBOX_STATUSES, TERMINAL_OUTBOX_STATUSES, CLAIMABLE_OUTBOX_STATUSES
<1>3. CASE AbandonUnstarted(l)
  <2> DEFINE keep == IF lanes[l].active = NULL THEN Effective(rows[r]) ELSE lanes[l].active
  <2>1. keep \in Nat /\ keep <= Effective(rows[r])
    BY <1>2, SMTT(40)
  <2>2. /\ Mark(l, "abandoned", keep, NULL) /\ EndLane(l)
        /\ UNCHANGED <<receipts, calls, deferred>>
    BY <1>3 DEF AbandonUnstarted, Item
  <2> QED BY <1>1, <1>2, <2>1, <2>2, MarkEnds, Zenon
<1>4. CASE ReleaseUnstarted(l)
  <2>1. CASE rows' = rows
    BY <1>4, <2>1, InvFacts, UnchangedRowsQuiet, LaneEnds, Zenon DEF ReleaseUnstarted
  <2>2. ASSUME NEW status \in {"pending", "retry_wait"},
               rows' = [rows EXCEPT ![r] = [rows[r] EXCEPT !.status = status,
                                              !.worker = NoLane, !.lease = "none"]]
        PROVE  IInv'
    <3> DEFINE row == [rows[r] EXCEPT !.status = status, !.worker = NoLane, !.lease = "none"]
    <3>1. row \in Row
      BY <1>2, Zenon DEF Row, OUTBOX_STATUSES, CLAIMABLE_OUTBOX_STATUSES
    <3>2. /\ row.status = status /\ row.attempt = rows[r].attempt
          /\ row.active = rows[r].active /\ Effective(row) = Effective(rows[r])
      BY <1>2, Zenon DEF Row, Effective
    <3>3. SetRow(r, row)
      BY <2>2, Zenon DEF SetRow
    <3> HIDE DEF row
    <3>4. rows' \in [Rows -> Row] /\ rows'[r] = row /\ \A s \in Rows \ {r} : rows'[s] = rows[s]
      BY <1>2, <3>1, <3>3, InvFacts, SetRowEffect, Zenon
    <3>5. RowsQuiet
      BY <1>2, <3>2, <3>4, InvFacts, Zenon DEF RowsQuiet, ReservesNext
    <3> QED BY <1>4, <3>4, <3>5, LaneEnds, Zenon DEF ReleaseUnstarted
  <2> QED BY <1>4, <2>1, <2>2, Zenon DEF ReleaseUnstarted, Item
<1>5. CASE Defer(l)
  BY <1>1, <1>2, <1>5, MarkEnds DEF Defer
<1>6. CASE PrepareInitial(l)
  <2>1. CASE rows' = RenewedBy(l) /\ GoTo(l, "prepared")
    <3> DEFINE lane == [lanes[l] EXCEPT !.pc = "prepared"]
    <3>1. RowsQuiet /\ rows' \in [Rows -> Row]
      BY <1>1, <2>1, RenewQuiet, Zenon
    <3>2. lane \in Lane /\ Carried(l, lane) /\ lane.pc = "prepared"
      BY <1>1, <1>2, LaneFacts DEF Lane, PCs, Carried, Holding
    <3>3. SetLane(l, lane) /\ UNCHANGED <<receipts, calls, deferred>>
      BY <1>6, <2>1, SMTT(40) DEF GoTo, PrepareInitial
    <3> HIDE DEF lane
    <3> QED BY <3>1, <3>2, <3>3, InvFacts, LaneMoves, SMTT(40)
  <2>2. CASE EndLane(l) /\ UNCHANGED rows
    BY <1>6, <2>2, InvFacts, UnchangedRowsQuiet, LaneEnds, Zenon DEF PrepareInitial
  <2> QED BY <1>6, <2>1, <2>2, Zenon DEF PrepareInitial
<1> QED BY <1>3, <1>4, <1>5, <1>6, SMTT(40)

\* A lane moves on with the attempt it has.
LEMMA KeepsAttempt ==
  ASSUME IInv, NEW l \in Lanes, lanes[l].pc # "idle", NEW lane \in Lane, SetLane(l, lane),
         lane.row = lanes[l].row, lane.attempt = lanes[l].attempt, lane.active = lanes[l].active,
         lane.inflight => lanes[l].inflight \/ lanes[l].pc \in Holding,
         lane.pc \in Holding => lanes[l].pc \in Holding,
         lane.pc # "recorded",
         RowsQuiet, rows' \in [Rows -> Row], receipts' = receipts, calls' = calls,
         deferred' \subseteq [row: Rows, attempt: Nat, host: Hosts]
  PROVE  IInv'
<1>1. Carried(l, lane)
  BY LaneFacts DEF Carried, Exists
<1> QED BY <1>1, LaneMoves, Zenon

\* A nonempty set of positions has a last one.
LEMMA LastPosition ==
  ASSUME NEW n \in Nat, NEW S \in SUBSET (1..n), S # {}
  PROVE  \E i \in S : \A j \in S : j <= i
<1> DEFINE T == {k \in Nat : \E i \in S : k = n - i}
           R == OpToRel(<, Nat)
<1>1. T \subseteq Nat /\ T # {}
  <2>1. PICK i \in S : TRUE
    BY Zenon
  <2>2. n - i \in Nat
    BY <2>1
  <2> QED BY <2>1, <2>2, Zenon
<1>2. IsWellFoundedOn(R, Nat)
  BY NatLessThanWellFounded, Zenon
<1>3. PICK k \in T : \A m \in T : ~(<<m, k>> \in R)
  <2> HIDE DEF T, R
  <2> QED BY <1>1, <1>2, WFMin, Zenon
<1>4. \A m \in T : ~(m < k)
  BY <1>1, <1>3, Zenon DEF OpToRel
<1>5. PICK i \in S : k = n - i
  BY <1>3, Zenon
<1>6. \A j \in S : j <= i
  <2> SUFFICES ASSUME NEW j \in S
               PROVE  j <= i
    OBVIOUS
  <2>1. n - j \in T
    OBVIOUS
  <2>2. ~(n - j < k)
    BY <1>4, <2>1, SMTT(40)
  <2> QED BY <1>5, <2>2
<1> QED BY <1>6

\* Evidence is a receipt of the attempt asked for.
LEMMA EvidenceFound ==
  ASSUME TypeOK, NEW r \in Rows, NEW attempt \in Nat, Evidence(r, attempt) # NULL
  PROVE  /\ Evidence(r, attempt) \in DOMAIN receipts[r]
         /\ Evidence(r, attempt) \in Nat
         /\ receipts[r][Evidence(r, attempt)].attempt = attempt
<1> DEFINE current == {i \in DOMAIN receipts[r] : receipts[r][i].attempt = attempt}
           terminal == {i \in current : receipts[r][i].status \in LIFECYCLE_TERMINALS}
           among == IF terminal # {} THEN terminal ELSE current
<1>1. current # {} /\ Evidence(r, attempt) = CHOOSE i \in among : \A j \in among : j <= i
  BY Zenon DEF Evidence
<1>2. receipts[r] \in Seq(Receipt)
  BY DEF TypeOK
<1>3. among \subseteq current /\ among # {}
  BY <1>1, Zenon
<1>4. among \subseteq 1..Len(receipts[r]) /\ Len(receipts[r]) \in Nat
  BY <1>2, <1>3
<1> HIDE DEF among, current
<1>5. \E i \in among : \A j \in among : j <= i
  BY <1>3, <1>4, LastPosition, Zenon
<1> QED BY <1>1, <1>3, <1>4, <1>5 DEF current

\* The preflight adopts evidence, consumes a reservation, or goes on.
LEMMA ReconcileStep ==
  ASSUME IInv, NEW l \in Lanes, Reconcile(l)
  PROVE  IInv'
<1> DEFINE r == lanes[l].row
           attempt == IF lanes[l].active # NULL THEN lanes[l].active ELSE lanes[l].attempt + 1
           found == Evidence(r, attempt)
<1>1. lanes[l].pc = "claimed" /\ UNCHANGED <<rows, receipts, calls, deferred>>
  BY Zenon DEF Reconcile
<1>2. /\ r \in Rows /\ lanes[l] \in Lane /\ lanes[l].attempt \in Nat /\ lanes[l].active \in Nat
      /\ rows[r] \in Row /\ rows[r].status # "absent"
      /\ lanes[l].active <= Effective(rows[r]) /\ Effective(rows[r]) \in Nat
      /\ TypeOK /\ RowsQuiet /\ rows' \in [Rows -> Row]
      /\ deferred' \subseteq [row: Rows, attempt: Nat, host: Hosts]
  BY <1>1, LaneFacts, InvFacts, EffectiveType, UnchangedRowsQuiet, Zenon
<1>3. attempt \in Nat /\ attempt >= 1
  BY <1>2, SMTT(40) DEF NULL
<1>4. CASE /\ found # NULL
           /\ SetLane(l, [lanes[l] EXCEPT !.pc = "recorded", !.attempt = attempt, !.receipt = found])
  <2> DEFINE lane == [lanes[l] EXCEPT !.pc = "recorded", !.attempt = attempt, !.receipt = found]
  <2>1. found \in DOMAIN receipts[r] /\ found \in Nat /\ receipts[r][found].attempt = attempt
    BY <1>2, <1>3, <1>4, EvidenceFound, Zenon
  <2>2. attempt <= Effective(rows[r])
    BY <1>2, <2>1, InvFacts DEF ReceiptsBehind
  <2> HIDE DEF attempt, found
  <2>3. /\ lane \in Lane /\ lane.pc = "recorded" /\ lane.row = r /\ lane.attempt = attempt
        /\ lane.active = lanes[l].active /\ lane.receipt = found
    BY <1>2, <1>3, <2>1, Zenon DEF Lane, PCs
  <2>4. SetLane(l, lane)
    BY <1>4, Zenon
  <2> HIDE DEF lane
  <2>5. Carried(l, lane)
    BY <1>2, <1>3, <2>2, <2>3, Zenon DEF Carried, Exists, Holding
  <2> QED BY <1>1, <1>2, <2>1, <2>3, <2>4, <2>5, LaneMoves, Zenon
<1>5. CASE /\ lanes[l].active # NULL
           /\ SetLane(l, [lanes[l] EXCEPT !.pc = "unrecorded", !.attempt = attempt,
                                          !.result = "transient"])
  <2> DEFINE lane == [lanes[l] EXCEPT !.pc = "unrecorded", !.attempt = attempt,
                                      !.result = "transient"]
  <2>1. attempt <= Effective(rows[r])
    BY <1>2, <1>5
  <2> HIDE DEF attempt
  <2>2. /\ lane \in Lane /\ lane.pc = "unrecorded" /\ lane.row = r /\ lane.attempt = attempt
        /\ lane.active = lanes[l].active
    BY <1>2, <1>3, Zenon DEF Lane, PCs
  <2>3. SetLane(l, lane)
    BY <1>5
  <2> HIDE DEF lane
  <2>4. Carried(l, lane)
    BY <1>2, <1>3, <2>1, <2>2, Zenon DEF Carried, Exists, Holding
  <2> QED BY <1>1, <1>2, <2>2, <2>3, <2>4, LaneMoves
<1>6. CASE GoTo(l, "reconciled")
  <2> DEFINE lane == [lanes[l] EXCEPT !.pc = "reconciled"]
  <2>1. /\ lane \in Lane /\ lane.pc = "reconciled" /\ lane.row = r
        /\ lane.attempt = lanes[l].attempt /\ lane.active = lanes[l].active
        /\ lane.inflight = lanes[l].inflight
    BY <1>2 DEF Lane, PCs
  <2>2. SetLane(l, lane)
    BY <1>6 DEF GoTo
  <2> HIDE DEF lane
  <2> QED BY <1>1, <1>2, <2>1, <2>2, KeepsAttempt DEF Holding
<1> QED BY <1>4, <1>5, <1>6 DEF Reconcile

\* A lane changes its place or its result and nothing else.
LEMMA PlaceChanges ==
  ASSUME IInv, NEW l \in Lanes, lanes[l].pc # "idle", NEW pc \in PCs \ {"idle", "recorded"},
         pc \in Holding => lanes[l].pc \in Holding,
         NEW result \in {"none", "sent", "queued", "transient", "permanent"},
         SetLane(l, [lanes[l] EXCEPT !.pc = pc, !.result = result]),
         UNCHANGED <<rows, receipts, calls>>,
         deferred' \subseteq [row: Rows, attempt: Nat, host: Hosts]
  PROVE  IInv'
<1> DEFINE lane == [lanes[l] EXCEPT !.pc = pc, !.result = result]
<1>1. lanes[l] \in Lane /\ RowsQuiet /\ rows' \in [Rows -> Row]
  BY LaneFacts, InvFacts, UnchangedRowsQuiet
<1>2. /\ lane \in Lane /\ lane.pc = pc /\ lane.row = lanes[l].row
      /\ lane.attempt = lanes[l].attempt /\ lane.active = lanes[l].active
      /\ lane.inflight = lanes[l].inflight
  BY <1>1, Zenon DEF Lane
<1>3. SetLane(l, lane)
  OBVIOUS
<1> HIDE DEF lane
<1> QED BY <1>1, <1>2, <1>3, KeepsAttempt

\* The dispatch of a reserved attempt up to its receipt, except the call itself.
LEMMA DispatchSteps ==
  ASSUME IInv, NEW l \in Lanes,
         \/ Authorize(l) \/ AfterRaise(l)
         \/ \E kind \in Kinds : Raise(l, kind) \/ NativeRefFails(l, kind)
         \/ \E outcome \in Outcomes : NativeReturn(l, outcome)
  PROVE  IInv'
<1>1. lanes[l].pc # "idle"
  BY Zenon DEF Authorize, AfterRaise, Raise, NativeRefFails, NativeReturn
<1>2. /\ lanes[l] \in Lane /\ lanes[l].row \in Rows /\ lanes[l].attempt \in Nat
      /\ lanes[l].result \in {"none", "sent", "queued", "transient", "permanent"}
      /\ lanes[l] = [lanes[l] EXCEPT !.result = lanes[l].result]
  BY <1>1, LaneFacts DEF Lane
<1>3. deferred \subseteq [row: Rows, attempt: Nat, host: Hosts] /\ TypeOK
  BY InvFacts
<1>4. ASSUME NEW pc
      PROVE  [lanes[l] EXCEPT !.pc = pc, !.result = lanes[l].result] = [lanes[l] EXCEPT !.pc = pc]
  BY <1>2, Zenon DEF Lane
<1>5. CASE Authorize(l)
  <2>1. lanes[l].pc \in Holding /\ "authorized" \in PCs \ {"idle", "recorded"}
    BY <1>5 DEF Authorize, Holding, PCs
  <2>2. SetLane(l, [lanes[l] EXCEPT !.pc = "authorized", !.result = lanes[l].result])
    BY <1>4, <1>5, Zenon DEF Authorize, GoTo
  <2>3. UNCHANGED <<rows, receipts, calls, deferred>>
    BY <1>5 DEF Authorize
  <2> QED BY <1>1, <1>2, <1>3, <2>1, <2>2, <2>3, PlaceChanges, Zenon
<1>6. ASSUME NEW kind \in Kinds, Raise(l, kind) \/ NativeRefFails(l, kind)
      PROVE  IInv'
  BY <1>1, <1>3, <1>6, PlaceChanges, Zenon DEF Raise, NativeRefFails, Kinds, PCs, Holding
<1>7. ASSUME NEW outcome \in Outcomes, NativeReturn(l, outcome)
      PROVE  IInv'
  <2>1. deferred' \subseteq [row: Rows, attempt: Nat, host: Hosts]
    <3> DEFINE d == [row |-> lanes[l].row, attempt |-> lanes[l].attempt, host |-> Host[l]]
    <3>1. Host[l] \in Hosts
      BY LanesAssumption
    <3>2. d \in [row: Rows, attempt: Nat, host: Hosts]
      BY <1>2, <3>1
    <3>3. deferred' = deferred \cup {d} \/ deferred' = deferred
      BY <1>7, Zenon DEF NativeReturn, Item
    <3> HIDE DEF d
    <3> QED BY <1>3, <3>2, <3>3
  <2>2. outcome \in {"none", "sent", "queued", "transient", "permanent"}
    BY OutcomesAssumption
  <2> QED BY <1>1, <1>7, <2>1, <2>2, PlaceChanges, Zenon DEF NativeReturn, PCs, Holding
<1>8. CASE AfterRaise(l)
  <2> DEFINE found == Evidence(lanes[l].row, lanes[l].attempt)
  <2>1. CASE /\ found # NULL
             /\ SetLane(l, [lanes[l] EXCEPT !.pc = "recorded", !.receipt = found,
                                            !.result = "none"])
    <3> DEFINE lane == [lanes[l] EXCEPT !.pc = "recorded", !.receipt = found, !.result = "none"]
    <3>1. /\ found \in DOMAIN receipts[lanes[l].row] /\ found \in Nat
          /\ receipts[lanes[l].row][found].attempt = lanes[l].attempt
      BY <1>2, <1>3, <2>1, EvidenceFound
    <3> HIDE DEF found
    <3>2. /\ lane \in Lane /\ lane.pc = "recorded" /\ lane.row = lanes[l].row
          /\ lane.attempt = lanes[l].attempt /\ lane.active = lanes[l].active
          /\ lane.inflight = lanes[l].inflight /\ lane.receipt = found
      BY <1>2, <3>1, Zenon DEF Lane, PCs
    <3>3. SetLane(l, lane) /\ UNCHANGED <<rows, receipts, calls, deferred>>
      BY <1>8, <2>1 DEF AfterRaise
    <3> HIDE DEF lane
    <3>4. Carried(l, lane)
      BY <1>1, <3>2, LaneFacts, Zenon DEF Carried, Holding, Exists
    <3>5. RowsQuiet /\ rows' \in [Rows -> Row]
      BY <3>3, InvFacts, UnchangedRowsQuiet
    <3> QED BY <1>3, <3>1, <3>2, <3>3, <3>4, <3>5, LaneMoves, Zenon
  <2>2. CASE GoTo(l, "unrecorded")
    <3>1. SetLane(l, [lanes[l] EXCEPT !.pc = "unrecorded", !.result = lanes[l].result])
      BY <1>4, <2>2, Zenon DEF GoTo
    <3>2. UNCHANGED <<rows, receipts, calls, deferred>>
      BY <1>8, SMTT(40) DEF AfterRaise
    <3> QED BY <1>1, <1>2, <1>3, <3>1, <3>2, PlaceChanges, Zenon DEF PCs, Holding
  <2> QED BY <1>8, <2>1, <2>2, Zenon DEF AfterRaise
<1> QED BY <1>5, <1>6, <1>7, <1>8

\* A receipt of the lane's own attempt is appended.
LEMMA AppendStep ==
  ASSUME IInv, NEW l \in Lanes, lanes[l].pc # "idle", NEW receipt \in Receipt,
         receipt.attempt = lanes[l].attempt, AppendReceipt(l, receipt)
  PROVE  IInv'
<1> DEFINE r == lanes[l].row
           n == Len(receipts[r]) + 1
           lane == [lanes[l] EXCEPT !.pc = "recorded", !.receipt = n]
           new == <<receipt>>
<1>1. /\ Record(r, new) /\ SetLane(l, lane) /\ UNCHANGED <<rows, calls, deferred>>
  BY SMTT(40) DEF AppendReceipt, Item
<1>2. /\ r \in Rows /\ lanes[l] \in Lane /\ rows[r].status # "absent"
      /\ lanes[l].attempt <= Effective(rows[r]) /\ lanes[l].active <= Effective(rows[r])
      /\ TypeOK /\ ReceiptsBehind /\ RowsQuiet /\ rows' \in [Rows -> Row]
      /\ receipts[r] \in Seq(Receipt)
      /\ calls' \subseteq Targets \X Nat
      /\ deferred' \subseteq [row: Rows, attempt: Nat, host: Hosts]
  BY <1>1, LaneFacts, InvFacts, UnchangedRowsQuiet
<1>3. new \in Seq(Receipt) /\ Len(new) = 1 /\ DOMAIN new = {1} /\ new[1] = receipt
  BY SMTT(40)
<1>4. Len(receipts[r]) \in Nat /\ DOMAIN receipts[r] = 1..Len(receipts[r])
  BY <1>2
<1> HIDE DEF new
<1>5. /\ receipts' \in [Rows -> Seq(Receipt)] /\ Appended
      /\ Len(receipts'[r]) = Len(receipts[r]) + Len(new)
      /\ \A i \in DOMAIN receipts'[r] \ DOMAIN receipts[r] :
           /\ i - Len(receipts[r]) \in DOMAIN new
           /\ receipts'[r][i] = new[i - Len(receipts[r])]
  BY <1>1, <1>2, <1>3, RecordEffect, Zenon
<1>6. DOMAIN receipts'[r] = 1..n
  BY <1>2, <1>3, <1>4, <1>5, SMTT(40)
<1>7. n \in DOMAIN receipts'[r] /\ n \notin DOMAIN receipts[r] /\ n - Len(receipts[r]) = 1
  BY <1>4, <1>6, SMTT(40)
<1>8. receipts'[r][n] = receipt
  BY <1>3, <1>5, <1>7, Zenon
<1>9. ReceiptsBehind'
  BY <1>1, <1>2, <1>3, RecordBehind, SMTT(40)
<1>10. n \in Nat
  BY <1>4
<1> HIDE DEF n
<1>11. /\ lane \in Lane /\ lane.pc = "recorded" /\ lane.row = r /\ lane.receipt = n
       /\ lane.attempt = lanes[l].attempt /\ lane.active = lanes[l].active
       /\ lane.inflight = lanes[l].inflight
  BY <1>2, <1>10, Zenon DEF Lane, PCs
<1> HIDE DEF lane
<1>12. Carried(l, lane)
  BY <1>2, <1>11, LaneFacts, Zenon DEF Carried, Holding, Exists
<1>13. Typed'
  BY <1>1, <1>2, <1>5, <1>7, <1>8, <1>11, InvFacts, LaneTyped, Zenon
<1>14. \A m \in Lanes : lanes'[m] = lanes[m] \/ Carried(m, lanes'[m])
  BY <1>1, <1>2, <1>11, <1>12, SetLaneEffect, Zenon
<1>15. Generations'
  BY <1>1, <1>2, <1>9, <1>13, <1>14, InvFacts, QuietStep, Zenon
<1> QED BY <1>13, <1>15 DEF IInv

\* A failure, a suppression or a returned call leaves a receipt.
LEMMA ReceiptSteps ==
  ASSUME IInv, NEW l \in Lanes,
         \/ Suppress(l) \/ RecordReturn(l)
         \/ \E kind \in Kinds : FailBeforeCall(l, kind)
  PROVE  IInv'
<1>1. lanes[l].pc # "idle"
  BY Zenon DEF Suppress, RecordReturn, FailBeforeCall
<1>2. lanes[l].attempt \in Nat
  BY <1>1, LaneFacts, Zenon
<1>3. {"suppressed", "failed", "sent", "queued"} \subseteq RECEIPT_STATUSES
  BY DEF RECEIPT_STATUSES
<1>4. CASE Suppress(l)
  <2> DEFINE receipt == Rcpt(lanes[l].attempt, "suppressed")
  <2>1. receipt \in Receipt /\ receipt.attempt = lanes[l].attempt
    BY <1>2, <1>3, Zenon DEF Rcpt, Receipt
  <2>2. AppendReceipt(l, receipt)
    BY <1>4, SMTT(40) DEF Suppress
  <2> HIDE DEF receipt
  <2> QED BY <1>1, <2>1, <2>2, AppendStep, Zenon
<1>5. ASSUME NEW kind \in Kinds, FailBeforeCall(l, kind)
      PROVE  IInv'
  <2> DEFINE receipt == [Rcpt(lanes[l].attempt, "failed") EXCEPT !.retryable = (kind = "transient")]
  <2>1. receipt \in Receipt /\ receipt.attempt = lanes[l].attempt
    BY <1>2, <1>3, Zenon DEF Rcpt, Receipt
  <2>2. AppendReceipt(l, receipt)
    BY <1>5, SMTT(40) DEF FailBeforeCall
  <2> HIDE DEF receipt
  <2> QED BY <1>1, <2>1, <2>2, AppendStep
<1>6. CASE RecordReturn(l)
  <2> DEFINE result == lanes[l].result
             status == IF result \in {"sent", "queued"} THEN result ELSE "failed"
             receipt == [Rcpt(lanes[l].attempt, status) EXCEPT !.retryable = (result = "transient")]
  <2>1. status \in RECEIPT_STATUSES
    BY <1>3
  <2>2. AppendReceipt(l, receipt)
    BY <1>6 DEF RecordReturn
  <2> HIDE DEF status
  <2>3. receipt \in Receipt /\ receipt.attempt = lanes[l].attempt
    BY <1>2, <2>1, Zenon DEF Rcpt, Receipt
  <2> HIDE DEF receipt
  <2> QED BY <1>1, <2>2, <2>3, AppendStep, SMTT(40)
<1> QED BY <1>4, <1>5, <1>6

\* The one-transaction commit of receipts and row keeps the generation.
LEMMA FinalizeEffect ==
  ASSUME IInv, NEW r \in Rows, NEW attempt \in Nat, Finalizable(r, attempt),
         NEW status \in OUTBOX_STATUSES, NEW new \in Seq(Receipt),
         \A i \in DOMAIN new : new[i].attempt = attempt, Finalize(r, status, new)
  PROVE  /\ RowsQuiet /\ rows' \in [Rows -> Row]
         /\ receipts' \in [Rows -> Seq(Receipt)] /\ Appended /\ ReceiptsBehind'
<1> DEFINE n == Len(receipts[r]) + Len(new)
           left == Leave(rows[r], status, Effective(rows[r]), n)
<1>1. /\ rows[r] \in Row /\ Effective(rows[r]) = attempt /\ rows[r].status # "absent"
      /\ status # "absent" /\ TypeOK /\ ReceiptsBehind /\ receipts[r] \in Seq(Receipt)
  BY InvFacts, SMTT(40)
     DEF Finalizable, OUTBOX_STATUSES, TERMINAL_OUTBOX_STATUSES, CLAIMABLE_OUTBOX_STATUSES
<1>2. n \in Nat
  BY <1>1, SMTT(40)
<1>3. Record(r, new) /\ SetRow(r, left)
  BY Zenon DEF Finalize
<1> HIDE DEF n
<1>4. left \in Row
  BY <1>1, <1>2, LeaveType
<1>5. left.status = status /\ left.active = NULL /\ Effective(left) = Effective(rows[r])
  BY <1>1, <1>2, Zenon DEF Leave, Row, NULL, Effective
<1> HIDE DEF left
<1>6. rows' \in [Rows -> Row] /\ rows'[r] = left /\ \A s \in Rows \ {r} : rows'[s] = rows[s]
  BY <1>1, <1>3, <1>4, SetRowEffect
<1>7. RowsQuiet
  BY <1>1, <1>5, <1>6, InvFacts, Zenon DEF RowsQuiet, ReservesNext
<1>8. receipts' \in [Rows -> Seq(Receipt)] /\ Appended
  BY <1>1, <1>3, RecordEffect, SMTT(40)
<1>9. \A i \in DOMAIN new : new[i].attempt <= Effective(rows[r])
  BY <1>1, SMTT(40)
<1>10. ReceiptsBehind'
  BY <1>1, <1>3, <1>7, <1>9, RecordBehind
<1> QED BY <1>6, <1>7, <1>8, <1>10, SMTT(40)

\* An outcome is committed and the lane ends.
LEMMA CommitSteps ==
  ASSUME IInv, NEW l \in Lanes, CommitUnrecorded(l) \/ CommitRecorded(l)
  PROVE  IInv'
<1> DEFINE r == lanes[l].row
<1>1. lanes[l].pc # "idle" /\ EndLane(l) /\ UNCHANGED <<calls, deferred>>
  BY Zenon DEF CommitUnrecorded, CommitRecorded
<1>2. /\ r \in Rows /\ rows[r] \in Row /\ lanes[l] \in Lane /\ lanes[l].attempt \in Nat
      /\ lanes[l].receipt \in Nat /\ lanes[l].attempt <= Effective(rows[r])
      /\ NULL \in Nat
      /\ {"queued", "sent", "retry_wait", "dead_lettered", "cancelled", "abandoned"}
           \subseteq OUTBOX_STATUSES
  BY <1>1, LaneFacts, Zenon
     DEF Lane, NULL, OUTBOX_STATUSES, TERMINAL_OUTBOX_STATUSES, CLAIMABLE_OUTBOX_STATUSES
<1>3. CASE CommitUnrecorded(l)
  <2> DEFINE again == lanes[l].result = "transient" /\ ~Exhausted(lanes[l].attempt)
             status == IF again THEN "retry_wait" ELSE "dead_lettered"
  <2>1. status \in OUTBOX_STATUSES
    BY <1>2, Zenon
  <2>2. Mark(l, status, lanes[l].attempt, NULL) /\ UNCHANGED receipts
    BY <1>3 DEF CommitUnrecorded
  <2> HIDE DEF status
  <2> QED BY <1>1, <1>2, <2>1, <2>2, MarkEnds, Zenon
<1>4. CASE CommitRecorded(l)
  <2> DEFINE evidence == receipts[r][lanes[l].receipt]
  <2>1. /\ lanes[l].receipt \in DOMAIN receipts[r] /\ receipts[r] \in Seq(Receipt)
    BY <1>2, <1>4, InvFacts, Zenon DEF CommitRecorded, Typed, RecordedPointer
  <2>2. evidence \in Receipt
    BY <2>1, SMTT(40)
  <2>3. evidence.status \in RECEIPT_STATUSES
    BY <2>2, Zenon DEF Receipt
  <2>4. \/ CommitAccepted(l, evidence) \/ CommitSuppressed(l, evidence)
        \/ CommitFailed(l, evidence)
    BY <1>4, Zenon DEF CommitRecorded, Item
  <2> HIDE DEF evidence
  <2>5. ASSUME NEW status \in OUTBOX_STATUSES, UNCHANGED receipts,
               Mark(l, status, lanes[l].attempt, lanes[l].receipt)
        PROVE  IInv'
    BY <1>1, <1>2, <2>5, MarkEnds, SMTT(40)
  <2>6. CASE UNCHANGED <<rows, receipts>>
    BY <1>1, <2>6, InvFacts, UnchangedRowsQuiet, LaneEnds, SMTT(40)
  <2>7. CASE CommitAccepted(l, evidence)
    <3>1. evidence.status \in OUTBOX_STATUSES
      BY <1>2, <2>3, <2>7, Zenon DEF CommitAccepted, RECEIPT_STATUSES
    <3> QED BY <2>5, <2>7, <3>1, Zenon DEF CommitAccepted
  <2>8. CASE CommitSuppressed(l, evidence)
    BY <1>2, <2>5, <2>6, <2>8, Zenon DEF CommitSuppressed
  <2>9. CASE CommitFailed(l, evidence)
    <3> DEFINE receipt == Rcpt(lanes[l].attempt, "dead_lettered")
               new == <<receipt>>
    <3>1. CASE Mark(l, "retry_wait", lanes[l].attempt, lanes[l].receipt) /\ UNCHANGED receipts
      BY <1>2, <2>5, <3>1
    <3>2. CASE Finalizable(r, lanes[l].attempt) /\ Finalize(r, "dead_lettered", new)
      <4>1. receipt \in Receipt /\ receipt.attempt = lanes[l].attempt
        BY <1>2 DEF Rcpt, Receipt, RECEIPT_STATUSES
      <4> HIDE DEF receipt
      <4>2. new \in Seq(Receipt) /\ \A i \in DOMAIN new : new[i].attempt = lanes[l].attempt
        BY <4>1
      <4> HIDE DEF new
      <4>3. /\ RowsQuiet /\ rows' \in [Rows -> Row]
            /\ receipts' \in [Rows -> Seq(Receipt)] /\ Appended /\ ReceiptsBehind'
        BY <1>2, <3>2, <4>2, FinalizeEffect, Zenon
      <4>4. /\ SetLane(l, IdleLane) /\ IdleLane \in Lane /\ IdleLane.pc = "idle"
            /\ calls' \subseteq Targets \X Nat
            /\ deferred' \subseteq [row: Rows, attempt: Nat, host: Hosts] /\ calls' = calls
        BY <1>1, InvFacts, IdleLaneType, Zenon DEF EndLane
      <4>5. Typed'
        BY <4>3, <4>4, InvFacts, LaneTyped, SMTT(40)
      <4>6. \A m \in Lanes : lanes'[m] = lanes[m] \/ Carried(m, lanes'[m])
        BY <4>4, InvFacts, SetLaneEffect, SMTT(40)
      <4>7. Generations'
        BY <4>3, <4>4, <4>5, <4>6, InvFacts, QuietStep
      <4> QED BY <4>5, <4>7, Zenon DEF IInv
    <3> QED BY <2>6, <2>9, <3>1, <3>2, SMTT(40) DEF CommitFailed
  <2> QED BY <2>4, <2>7, <2>8, <2>9
<1> QED BY <1>3, <1>4, Zenon

\* Feedback of a deferred transport.
LEMMA FeedbackSteps ==
  ASSUME IInv, NEW d \in deferred,
         \/ Completed(d) \/ DropFeedback(d) \/ \E status \in LIFECYCLE_TERMINALS : Failed(d, status)
  PROVE  IInv'
<1>1. /\ d.row \in Rows /\ d.attempt \in Nat
      /\ deferred' \subseteq [row: Rows, attempt: Nat, host: Hosts]
      /\ lanes' = lanes /\ calls' = calls /\ calls' \subseteq Targets \X Nat
  BY InvFacts, Zenon DEF Completed, DropFeedback, Failed
<1>2. CASE DropFeedback(d)
  BY <1>1, <1>2, InvFacts, UnchangedRowsQuiet, RowsMove DEF DropFeedback
<1>3. ASSUME NEW status \in OUTBOX_STATUSES, NEW new \in Seq(Receipt),
             \A i \in DOMAIN new : new[i].attempt = d.attempt,
             Finalizable(d.row, d.attempt), Finalize(d.row, status, new)
      PROVE  IInv'
  <2>1. /\ RowsQuiet /\ rows' \in [Rows -> Row]
        /\ receipts' \in [Rows -> Seq(Receipt)] /\ Appended /\ ReceiptsBehind'
    BY <1>1, <1>3, FinalizeEffect, SMTT(40)
  <2>2. Typed'
    BY <1>1, <2>1, InvFacts, TablesTyped, SMTT(40)
  <2>3. Generations'
    BY <1>1, <2>1, <2>2, InvFacts, QuietStep, Zenon
  <2> QED BY <2>2, <2>3, Zenon DEF IInv
<1>4. ASSUME NEW status \in RECEIPT_STATUSES
      PROVE  Rcpt(d.attempt, status) \in Receipt /\ Rcpt(d.attempt, status).attempt = d.attempt
  BY <1>1 DEF Rcpt, Receipt
<1>5. CASE Completed(d)
  <2> DEFINE receipt == Rcpt(d.attempt, "sent")
             new == <<receipt>>
  <2>1. receipt \in Receipt /\ receipt.attempt = d.attempt
    BY <1>4 DEF RECEIPT_STATUSES
  <2>2. "sent" \in OUTBOX_STATUSES
    BY DEF OUTBOX_STATUSES, TERMINAL_OUTBOX_STATUSES
  <2>3. Finalizable(d.row, d.attempt) /\ Finalize(d.row, "sent", new)
    BY <1>5, SMTT(40) DEF Completed
  <2> HIDE DEF receipt
  <2>4. new \in Seq(Receipt) /\ \A i \in DOMAIN new : new[i].attempt = d.attempt
    BY <2>1, SMTT(40)
  <2> QED BY <1>3, <2>2, <2>3, <2>4, Zenon
<1>6. ASSUME NEW status \in LIFECYCLE_TERMINALS, Failed(d, status)
      PROVE  IInv'
  <2> DEFINE failed == Rcpt(d.attempt, "failed")
             ended == Rcpt(d.attempt, status)
             first == IF status = "dead_lettered" THEN <<failed>> ELSE <<>>
             new == first \o <<ended>>
  <2>1. status \in OUTBOX_STATUSES /\ status \in RECEIPT_STATUSES /\ "failed" \in RECEIPT_STATUSES
    BY Zenon DEF LIFECYCLE_TERMINALS, RECEIPT_STATUSES, OUTBOX_STATUSES, TERMINAL_OUTBOX_STATUSES
  <2>2. /\ failed \in Receipt /\ failed.attempt = d.attempt
        /\ ended \in Receipt /\ ended.attempt = d.attempt
    BY <1>4, <2>1
  <2>3. Finalizable(d.row, d.attempt) /\ Finalize(d.row, status, new)
    BY <1>6 DEF Failed
  <2> HIDE DEF failed, ended
  <2>4. new \in Seq(Receipt) /\ \A i \in DOMAIN new : new[i].attempt = d.attempt
    <3>1. CASE first = <<failed>>
      BY <2>2, <3>1, SMTT(40)
    <3>2. CASE first = <<>>
      BY <2>2, <3>2
    <3> QED BY <3>1, <3>2, Zenon
  <2> HIDE DEF new
  <2> QED BY <1>3, <2>1, <2>3, <2>4
<1> QED BY <1>2, <1>5, <1>6

\* Leases, deaths and crashes, and the evidence a drain leaves behind.
LEMMA FaultSteps ==
  ASSUME IInv,
         \/ \E l \in Lanes : RenewReserved(l) \/ RenewLease(l) \/ LaneDies(l) \/ DrainAbandon(l)
         \/ \E h \in Hosts : Crash(h)
  PROVE  IInv'
<1>1. ASSUME NEW l \in Lanes, RenewReserved(l)
      PROVE  IInv'
  <2>1. lanes[l].pc = "reserved" /\ UNCHANGED <<receipts, calls, deferred>>
    BY <1>1, Zenon DEF RenewReserved
  <2>2. CASE ~Owns(rows[Item(l)], l) /\ EndLane(l) /\ UNCHANGED rows
    BY <2>1, <2>2, InvFacts, UnchangedRowsQuiet, LaneEnds
  <2>3. CASE /\ rows' = RenewedBy(l)
             /\ SetLane(l, [lanes[l] EXCEPT !.pc = "dispatching",
                                            !.inflight = (lanes[l].mode = "initial")])
    <3> DEFINE lane == [lanes[l] EXCEPT !.pc = "dispatching",
                                        !.inflight = (lanes[l].mode = "initial")]
    <3>1. RowsQuiet /\ rows' \in [Rows -> Row]
      BY <2>1, <2>3, RenewQuiet
    <3>2. lanes[l] \in Lane
      BY <2>1, LaneFacts, Zenon
    <3>3. /\ lane \in Lane /\ lane.pc = "dispatching" /\ lane.row = lanes[l].row
          /\ lane.attempt = lanes[l].attempt /\ lane.active = lanes[l].active
      BY <3>2, Zenon DEF Lane, PCs
    <3>4. SetLane(l, lane)
      BY <2>3
    <3> HIDE DEF lane
    <3> QED BY <2>1, <3>1, <3>3, <3>4, InvFacts, KeepsAttempt, Zenon DEF Holding
  <2> QED BY <1>1, <2>2, <2>3, Zenon DEF RenewReserved
<1>2. ASSUME NEW l \in Lanes, RenewLease(l)
      PROVE  IInv'
  <2>1. /\ lanes[l].pc # "idle" /\ rows' = RenewedBy(l)
        /\ UNCHANGED <<receipts, lanes, calls, deferred>>
    BY <1>2, SMTT(40) DEF RenewLease
  <2> QED BY <2>1, InvFacts, RenewQuiet, RowsMove, SMTT(40)
<1>3. ASSUME NEW l \in Lanes, LaneDies(l)
      PROVE  IInv'
  BY <1>3, InvFacts, UnchangedRowsQuiet, LaneEnds, SMTT(40) DEF LaneDies
<1>4. ASSUME NEW l \in Lanes, DrainAbandon(l)
      PROVE  IInv'
  <2> DEFINE r == lanes[l].row
             lane == [lanes[l] EXCEPT !.inflight = FALSE]
  <2>1. PICK attempt \in {1, Effective(rows[r])} : Record(r, <<Rcpt(attempt, "suppressed")>>)
    BY <1>4 DEF DrainAbandon, Item
  <2>2. /\ lanes[l].pc # "idle" /\ lanes[l].inflight
        /\ SetLane(l, lane) /\ UNCHANGED <<rows, calls, deferred>>
    BY <1>4, SMTT(40) DEF DrainAbandon
  <2>3. /\ r \in Rows /\ lanes[l] \in Lane /\ rows[r] \in Row /\ lanes[l].attempt \in Nat
        /\ lanes[l].attempt <= Effective(rows[r]) /\ lanes[l].attempt >= 1
        /\ Effective(rows[r]) \in Nat /\ Carried(l, lanes[l])
    BY <2>2, LaneFacts, EffectiveType, Zenon
  <2>4. attempt \in Nat /\ attempt <= Effective(rows[r])
    BY <2>1, <2>3, SMTT(40)
  <2> DEFINE receipt == Rcpt(attempt, "suppressed")
             new == <<receipt>>
  <2>5. receipt \in Receipt /\ receipt.attempt = attempt
    BY <2>4, Zenon DEF Rcpt, Receipt, RECEIPT_STATUSES
  <2>6. Record(r, new)
    BY <2>1, Zenon
  <2> HIDE DEF receipt
  <2>7. new \in Seq(Receipt) /\ \A i \in DOMAIN new : new[i].attempt <= Effective(rows[r])
    BY <2>4, <2>5
  <2> HIDE DEF new
  <2>8. RowsQuiet /\ rows' \in [Rows -> Row]
    BY <2>2, InvFacts, UnchangedRowsQuiet
  <2>9. receipts' \in [Rows -> Seq(Receipt)] /\ Appended /\ ReceiptsBehind'
    BY <2>3, <2>6, <2>7, <2>8, InvFacts, RecordEffect, RecordBehind, Zenon
  <2>10. /\ lane \in Lane /\ lane.pc = lanes[l].pc /\ lane.row = r
         /\ lane.attempt = lanes[l].attempt /\ lane.active = lanes[l].active
         /\ lane.receipt = lanes[l].receipt /\ lane.inflight = FALSE
    BY <2>3, Zenon DEF Lane
  <2> HIDE DEF lane
  <2>11. lane.pc = "recorded" => /\ lane.receipt \in DOMAIN receipts'[lane.row]
                                 /\ receipts'[lane.row][lane.receipt].attempt = lane.attempt
    <3>1. lanes[l].pc = "recorded" => /\ lanes[l].receipt \in DOMAIN receipts[r]
                                      /\ receipts[r][lanes[l].receipt].attempt = lanes[l].attempt
      BY InvFacts, Zenon DEF Typed, RecordedPointer
    <3>2. \A i \in DOMAIN receipts[r] : i \in DOMAIN receipts'[r] /\ receipts'[r][i] = receipts[r][i]
      BY <2>3, <2>9, Zenon DEF Appended
    <3> HIDE DEF r
    <3> QED BY <2>10, <3>1, <3>2
  <2>12. Typed'
    BY <2>2, <2>3, <2>8, <2>9, <2>10, <2>11, InvFacts, LaneTyped, Zenon
  <2>13. Carried(l, lane)
    BY <2>3, <2>10, Zenon DEF Carried
  <2>14. \A m \in Lanes : lanes'[m] = lanes[m] \/ Carried(m, lanes'[m])
    BY <2>2, <2>3, <2>10, <2>13, InvFacts, SetLaneEffect, Zenon
  <2>15. Generations'
    BY <2>2, <2>8, <2>9, <2>12, <2>14, InvFacts, QuietStep, Zenon
  <2> QED BY <2>12, <2>15 DEF IInv
<1>5. ASSUME NEW h \in Hosts, Crash(h)
      PROVE  IInv'
  <2>1. /\ UNCHANGED <<rows, receipts, calls>> /\ deferred' \subseteq deferred
        /\ \A l \in Lanes : lanes'[l] = IdleLane \/ lanes'[l] = lanes[l]
        /\ lanes' \in [Lanes -> Lane]
    BY <1>5, InvFacts, SMTT(40) DEF Crash
  <2>2. RowsQuiet /\ ReceiptsBehind'
    BY <2>1, InvFacts, UnchangedRowsQuiet, UnchangedReceiptsBehind
  <2>3. TypeOK'
    BY <2>1, InvFacts, IdleLaneType, Zenon DEF TypeOK
  <2>4. RecordedPointer'
    BY <2>1, InvFacts, IdleLaneType, Zenon DEF Typed, RecordedPointer
  <2>5. \A m \in Lanes : lanes'[m] = lanes[m] \/ Carried(m, lanes'[m])
    BY <2>1, InvFacts, Zenon
  <2>6. Generations'
    BY <2>1, <2>2, <2>3, <2>4, <2>5, InvFacts, QuietStep, Zenon DEF Typed
  <2> QED BY <2>3, <2>4, <2>6, Zenon DEF IInv, Typed
<1> QED BY <1>1, <1>2, <1>3, <1>4, <1>5

------------------------------------------------------------------------------
(* Steps that create a generation, and the call. *)

\* A generation that is zero, below another or equal to it is at most the other.
LEMMA AtMost ==
  ASSUME NEW a \in Nat, NEW b \in Nat, a = 0 \/ a < b \/ a = b
  PROVE  a <= b
OBVIOUS

\* A generation below another is a different one.
LEMMA BelowDiffers ==
  ASSUME NEW a \in Nat, NEW b \in Nat, a < b
  PROVE  a # b
OBVIOUS

\* No generation is both below another and at or above it.
LEMMA NotBelowAndAbove ==
  ASSUME NEW a \in Nat, NEW b \in Nat, a < b, b <= a
  PROVE  FALSE
OBVIOUS

\* One row takes a generation above every other row of its identity.
LEMMA RowGrows ==
  ASSUME IInv, NEW r \in Rows, NEW row \in Row, SetRow(r, row), row.status # "absent",
         row.active # NULL => row.active = row.attempt + 1,
         Effective(rows[r]) <= Effective(row), NoNewerGeneration(r, Effective(row)),
         receipts' = receipts, calls' = calls
  PROVE  /\ rows' \in [Rows -> Row]
         /\ ReservesNext' /\ AbsentUnused' /\ ReceiptsBehind' /\ CallsBehind'
         /\ GenerationsDistinct'
         /\ \A m \in Lanes : lanes'[m] = lanes[m] => LaneBehind(m)'
<1>1. rows' \in [Rows -> Row] /\ rows'[r] = row /\ \A s \in Rows \ {r} : rows'[s] = rows[s]
  BY InvFacts, SetRowEffect, SMTT(40)
<1>2. \A s \in Rows : Effective(rows[s]) \in Nat /\ Effective(rows'[s]) \in Nat
  BY <1>1, InvFacts, EffectiveType, Zenon
<1>3. \A s \in Rows : Effective(rows[s]) <= Effective(rows'[s])
  BY <1>1, <1>2, SMTT(40)
<1>4. \A s \in Rows : rows[s].status # "absent" => rows'[s].status # "absent"
  BY <1>1
<1>5. ReservesNext'
  BY <1>1, InvFacts, Zenon DEF ReservesNext
<1>6. AbsentUnused'
  BY <1>1, InvFacts, Zenon DEF Generations, AbsentUnused, Exists
<1>7. ReceiptsBehind'
  <2> SUFFICES ASSUME NEW s \in Rows, NEW i \in DOMAIN receipts[s]
               PROVE  receipts[s][i].attempt <= Effective(rows'[s])
    BY Zenon DEF ReceiptsBehind
  <2>1. receipts[s][i].attempt <= Effective(rows[s])
    BY InvFacts, SMTT(40) DEF ReceiptsBehind
  <2>2. receipts[s] \in Seq(Receipt)
    BY InvFacts, Zenon
  <2>3. receipts[s][i] \in Receipt
    BY <2>2, SMTT(40)
  <2>4. receipts[s][i].attempt \in Nat
    BY <2>3, Zenon DEF Receipt
  <2> QED BY <1>2, <1>3, <2>1, <2>4, SMTT(40)
<1>8. CallsBehind'
  <2> SUFFICES ASSUME NEW c \in calls
               PROVE  \E s \in Rows : /\ TargetOf[s] = c[1] /\ rows'[s].status # "absent"
                                      /\ c[2] <= Effective(rows'[s])
    BY Zenon DEF CallsBehind, Exists
  <2>1. PICK s \in Rows : /\ TargetOf[s] = c[1] /\ rows[s].status # "absent"
                          /\ c[2] <= Effective(rows[s])
    BY InvFacts, SMTT(40) DEF Generations, CallsBehind, Exists
  <2>2. c[2] \in Nat
    BY InvFacts, Zenon
  <2> QED BY <1>2, <1>3, <1>4, <2>1, <2>2, SMTT(40)
<1>9. GenerationsDistinct'
  <2> SUFFICES ASSUME NEW s \in Rows, NEW u \in Rows, s # u, TargetOf[s] = TargetOf[u],
                      rows'[s].status # "absent", rows'[u].status # "absent"
               PROVE  Effective(rows'[s]) # Effective(rows'[u])
    BY Zenon DEF GenerationsDistinct, Exists
  <2>1. \A v \in Rows \ {r} : TargetOf[v] = TargetOf[r] /\ rows[v].status # "absent"
          => Effective(rows[v]) < Effective(row)
    BY Zenon DEF NoNewerGeneration, OfTarget, Exists
  <2>2. CASE s = r
    BY <1>1, <1>2, <2>1, <2>2, BelowDiffers, Zenon
  <2>3. CASE u = r
    BY <1>1, <1>2, <2>1, <2>3, BelowDiffers, Zenon
  <2>4. CASE s # r /\ u # r
    BY <1>1, <2>4, InvFacts, Zenon DEF Generations, GenerationsDistinct, Exists
  <2> QED BY <2>2, <2>3, <2>4, Zenon
<1>10. ASSUME NEW m \in Lanes, lanes'[m] = lanes[m], lanes[m].pc # "idle"
       PROVE  /\ rows'[lanes[m].row].status # "absent"
              /\ lanes[m].attempt <= Effective(rows'[lanes[m].row])
              /\ lanes[m].active <= Effective(rows'[lanes[m].row])
              /\ lanes[m].inflight \/ lanes[m].pc \in Holding => lanes[m].attempt >= 1
  BY <1>2, <1>3, <1>4, <1>10, LaneFacts
<1>11. \A m \in Lanes : lanes'[m] = lanes[m] => LaneBehind(m)'
  BY <1>10, Zenon DEF LaneBehind, Exists
<1> QED BY <1>1, <1>5, <1>6, <1>7, <1>8, <1>9, <1>11, SMTT(40)

\* A lane takes hold of a generation above every existing one of the identity.
LEMMA NewHolder ==
  ASSUME IInv, NEW r \in Rows, NEW row \in Row, SetRow(r, row), row.status # "absent",
         row.active # NULL => row.active = row.attempt + 1, Effective(row) >= 1,
         \A s \in OfTarget(TargetOf[r]) : Effective(rows[s]) < Effective(row),
         NEW l \in Lanes, NEW lane \in Lane, SetLane(l, lane), lane.row = r,
         lane.attempt = Effective(row), lane.active <= Effective(row), lane.pc \in Holding,
         UNCHANGED <<receipts, calls, deferred>>
  PROVE  IInv'
<1> DEFINE t == TargetOf[r]
           g == Effective(row)
<1>1. \A s \in Rows : Effective(rows[s]) \in Nat
  BY InvFacts, EffectiveType, Zenon
<1>2. g \in Nat
  BY EffectiveType, Zenon
<1>3. \A s \in Rows : TargetOf[s] = t /\ rows[s].status # "absent" => Effective(rows[s]) < g
  BY Zenon DEF OfTarget, Exists
<1>4. Effective(rows[r]) <= g
  <2>1. rows[r].status = "absent" => Effective(rows[r]) = 0
    BY InvFacts, Zenon DEF Generations, AbsentUnused, Exists
  <2>2. rows[r].status # "absent" => Effective(rows[r]) < g
    BY <1>3, Zenon
  <2>3. Effective(rows[r]) \in Nat
    BY <1>1, Zenon
  <2> QED BY <1>2, <2>1, <2>2, <2>3, AtMost, Zenon
<1>5. NoNewerGeneration(r, g)
  BY SMTT(40) DEF NoNewerGeneration
<1>6. /\ rows' \in [Rows -> Row]
      /\ ReservesNext' /\ AbsentUnused' /\ ReceiptsBehind' /\ CallsBehind'
      /\ GenerationsDistinct'
      /\ \A m \in Lanes : lanes'[m] = lanes[m] => LaneBehind(m)'
  BY <1>4, <1>5, RowGrows, Zenon
<1>7. lanes'[l] = lane /\ \A m \in Lanes \ {l} : lanes'[m] = lanes[m]
  BY InvFacts, SetLaneEffect, Zenon
<1>8. Typed'
  BY <1>6, InvFacts, SameReceipts, LaneTyped, Zenon DEF Holding
<1>9. rows'[r] = row
  BY InvFacts, SetRowEffect, Zenon
<1>10. LaneBehind(l)'
  <2>1. /\ lanes'[l].row = r /\ lanes'[l].attempt = Effective(row)
        /\ lanes'[l].active <= Effective(row)
    BY <1>7, Zenon
  <2>2. rows'[lanes'[l].row] = row
    BY <1>9, <2>1, Zenon
  <2>3. lanes'[l].attempt <= Effective(row)
    BY <1>2, <2>1, AtMost, Zenon
  <2> QED BY <2>1, <2>2, <2>3, Zenon DEF LaneBehind, Exists
<1>11. \A m \in Lanes : LaneBehind(m)'
  BY <1>6, <1>7, <1>10, Zenon
<1>12. <<t, g>> \notin calls
  <2>1. ASSUME <<t, g>> \in calls
        PROVE  FALSE
    <3>1. PICK s \in Rows : TargetOf[s] = t /\ rows[s].status # "absent" /\ g <= Effective(rows[s])
      BY <2>1, InvFacts, Zenon DEF Generations, CallsBehind, Exists
    <3> QED BY <1>1, <1>2, <1>3, <3>1, NotBelowAndAbove, Zenon
  <2> QED BY <2>1, Zenon
<1>13. \A m \in Lanes : lanes[m].pc \in Holding => Gen(m) # <<t, g>>
  <2> SUFFICES ASSUME NEW m \in Lanes, lanes[m].pc \in Holding, Gen(m) = <<t, g>>
               PROVE  FALSE
    OBVIOUS
  <2>1. lanes[m].row \in Rows /\ rows[lanes[m].row].status # "absent"
        /\ lanes[m].attempt <= Effective(rows[lanes[m].row])
    BY LaneFacts, Zenon DEF Holding
  <2>2. TargetOf[lanes[m].row] = t /\ lanes[m].attempt = g
    BY Zenon DEF Gen
  <2>3. Effective(rows[lanes[m].row]) < g
    BY <1>3, <2>1, <2>2, Zenon
  <2>4. g <= Effective(rows[lanes[m].row])
    BY <2>1, <2>2, Zenon
  <2>5. Effective(rows[lanes[m].row]) \in Nat
    BY <1>1, <2>1, Zenon
  <2> QED BY <1>2, <2>3, <2>4, <2>5, NotBelowAndAbove, Zenon
<1>14. NoSecondHandoff'
  <2>1. Gen(l)' = <<t, g>> /\ \A m \in Lanes \ {l} : lanes'[m] = lanes[m] /\ Gen(m)' = Gen(m)
    BY <1>7, Zenon DEF Gen
  <2> HIDE DEF t, g
  <2>2. calls' = calls /\ NoSecondHandoff
    BY InvFacts, Zenon DEF Generations
  <2> QED BY <1>12, <1>13, <2>1, <2>2, Zenon DEF NoSecondHandoff, Holding
<1> QED BY <1>6, <1>8, <1>11, <1>14, Zenon DEF IInv, Generations

\* The creates: a row appears with a generation nobody has reached.
LEMMA CreateSteps ==
  ASSUME IInv, NEW r \in Rows,
         \/ Stage(r)
         \/ \E l \in Lanes : CreateDirect(l, r)
         \/ \E l \in Lanes, run \in Runs \cup {NoRun} : CreateReplay(l, r, run)
  PROVE  IInv'
<1>1. /\ {"pending", "in_progress"} \subseteq OUTBOX_STATUSES \cup {"absent"} /\ NoRun \in Runs \cup {NoRun}
      /\ \A s \in Rows : rows[s] \in Row /\ Effective(rows[s]) \in Nat
  BY InvFacts, EffectiveType, Zenon DEF OUTBOX_STATUSES, CLAIMABLE_OUTBOX_STATUSES
<1>2. CASE Stage(r)
  <2> DEFINE row == NewRow("pending", 0, NoLane, NoRun)
  <2>1. row \in Row
    BY <1>1, NewRowType, Zenon
  <2>2. row.status = "pending" /\ row.active = NULL /\ Effective(row) = 0
    BY DEF NewRow, Effective, NULL
  <2>3. SetRow(r, row) /\ UNCHANGED <<receipts, lanes, calls, deferred>>
        /\ rows[r].status = "absent" /\ ~Adopted(TargetOf[r], 0)
    BY <1>2, Zenon DEF Stage, Exists
  <2> HIDE DEF row
  <2>4. Effective(rows[r]) = 0
    BY <2>3, InvFacts DEF Generations, AbsentUnused, Exists
  <2>5. OfTarget(TargetOf[r]) = {}
    <3> SUFFICES ASSUME NEW s \in OfTarget(TargetOf[r])
                 PROVE  FALSE
      OBVIOUS
    <3>1. rows[s] \in Row
      BY <1>1, Zenon DEF OfTarget
    <3>2. rows[s].attempt >= 0
      BY <3>1, SMTT(40) DEF Row
    <3> QED BY <2>3, <3>2, Zenon DEF Adopted
  <2>6. NoNewerGeneration(r, Effective(row))
    BY <2>5, Zenon DEF NoNewerGeneration
  <2>7. /\ rows' \in [Rows -> Row]
        /\ ReservesNext' /\ AbsentUnused' /\ ReceiptsBehind' /\ CallsBehind'
        /\ GenerationsDistinct'
        /\ \A m \in Lanes : lanes'[m] = lanes[m] => LaneBehind(m)'
    <3>1. /\ row.status # "absent" /\ (row.active # NULL => row.active = row.attempt + 1)
          /\ Effective(rows[r]) <= Effective(row)
      BY <2>2, <2>4, SMTT(40)
    <3>2. receipts' = receipts /\ calls' = calls /\ SetRow(r, row)
      BY <2>3, Zenon
    <3> QED BY <2>1, <2>6, <3>1, <3>2, RowGrows, Zenon
  <2>8. Typed'
    BY <2>3, <2>7, InvFacts, SameReceipts, TablesTyped
  <2>9. NoSecondHandoff'
    BY <2>3, InvFacts, Zenon DEF Generations, NoSecondHandoff, Gen
  <2> QED BY <2>3, <2>7, <2>8, <2>9, Zenon DEF IInv, Generations
<1>3. ASSUME NEW l \in Lanes, NEW g \in Nat, g >= 1, NEW run \in Runs \cup {NoRun},
             SetRow(r, NewRow("in_progress", g, l, run)), SetLane(l, PipelineLane(r, g)),
             \A s \in OfTarget(TargetOf[r]) : Effective(rows[s]) < g,
             UNCHANGED <<receipts, calls, deferred>>
      PROVE  IInv'
  <2> DEFINE row == NewRow("in_progress", g, l, run)
             lane == PipelineLane(r, g)
  <2>1. row \in Row
    BY <1>1, NewRowType, Zenon
  <2>2. row.status = "in_progress" /\ row.active = NULL /\ Effective(row) = g
    BY DEF NewRow, Effective, NULL
  <2>3. /\ lane \in Lane /\ lane.row = r /\ lane.attempt = g /\ lane.active = 0
        /\ lane.pc \in Holding
    BY Zenon DEF PipelineLane, IdleLane, Lane, PCs, NULL, Holding
  <2>4. SetRow(r, row) /\ SetLane(l, lane)
    BY <1>3
  <2> HIDE DEF row, lane
  <2>5. /\ row.status # "absent" /\ (row.active # NULL => row.active = row.attempt + 1)
        /\ Effective(row) >= 1 /\ lane.attempt = Effective(row) /\ lane.active <= Effective(row)
    <3>1. g \in Nat /\ g >= 1
      BY <1>3, Zenon
    <3> QED BY <2>2, <2>3, <3>1
  <2>6. \A s \in OfTarget(TargetOf[r]) : Effective(rows[s]) < Effective(row)
    BY <1>3, <2>2, Zenon
  <2>7. UNCHANGED <<receipts, calls, deferred>> /\ l \in Lanes
    BY <1>3, Zenon
  <2> QED BY <2>1, <2>3, <2>4, <2>5, <2>6, <2>7, NewHolder, Zenon
<1>4. ASSUME NEW l \in Lanes, CreateDirect(l, r)
      PROVE  IInv'
  <2>1. \A s \in OfTarget(TargetOf[r]) : Effective(rows[s]) < 1
    <3> SUFFICES ASSUME NEW s \in OfTarget(TargetOf[r])
                 PROVE  Effective(rows[s]) < 1
      BY Zenon
    <3>1. rows[s] \in Row
      BY <1>1, Zenon DEF OfTarget
    <3>2. rows[s].attempt \in Nat /\ rows[s].active \in Nat
      BY <3>1 DEF Row
    <3>3. ~(rows[s].attempt >= 1) /\ ~(rows[s].active >= 1)
      BY <1>4, Zenon DEF CreateDirect, Adopted
    <3> QED BY <3>2, <3>3, SMTT(40) DEF Effective
  <2>2. /\ SetRow(r, NewRow("in_progress", 1, l, NoRun)) /\ SetLane(l, PipelineLane(r, 1))
        /\ UNCHANGED <<receipts, calls, deferred>>
    BY <1>4, Zenon DEF CreateDirect
  <2>3. 1 \in Nat /\ 1 >= 1 /\ NoRun \in Runs \cup {NoRun}
    BY <1>1, SMTT(40)
  <2> QED BY <1>3, <2>1, <2>2, <2>3, Zenon
<1>5. ASSUME NEW l \in Lanes, NEW run \in Runs \cup {NoRun}, CreateReplay(l, r, run)
      PROVE  IInv'
  <2>1. PICK g \in 1..AttemptCap :
          /\ NextGeneration(TargetOf[r], g)
          /\ SetRow(r, NewRow("in_progress", g, l, run))
          /\ SetLane(l, PipelineLane(r, g))
    BY <1>5, Zenon DEF CreateReplay
  <2>2. g \in Nat /\ g >= 1
    BY BudgetAssumption, SMTT(40)
  <2>3. \A s \in OfTarget(TargetOf[r]) : Effective(rows[s]) < g
    BY <2>1 DEF NextGeneration
  <2>4. UNCHANGED <<receipts, calls, deferred>>
    BY <1>5, Zenon DEF CreateReplay
  <2> QED BY <1>3, <2>1, <2>2, <2>3, <2>4
<1> QED BY <1>2, <1>4, <1>5, SMTT(40)

\* A reservation takes the next generation, if the row and its siblings allow it.
LEMMA ReserveStep ==
  ASSUME IInv, NEW l \in Lanes, Reserve(l)
  PROVE  IInv'
<1> DEFINE r == lanes[l].row
           g == lanes[l].attempt + 1
<1>1. lanes[l].pc # "idle" /\ UNCHANGED <<receipts, calls, deferred>>
  BY DEF Reserve
<1>2. /\ r \in Rows /\ rows[r] \in Row /\ lanes[l] \in Lane /\ lanes[l].attempt \in Nat
      /\ rows[r].status # "absent" /\ lanes[l].active <= Effective(rows[r])
      /\ lanes[l].active \in Nat
  BY <1>1, LaneFacts, Zenon
<1>3. CASE EndLane(l) /\ UNCHANGED rows
  BY <1>1, <1>3, InvFacts, UnchangedRowsQuiet, LaneEnds
<1>4. CASE /\ CanReserve(l)
           /\ rows' = [rows EXCEPT ![r].active = g]
           /\ SetLane(l, [lanes[l] EXCEPT !.pc = "reserved", !.attempt = g,
                            !.mode = IF lanes[l].attempt = 0 THEN "initial" ELSE "retry"])
  <2> DEFINE row == [rows[r] EXCEPT !.active = g]
             mode == IF lanes[l].attempt = 0 THEN "initial" ELSE "retry"
             lane == [lanes[l] EXCEPT !.pc = "reserved", !.attempt = g, !.mode = mode]
  <2>1. rows[r].active = NULL /\ rows[r].attempt = lanes[l].attempt /\ NoNewerGeneration(r, g)
    BY <1>4, Zenon DEF CanReserve, Item
  <2>2. g \in Nat /\ g >= 1
    BY <1>2, SMTT(40)
  <2>3. row \in Row
    BY <1>2, <2>2, SMTT(40) DEF Row
  <2>4. /\ row.status = rows[r].status /\ row.active = g /\ row.attempt = rows[r].attempt
        /\ Effective(row) = g
    BY <1>2, <2>2 DEF Row, Effective, NULL
  <2>5. SetRow(r, row)
    BY <1>4, Zenon DEF SetRow
  <2>6. Effective(rows[r]) < g
    BY <1>2, <2>1, SMTT(40) DEF Effective
  <2>7. \A s \in OfTarget(TargetOf[r]) : Effective(rows[s]) < g
    BY <2>1, <2>6 DEF NoNewerGeneration
  <2>8. SetLane(l, lane) /\ mode \in {"pipeline", "initial", "retry"}
    BY <1>4
  <2> HIDE DEF mode
  <2>9. /\ lane \in Lane /\ lane.row = r /\ lane.attempt = g /\ lane.active = lanes[l].active
        /\ lane.pc \in Holding
    BY <1>2, <2>2, <2>8, Zenon DEF Lane, PCs, Holding
  <2>10. lane.active <= g
    BY <1>2, <2>6, <2>9, EffectiveType, SMTT(40)
  <2> HIDE DEF lane, row
  <2>11. row.active # NULL => row.active = row.attempt + 1
    BY <2>1, <2>4, SMTT(40)
  <2> HIDE DEF g
  <2> QED BY <1>1, <1>2, <2>2, <2>3, <2>4, <2>5, <2>7, <2>8, <2>9, <2>10, <2>11, NewHolder, Zenon
<1> QED BY <1>3, <1>4 DEF Reserve

\* The native call: the lane's generation becomes a made call.
LEMMA NativeStartStep ==
  ASSUME IInv, NEW l \in Lanes, NativeStart(l)
  PROVE  IInv'
<1> DEFINE lane == [lanes[l] EXCEPT !.pc = "calling"]
           r == lanes[l].row
           gen == <<TargetOf[r], lanes[l].attempt>>
<1>1. /\ lanes[l].pc = "authorized" /\ SetLane(l, lane)
      /\ calls' = calls \cup {gen} /\ UNCHANGED <<rows, receipts, deferred>>
  BY SMTT(40) DEF NativeStart, GoTo, Gen
<1>2. /\ r \in Rows /\ lanes[l] \in Lane /\ lanes[l].attempt \in Nat /\ TargetOf[r] \in Targets
      /\ rows[r].status # "absent" /\ lanes[l].attempt <= Effective(rows[r])
  BY <1>1, LaneFacts, RowsAssumption
<1>3. /\ lane \in Lane /\ lane.pc = "calling" /\ lane.row = r
      /\ lane.attempt = lanes[l].attempt /\ lane.active = lanes[l].active
      /\ lane.inflight = lanes[l].inflight
  BY <1>2, Zenon DEF Lane, PCs
<1> HIDE DEF lane
<1>4. calls' \subseteq Targets \X Nat /\ rows' \in [Rows -> Row] /\ receipts' \in [Rows -> Seq(Receipt)]
      /\ deferred' \subseteq [row: Rows, attempt: Nat, host: Hosts] /\ Appended
  BY <1>1, <1>2, InvFacts, SameReceipts
<1>5. Typed'
  BY <1>1, <1>2, <1>3, <1>4, InvFacts, LaneTyped, Zenon
<1>6. lanes'[l] = lane /\ \A m \in Lanes \ {l} : lanes'[m] = lanes[m]
  BY <1>1, <1>2, <1>3, InvFacts, SetLaneEffect, Zenon
<1>7. \A m \in Lanes : LaneBehind(m)'
  BY <1>1, <1>3, <1>6, InvFacts, Zenon DEF Generations, LaneBehind, Exists, Holding
<1>8. CallsBehind'
  <2>1. \A c \in calls : \E s \in Rows : TargetOf[s] = c[1] /\ rows[s].status # "absent"
                                         /\ c[2] <= Effective(rows[s])
    BY InvFacts, SMTT(40) DEF Generations, CallsBehind, Exists
  <2>2. gen[1] = TargetOf[r] /\ gen[2] = lanes[l].attempt
    BY Zenon
  <2> HIDE DEF gen, r
  <2> QED BY <1>1, <1>2, <2>1, <2>2, Zenon DEF CallsBehind, Exists
<1>9. NoSecondHandoff'
  <2>1. /\ Gen(l) = gen /\ \A m \in Lanes : lanes'[m].pc \in Holding =>
             m # l /\ lanes[m].pc \in Holding /\ Gen(m)' = Gen(m)
    BY <1>3, <1>6 DEF Gen, Holding
  <2>2. NoSecondHandoff /\ lanes[l].pc \in Holding
    BY <1>1, InvFacts, Zenon DEF Generations, Holding
  <2> HIDE DEF gen, r
  <2> QED BY <1>1, <2>1, <2>2, Zenon DEF NoSecondHandoff, Holding
<1>10. ReservesNext' /\ AbsentUnused' /\ ReceiptsBehind' /\ GenerationsDistinct'
  BY <1>1, InvFacts, Zenon DEF Generations, ReservesNext, AbsentUnused, ReceiptsBehind,
                        GenerationsDistinct, Exists
<1> QED BY <1>5, <1>7, <1>8, <1>9, <1>10 DEF IInv, Generations

------------------------------------------------------------------------------
(* The theorems. *)

\* The empty database satisfies the invariant.
LEMMA InitInvariant == Init => IInv
<1> SUFFICES ASSUME Init
             PROVE  IInv
  BY Zenon
<1>1. AbsentRow \in Row /\ AbsentRow.status = "absent" /\ AbsentRow.active = NULL
      /\ Effective(AbsentRow) = 0
  BY SMTT(40) DEF AbsentRow, NewRow, Row, NULL, Effective
<1>2. /\ \A r \in Rows : rows[r] = AbsentRow /\ receipts[r] = <<>>
      /\ \A l \in Lanes : lanes[l] = IdleLane
      /\ calls = {} /\ deferred = {}
  BY SMTT(40) DEF Init
<1>3. rows \in [Rows -> Row] /\ lanes \in [Lanes -> Lane] /\ receipts \in [Rows -> Seq(Receipt)]
  BY <1>1, IdleLaneType, SMTT(40) DEF Init
<1>4. \A l \in Lanes : lanes[l].pc = "idle"
  BY <1>2, IdleLaneType, Zenon
<1>5. Typed
  BY <1>2, <1>3, <1>4, Zenon DEF Typed, TypeOK, RecordedPointer
<1>6. \A r \in Rows : DOMAIN receipts[r] = {} /\ ~Exists(r) /\ rows[r].active = NULL
                      /\ Effective(rows[r]) = 0
  BY <1>1, <1>2 DEF Exists
<1>7. ReservesNext /\ AbsentUnused /\ ReceiptsBehind /\ CallsBehind
  BY <1>2, <1>6, Zenon DEF ReservesNext, AbsentUnused, ReceiptsBehind, CallsBehind
<1>8. (\A l \in Lanes : LaneBehind(l)) /\ NoSecondHandoff
  BY <1>4, Zenon DEF LaneBehind, NoSecondHandoff
<1>9. GenerationsDistinct
  BY <1>6, SMTT(40) DEF GenerationsDistinct
<1> QED BY <1>5, <1>7, <1>8, <1>9 DEF IInv, Generations

\* A stuttering step changes nothing the invariant speaks of.
LEMMA StutterInvariant ==
  ASSUME IInv, UNCHANGED vars
  PROVE  IInv'
  BY InvFacts, UnchangedRowsQuiet, RowsMove, SMTT(40) DEF vars

\* Every step of the delivery core keeps the invariant.
LEMMA StepInvariant ==
  ASSUME IInv, [Next]_vars
  PROVE  IInv'
<1>1. ASSUME NEW r \in Rows,
             \/ Stage(r) \/ OperatorCancel(r) \/ DeadlineRetire(r)
             \/ LeaseExpires(r) \/ BackoffElapses(r) \/ QueuedGoesStale(r) \/ DeadlinePasses(r)
      PROVE  IInv'
  BY <1>1, RowSteps, CreateSteps, Zenon
<1>2. ASSUME NEW l \in Lanes, NEW r \in Rows,
             \/ CreateDirect(l, r) \/ Claim(l, r)
             \/ \E run \in Runs \cup {NoRun} : CreateReplay(l, r, run)
      PROVE  IInv'
  BY <1>2, ClaimStep, CreateSteps, Zenon
<1>3. ASSUME NEW l \in Lanes, LaneStep(l)
      PROVE  IInv'
  <2>1. CASE AbandonUnstarted(l) \/ ReleaseUnstarted(l) \/ Defer(l) \/ PrepareInitial(l)
    BY <2>1, UnreservedSteps, SMTT(40)
  <2>2. CASE Reconcile(l) \/ Reserve(l) \/ RenewReserved(l)
    BY <2>2, ReconcileStep, ReserveStep, FaultSteps, SMTT(40)
  <2>3. CASE \/ Authorize(l) \/ AfterRaise(l)
             \/ \E kind \in Kinds : Raise(l, kind) \/ NativeRefFails(l, kind)
             \/ \E outcome \in Outcomes : NativeReturn(l, outcome)
    BY <2>3, DispatchSteps
  <2>4. CASE NativeStart(l)
    BY <2>4, NativeStartStep, SMTT(40)
  <2>5. CASE Suppress(l) \/ RecordReturn(l) \/ \E kind \in Kinds : FailBeforeCall(l, kind)
    BY <2>5, ReceiptSteps
  <2>6. CASE CommitUnrecorded(l) \/ CommitRecorded(l)
    BY <2>6, CommitSteps, SMTT(40)
  <2> QED BY <1>3, <2>1, <2>2, <2>3, <2>4, <2>5, <2>6, SMTT(40) DEF LaneStep
<1>4. ASSUME NEW l \in Lanes, RenewLease(l) \/ DrainAbandon(l) \/ LaneDies(l)
      PROVE  IInv'
  BY <1>4, FaultSteps, SMTT(40)
<1>5. ASSUME NEW d \in deferred,
             \/ Completed(d) \/ DropFeedback(d)
             \/ \E status \in LIFECYCLE_TERMINALS : Failed(d, status)
      PROVE  IInv'
  BY <1>5, FeedbackSteps, SMTT(40)
<1>6. ASSUME NEW h \in Hosts, Crash(h)
      PROVE  IInv'
  BY <1>6, FaultSteps, SMTT(40)
<1>7. CASE UNCHANGED vars
  BY <1>7, StutterInvariant, Zenon
<1>8. CASE Next
  BY <1>1, <1>2, <1>3, <1>4, <1>5, <1>6, <1>8 DEF Next
<1> QED BY <1>7, <1>8, SMTT(40)

\* The inductive invariant holds of every behaviour.
THEOREM Invariance == Spec => []IInv
  BY InitInvariant, StepInvariant, PTL DEF Spec

\* Type correctness of the tables, the lanes and the hand-offs.
THEOREM TypeCorrect == Spec => []TypeOK
<1>1. IInv => TypeOK
  BY SMTT(40) DEF IInv, Typed
<1> QED BY <1>1, Invariance, PTL

\* A generation of a delivery identity is handed to the transport at most once,
\* whatever rows, lanes, processes, crashes, lapsed leases and late feedback
\* there are (reserve_outbox_attempt, create_outbox_item).
THEOREM HandedOffOnce == Spec => []NoSecondHandoff
<1>1. IInv => NoSecondHandoff
  BY SMTT(40) DEF IInv, Generations
<1> QED BY <1>1, Invariance, PTL

\* Rows of one identity never stand for the same generation, so the newest
\* generation names one row (claim_due_outbox_items, replay allocation).
THEOREM OneRowPerGeneration == Spec => []GenerationsDistinct
<1>1. IInv => GenerationsDistinct
  BY DEF IInv, Generations
<1> QED BY <1>1, Invariance, PTL

==============================================================================
