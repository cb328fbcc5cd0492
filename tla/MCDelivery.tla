----------------------------- MODULE MCDelivery -----------------------------
(***************************************************************************)
(* Small instances of Delivery for TLC: one target, one adapter.           *)
(***************************************************************************)
EXTENDS Delivery, TLC

CONSTANTS r1, r2, t1, a1, l1, l2, h1, h2, run1

OneTarget == [r \in Rows |-> t1]
OneAdapter == [t \in Targets |-> a1]
OneHost == [l \in Lanes |-> h1]
HostEach == [l \in Lanes |-> IF l = l1 THEN h1 ELSE h2]

LiveOrigins == [r \in Rows |-> {"staged", "direct"}]
StagedOrigins == [r \in Rows |-> {"staged"}]
AnyOrigin == [r \in Rows |-> {"staged", "direct", "replay"}]

Symmetric == Permutations(Rows) \cup Permutations(Lanes)

==============================================================================
