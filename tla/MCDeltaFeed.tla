---------------------------- MODULE MCDeltaFeed ----------------------------
(* Small instances of DeltaFeed for TLC. *)
EXTENDS DeltaFeed

\* A card added before the only delete time and one added after it.
MCStamp == {1, 2}
MCCard == {[added |-> t, reviewed |-> t, updated |-> t] : t \in MCStamp}
MCDeleteTime == {1}
MCAnswer == [card: Id, ms: {1}, kind: {"drill"}]
=============================================================================
