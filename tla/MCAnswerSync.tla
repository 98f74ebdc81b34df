--------------------------- MODULE MCAnswerSync ----------------------------
(* Small instances of AnswerSync for TLC. *)
EXTENDS AnswerSync, TLC

CONSTANT rec

MCStamp == 0..MaxNow
MCAnswer == [card: {rec}, ms: 2..MaxNow, kind: {"drill"}]
            \cup [card: {rec}, ms: {3}, kind: {"review"}]
NoCard == {}
NoDelete == {}
Devices == Permutations(Device)
=============================================================================
