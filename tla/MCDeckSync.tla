---------------------------- MODULE MCDeckSync -----------------------------
(* Small instances of DeckSync for TLC. *)
EXTENDS DeckSync, TLC

CONSTANTS d1, d2

MCStamp == 0..MaxNow + 3
MCCard == [added: MCStamp, reviewed: {0}, updated: MCStamp]
MCDeleteTime == 0..MaxNow + 3
MCAnswer == {}
Nobody == {}
InStep == [d \in Device |-> 0]
FastClock == [d \in Device |-> IF d = d1 THEN 2 ELSE 0]
Devices == Permutations(Device)
=============================================================================
