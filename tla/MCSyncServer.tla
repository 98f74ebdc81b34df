--------------------------- MODULE MCSyncServer ----------------------------
(* Small instances of SyncServer for TLC. *)
EXTENDS SyncServer

MCStamp == {0, 1, 3}
MCCard == Card

\* -1 stands for a negative or missing time, 4 for one ahead of the clock.
MCDeleteTime == {-1, 1, 2, 4}

MCAnswer == [card: Id, ms: {1}, kind: {"drill", "malformed"}]
=============================================================================
