-------------------------- MODULE MCReviewSession ---------------------------
(* Small instances of ReviewSession for TLC. *)
EXTENDS ReviewSession

\* Every word is written with every kanji.
MCKanjiOf == [w \in Word |-> Kanji]
=============================================================================
