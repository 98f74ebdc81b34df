----------------------------- MODULE MCAccounts -----------------------------
(* A small instance of SchemaUpgrade, and of OtpAuth within it, for TLC: one *)
(* person types an address or leaves the field empty, another is only known  *)
(* from an earlier build.                                                    *)
EXTENDS SchemaUpgrade, TLC

MCNormalEmail == [s \in Spelling |-> IF s = "blank" THEN "" ELSE "ann"]
MCSymmetry == Permutations(Task) \cup Permutations(Code)
=============================================================================
