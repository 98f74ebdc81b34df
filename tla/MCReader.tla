------------------------------ MODULE MCReader ------------------------------
(* A small instance of PageReader for TLC. *)
EXTENDS PageReader

CONSTANTS kd, kn, kb, kt, ku, cx, cw, e1, e2, e3

MCChar == {kd, kn, kb, kt, ku, cx, cw}
MCJapanese == {kd, kn, kb, kt, ku}
MCWide == {cw, kd}

\* The past form "kt" of a verb in "ku".
MCRules == << [in |-> <<kt>>, out |-> <<ku>>], [in |-> <<kt>>, out |-> <<kn, ku>>] >>

\* kd kb, kd and kb, and the verb kn ku.
MCGroups ==
  (<<kd, kb>> :> <<e1>>) @@ (<<kd>> :> <<e2>>) @@ (<<kb>> :> <<e2, e1>>) @@ (<<kn, ku>> :> <<e3>>)

MCHeadword == (e1 :> <<kd, kb>>) @@ (e2 :> <<kb>>) @@ (e3 :> <<kn, ku>>)

\* An emoji, the verb's past, the long word and its second half alone.
MCArticles == {<<cw, kn, kt, kd, kb, cx, kb>>}
MCFeed == <<cw, kb>>

\* On kt, the second character of the verb, on cx, and on the last kb, in UTF-16 units.
MCSpots == {3, 7, 8}

\* What the theorems about this dictionary assume.
ASSUME InstanceIsJapanese == WhollyJapanese
=============================================================================
