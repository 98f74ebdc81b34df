--------------------------- MODULE SnapshotReads ---------------------------
(***************************************************************************)
(* What the sync answers promise, with no revision, cursor, tombstone or   *)
(* epoch in sight: a device that gets an answer for an account then holds  *)
(* exactly the deck the server has for that account at that moment.        *)
(***************************************************************************)
CONSTANTS Reader, Account, Deck

VARIABLES truth,   \* the deck the server has for each account
          seen,    \* the deck each reader last pieced together
          token    \* what each reader keeps of its last answer: every answer
                   \* brings another, so no answer can pass for a stutter

vars == <<truth, seen, token>>

Init == /\ truth \in [Account -> Deck]
        /\ seen \in [Reader -> Deck]

\* Somebody else changes decks on the server, or a backup replaces them all.
Publish == /\ truth' \in [Account -> Deck]
           /\ UNCHANGED <<seen, token>>

\* A reader syncs: it may change the account's deck, and it reads the result.
Read(d, u) ==
  /\ truth'[u] \in Deck
  /\ truth' = [truth EXCEPT ![u] = truth'[u]]
  /\ seen' = [seen EXCEPT ![d] = truth'[u]]
  /\ token'[d] # token[d]
  /\ token' = [token EXCEPT ![d] = token'[d]]

Next == Publish \/ \E d \in Reader, u \in Account : Read(d, u)

Spec == Init /\ [][Next]_vars
=============================================================================
