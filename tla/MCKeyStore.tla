----------------------------- MODULE MCKeyStore -----------------------------
(* Time stops at MaxTime, after the ring has gone round; clients hold at    *)
(* most MaxTickets tickets at a time and may discard them.                  *)
EXTENDS KeyStore, TLC

CONSTANTS MaxTime, MaxTickets

Bounded == /\ now <= MaxTime
           /\ Cardinality(tickets) <= MaxTickets

Symmetry == Permutations(Issuers)
=============================================================================
