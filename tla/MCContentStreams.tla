-------------------------- MODULE MCContentStreams --------------------------
(* An account with two connections and another of the same title, each of   *)
(* which is allowed one slot of three: enough slots and ids for the first   *)
(* to overrun its limit by more than its connections explain.               *)
EXTENDS ContentStreams, TLC

CONSTANTS a1, a2, c1, c2, c3, t1

MCTitleOf == a1 :> t1 @@ a2 :> t1
MCAccountOf == c1 :> a1 @@ c2 :> a1 @@ c3 :> a2

Symmetry == Permutations({c1, c2}) \cup Permutations(Slots)
=============================================================================
