--------------------------- MODULE MCPushDelivery ---------------------------
(* Connections and users are interchangeable; used by the run without       *)
(* liveness properties only.                                                *)
EXTENDS PushDelivery, TLC

Symmetry == Permutations(Connections) \cup Permutations(Users)
=============================================================================
