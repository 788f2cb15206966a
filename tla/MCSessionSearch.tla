--------------------------- MODULE MCSessionSearch ---------------------------
(* Two addresses, one of them behind two different advertisements; a lobby  *)
(* with a negative slot count and one with nobody in it; searches bounded   *)
(* by 1 and 2 and unbounded (limit 0), with and without filters.  Names of  *)
(* connections and ids are interchangeable.                                 *)
EXTENDS SessionSearch

ad(address, playlist, free, used) ==
  [address |-> address, title |-> (1 :> playlist @@ 2 :> 1 @@ 4 :> 1),
   free_public |-> free, used_public |-> used,
   free_private |-> 1, used_private |-> -1]

MCAds == { ad("home", 1, 0, 3), ad("home", 2, 2, 0),
           ad("away", 1, 2, 2), ad("cafe", 2, -1, 1) }

query(limit, playlist, slots) ==
  [limit |-> limit,
   filters |-> [i \in 0..5 |-> CASE i = 1 -> playlist
                                 [] i = 5 -> slots
                                 [] OTHER -> MaxI32]]

MCQueries == {query(l, p, s) : l \in 0..2, p \in {1, 99}, s \in {2, 99}}
ASSUME AnswersAssumption == AdsAssumption /\ QueriesAssumption

Symmetry == Permutations(Connections) \cup Permutations(Ids)
=============================================================================
