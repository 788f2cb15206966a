--------------------------- MODULE MCUserStorage ---------------------------
(* Published files whose ids would be rowids but for the highest bit.       *)
EXTENDS UserStorage, TLC

MCHash == [n \in PublishedNames |-> 1]
Swaps == Permutations(Connections) \cup Permutations(Users)
           \cup Permutations(PublishedNames) \cup Permutations(Contents \ TooLarge)
=============================================================================
