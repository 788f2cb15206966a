---------------------------- MODULE MCLobbyServer ----------------------------
(* Connections, users and lobby ids are interchangeable; used by the run    *)
(* without liveness properties only.                                        *)
EXTENDS LobbyServer, TLC

Symmetry == Permutations(Connections) \cup Permutations(Users)
              \cup Permutations(Ids)
=============================================================================
