---------------------------- MODULE MCSocialWatch ----------------------------
(* Handlers are interchangeable; users are not, as only some of them poll.  *)
EXTENDS SocialWatch, TLC

Symmetry == Permutations(Handlers)
=============================================================================
