----------------------------- MODULE Friendships -----------------------------
(***************************************************************************)
(* The friend and friend_request tables of social.db and the three          *)
(* operations that change them (dw-server/src/social/friends.rs).  Every    *)
(* operation runs under the mutex of the one connection, so no other thread *)
(* sees it half done; but its statements commit one by one, and any of its  *)
(* writes may fail, or the server may stop after any of them.  Reads are    *)
(* assumed not to fail.                                                     *)
(*                                                                         *)
(* done says which of an operation's writes took place, in their order.     *)
(***************************************************************************)
EXTENDS Naturals

CONSTANT Users

VARIABLES
  friend,    \* rows <<user_id, friend_id>>
  request,   \* rows <<from_id, to_id>>
  asked,     \* history: <<a, b>> if a requested or accepted b and neither was
             \* told since that the other is removed
  broken,    \* history: pairs whose last accept broke off between its INSERTs
  stuck      \* history: pairs for whom the code ignored a failed DELETE

vars == <<friend, request, asked, broken, stuck>>

Both(a, b) == {<<a, b>>, <<b, a>>}

(* Which writes of an operation took place: any may fail ...                *)
Outcomes == [1..3 -> BOOLEAN]
AllDone == [i \in 1..3 |-> TRUE]
(* ... and a server that stops does none of those that follow               *)
Prefixes == {done \in Outcomes :
               \A i \in 1..2 : done[i + 1] => done[i]}

Init == /\ friend = {} /\ request = {}
        /\ asked = {} /\ broken = {} /\ stuck = {}

-----------------------------------------------------------------------------
(* MUTANT *)
AcceptedOneWay(done, user, other) == IF done[2] THEN {<<user, other>>} ELSE {}

(* accept_locked's INSERTs, of which the second follows only the first      *)
Accepted(done, user, other) ==
  (IF done[2] THEN {<<user, other>>} ELSE {})
    \cup (IF done[2] /\ done[3] THEN {<<other, user>>} ELSE {})

SaysFriends(done) == done[2] /\ done[3]

AcceptLocked(user, other, done) ==
  /\ request' = IF done[1] THEN request \ Both(user, other) ELSE request
  /\ friend' = friend \cup Accepted(done, user, other)
  /\ asked' = asked \cup {<<user, other>>}
  /\ broken' = IF SaysFriends(done) THEN broken \ {{user, other}}
               ELSE IF done[2] THEN broken \cup {{user, other}} ELSE broken
  /\ stuck' = IF done[1] THEN stuck ELSE stuck \cup {{user, other}}

Insert(from, to, done) ==
  /\ request' = IF done[1] THEN request \cup {<<from, to>>} ELSE request
  /\ asked' = asked \cup {<<from, to>>}
  /\ UNCHANGED <<friend, broken, stuck>>

(* MUTANT *)
RequestUnseen(from, to, done) == from # to /\ Insert(from, to, done)

(* request: one that crosses the other's is an accept                       *)
Request(from, to, done) ==
  /\ from # to
  /\ IF <<to, from>> \in request THEN AcceptLocked(from, to, done)
     ELSE Insert(from, to, done)

(* MUTANT *)
AcceptAnything(user, from, done) == user # from /\ AcceptLocked(user, from, done)

(* accept: without a request it is refused and changes nothing              *)
Accept(user, from, done) == /\ <<from, user>> \in request
                            /\ AcceptLocked(user, from, done)

(* remove answers "removed" even when its DELETEs failed; told is FALSE if  *)
(* the server stopped before it answered                                    *)
Remove(user, other, done, told) ==
  /\ user # other
  /\ friend' = IF done[1] THEN friend \ Both(user, other) ELSE friend
  /\ request' = IF done[2] THEN request \ Both(user, other) ELSE request
  /\ asked' = IF told THEN asked \ Both(user, other) ELSE asked
  /\ broken' = IF done[1] THEN broken \ {{user, other}} ELSE broken
  /\ stuck' = IF done[1] /\ done[2] THEN stuck \ {{user, other}}
              ELSE IF told THEN stuck \cup {{user, other}} ELSE stuck

(* The server stops in the middle of an operation                           *)
BreakOff(user, other) ==
  \E done \in Prefixes : \/ Request(user, other, done)
                         \/ Accept(user, other, done)
                         \/ Remove(user, other, done, FALSE)

Next == \E user, other \in Users :
          \/ \E done \in Outcomes : \/ Request(user, other, done)
                                    \/ Accept(user, other, done)
                                    \/ Remove(user, other, done, TRUE)
          \/ BreakOff(user, other)

Spec == Init /\ [][Next]_vars

-----------------------------------------------------------------------------
(* Rows relate two different users, and histories name pairs of them.       *)
TypeOK == /\ \A t \in {friend, request, asked} :
               t \subseteq {r \in Users \X Users : r[1] # r[2]}
          /\ \A h \in {broken, stuck} : h \subseteq SUBSET Users

(* Nobody has a friend without both of them having asked for it since one   *)
(* of them last had the other removed; whatever crossed, failed or broke    *)
(* off, unless the server ignored that a removal or a clean-up failed.      *)
FriendsAgreed ==
  \A a, b \in Users :
    <<a, b>> \in friend /\ {a, b} \notin stuck => Both(a, b) \subseteq asked

(* One of two users has the other as a friend and not the other way round   *)
(* only while their last accept broke off between its INSERTs.              *)
OneSidedOnlyAfterBreak ==
  \A a, b \in Users :
    <<a, b>> \in friend => <<b, a>> \in friend \/ {a, b} \in broken

(* Two users who request each other become friends: they are never left     *)
(* with a request of each waiting for the other.                            *)
NoCrossedRequests ==
  \A a, b \in Users : ~(Both(a, b) \subseteq request)
=============================================================================
