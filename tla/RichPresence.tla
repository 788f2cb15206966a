---------------------------- MODULE RichPresence ----------------------------
(***************************************************************************)
(* DwRichPresenceService (dw-server/src/lobby/rich_presence/service.rs):    *)
(* one presence per user, stored with the session that set it, so that the  *)
(* end of an old connection does not take a presence a newer one has set.   *)
(* The disconnect callback looks only under the user the session is signed  *)
(* in as when it ends.  A blob over MAX_RICH_PRESENCE_SIZE, or one for       *)
(* another user, is refused and changes nothing.                            *)
(***************************************************************************)
CONSTANTS Connections, Users, None,
          Blobs,  \* presence data a client may send
          Fits    \* the blobs of at most MAX_RICH_PRESENCE_SIZE bytes

(* Assumed by LobbyServer, which instantiates this module                   *)
PresenceAssumption == /\ Fits \subseteq Blobs
                      /\ None \notin [owner : Connections, data : Blobs]
                      /\ None \notin Users

VARIABLES
  open,            \* connections whose callback has not run
  user,            \* connection -> the user it is signed in as, or None
  rich_presences,  \* user -> [owner, data], or None
  switched         \* history: connections that changed user while signed in

vars == <<open, user, rich_presences, switched>>

Presence == [owner : Connections, data : Fits]

Init == /\ open = Connections
        /\ user = [c \in Connections |-> None]
        /\ rich_presences = [u \in Users |-> None]
        /\ switched = {}

(* set_authentication: nothing stops a second sign-in, nor as another user  *)
SignIn(c, u) == /\ c \in open
                /\ switched' = IF user[c] \in {None, u} THEN switched
                               ELSE switched \cup {c}
                /\ user' = [user EXCEPT ![c] = u]
                /\ UNCHANGED <<open, rich_presences>>

(* set_info                                                                 *)
SetInfo(c, u, data) ==
  /\ c \in open
  /\ user[c] = u
  /\ data \in Fits
  /\ rich_presences' = [rich_presences EXCEPT ![u] = [owner |-> c, data |-> data]]
  /\ UNCHANGED <<open, user, switched>>

(* MUTANT *)
PresencesWithoutUser(c) ==
  [u \in Users |-> IF u = user[c] THEN None ELSE rich_presences[u]]

(* remove_rich_presence_for_disconnect                                      *)
PresencesWithout(c) ==
  [u \in Users |->
     IF /\ u = user[c]
        /\ rich_presences[u] # None
        /\ rich_presences[u].owner = c
     THEN None ELSE rich_presences[u]]

Disconnect(c) == /\ c \in open
                 /\ open' = open \ {c}
                 /\ rich_presences' = PresencesWithout(c)
                 /\ UNCHANGED <<user, switched>>

Next == \E c \in Connections :
          \/ \E u \in Users : SignIn(c, u)
          \/ \E u \in Users, data \in Blobs : SetInfo(c, u, data)
          \/ Disconnect(c)

Spec == Init /\ [][Next]_vars

-----------------------------------------------------------------------------
(* What set_info stores is never over MAX_RICH_PRESENCE_SIZE.               *)
TypeOK == /\ open \subseteq Connections
          /\ user \in [Connections -> Users \cup {None}]
          /\ rich_presences \in [Users -> Presence \cup {None}]
          /\ switched \subseteq Connections

(* A presence that was set is there until its user replaces it or the       *)
(* connection that set it ends: other connections of the same user may      *)
(* come, go and sign in as they like.                                       *)
PresenceEndsWithItsOwner ==
  [][\A u \in Users :
       rich_presences[u] # None /\ rich_presences'[u] = None =>
         LET owner == rich_presences[u].owner
         IN  owner \in open /\ owner \notin open']_vars

(* A presence outlives the connection that set it only if that connection   *)
(* signed in as somebody else after: the callback then looks under the      *)
(* wrong user.  For all other connections nothing is left behind.           *)
PresenceGoesWithItsOwner ==
  \A u \in Users : rich_presences[u] # None =>
    LET owner == rich_presences[u].owner
    IN  /\ owner \in open \cup switched
        /\ owner \notin switched => user[owner] = u
=============================================================================
