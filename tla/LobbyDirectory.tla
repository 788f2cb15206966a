--------------------------- MODULE LobbyDirectory ---------------------------
(***************************************************************************)
(* What the matchmaking registry promises its clients, with none of its    *)
(* indexes: every connection owns at most one lobby, no two lobbies share   *)
(* an id, an advertisement replaces the owner's lobby or keeps its id, and  *)
(* only the owner's own calls, or the loss of its connection, close it.     *)
(* SessionRegistry implements this specification.                           *)
(***************************************************************************)
CONSTANTS
  Connections,  \* live connections (SessionId)
  Ids,          \* lobby ids (the 8-byte host blob)
  Keys,         \* lobby secrets (the 16-byte key blob)
  Ads,          \* the advertised part of MatchMakingInfo
  None          \* "no lobby"

VARIABLE lobby  \* lobby[c]: what c advertises, or None

Lobby == [host : Ids, key : Keys, ad : Ads]

Init == lobby = [c \in Connections |-> None]

IdFree(c, id) ==
  \A d \in Connections \ {c} : lobby[d] # None => lobby[d].host # id

Open(c, l) == /\ IdFree(c, l.host)
              /\ lobby' = [lobby EXCEPT ![c] = l]

Readvertise(c, ad) ==
  /\ lobby[c] # None
  /\ lobby' = [lobby EXCEPT ![c] =
                 [host |-> lobby[c].host, key |-> lobby[c].key, ad |-> ad]]

Close(c) == /\ lobby[c] # None
            /\ lobby' = [lobby EXCEPT ![c] = None]

Next == \E c \in Connections :
          \/ \E l \in Lobby : Open(c, l)
          \/ \E ad \in Ads : Readvertise(c, ad)
          \/ Close(c)

Spec == Init /\ [][Next]_lobby
=============================================================================
