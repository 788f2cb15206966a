--------------------------- MODULE SessionRegistry ---------------------------
(***************************************************************************)
(* SessionRegistry of libbitdemon (lobby/matchmaking/session.rs): the      *)
(* lobbies clients advertise.  Two maps are kept in step under one mutex:   *)
(* sessions, by connection, and by_host, by the id the server minted.  Each *)
(* public method holds the mutex from its first to its last line, so each   *)
(* is one action.  A connection name stands for one connection at a time;   *)
(* RemoveConnection ends it and the name may then stand for a later one.    *)
(*                                                                         *)
(* Not in the state: the client's own host and key blobs, which the        *)
(* registry always overwrites, and a delete that is refused, which changes  *)
(* nothing (a stuttering step).                                             *)
(*                                                                         *)
(* Definitions marked MUTANT are plausible bugs; the properties of a run    *)
(* are shown to notice them when they take the place of the definition      *)
(* that follows them (PROJECT.json).                                        *)
(***************************************************************************)
CONSTANTS Connections, Ids, Keys, Ads, None

ASSUME NoneAssumption == /\ None \notin Connections
                         /\ None \notin [host : Ids, key : Keys, ad : Ads]
                         /\ None \notin [host : Ids, key : Keys]

VARIABLES
  sessions,  \* RegistryState.sessions: connection -> its lobby, or None
  by_host,   \* RegistryState.by_host: lobby id -> its connection, or None
  told       \* history: the id and secret the last CreateSession reply gave
             \* the client of a connection, while that lobby is not deleted

vars == <<sessions, by_host, told>>

Identity == [host : Ids, key : Keys]
Lobby == [host : Ids, key : Keys, ad : Ads]
Advertise(ident, ad) == [host |-> ident.host, key |-> ident.key, ad |-> ad]
IdentityOf(lobby) == [host |-> lobby.host, key |-> lobby.key]

-----------------------------------------------------------------------------
(* RegistryState: the two maps as one value, so that the helpers compose    *)

State == [sessions |-> sessions, by_host |-> by_host]

Forget(st, c) ==
  IF st.sessions[c] = None THEN st
  ELSE LET host == st.sessions[c].host
           indexed == st.by_host[host] = c
       IN  [sessions |-> [st.sessions EXCEPT ![c] = None],
            by_host  |-> IF indexed THEN [st.by_host EXCEPT ![host] = None]
                                    ELSE st.by_host]

Remember(st, c, lobby) ==
  [sessions |-> [st.sessions EXCEPT ![c] = lobby],
   by_host  |-> [st.by_host EXCEPT ![lobby.host] = c]]

(* MUTANT *)
MintUnchecked(st) == Identity

(* rand::random until the id is unused; the secret needs no check           *)
Mint(st) == {ident \in Identity : st.by_host[ident.host] = None}

Install(st) == /\ sessions' = st.sessions
               /\ by_host' = st.by_host

-----------------------------------------------------------------------------
Init == /\ sessions = [c \in Connections |-> None]
        /\ by_host = [id \in Ids |-> None]
        /\ told = [c \in Connections |-> None]

(* create: whatever the connection advertised before is replaced; the reply *)
(* carries the minted id and secret                                         *)
Create(c, ad) ==
  LET st == Forget(State, c) IN
  \E ident \in Mint(st) :
    /\ Install(Remember(st, c, Advertise(ident, ad)))
    /\ told' = [told EXCEPT ![c] = ident]

(* update: keeps the id and secret of the lobby the connection has; without *)
(* one it opens a lobby whose id no reply ever carries                      *)
Update(c, ad) ==
  LET st == Forget(State, c)
      idents == IF sessions[c] = None THEN Mint(st)
                ELSE {IdentityOf(sessions[c])}
  IN  \E ident \in idents :
        /\ Install(Remember(st, c, Advertise(ident, ad)))
        /\ UNCHANGED told

(* MUTANT *)
DeleteAnyones(c, id) ==
  /\ by_host[id] # None
  /\ Install(Forget(State, by_host[id]))
  /\ told' = [told EXCEPT ![c] = None]

(* delete: honoured only for the connection the id belongs to               *)
Delete(c, id) ==
  /\ by_host[id] = c
  /\ Install(Forget(State, c))
  /\ told' = [told EXCEPT ![c] = None]

(* remove_connection: the on_session_unregistered callback                  *)
RemoveConnection(c) ==
  /\ Install(Forget(State, c))
  /\ told' = [told EXCEPT ![c] = None]

Next == \E c \in Connections :
          \/ \E ad \in Ads : Create(c, ad)
          \/ \E ad \in Ads : Update(c, ad)
          \/ \E id \in Ids : Delete(c, id)
          \/ RemoveConnection(c)

Spec == Init /\ [][Next]_vars

-----------------------------------------------------------------------------
(* The two maps and the history variable hold values of their types: what   *)
(* RegistryState's field types state of the code.                           *)
TypeOK == /\ sessions \in [Connections -> Lobby \cup {None}]
          /\ by_host \in [Ids -> Connections \cup {None}]
          /\ told \in [Connections -> Identity \cup {None}]

(* Every advertised lobby can be reached by its id ...                      *)
LobbiesAreIndexed ==
  \A c \in Connections : sessions[c] # None => by_host[sessions[c].host] = c

(* ... and every id in the index leads to the lobby that bears it.          *)
IndexHasNoDangling ==
  \A id \in Ids : by_host[id] # None =>
    /\ sessions[by_host[id]] # None
    /\ sessions[by_host[id]].host = id

(* forget, remember and mint keep sessions and by_host exact inverses of    *)
(* each other, whichever order creates, updates, deletes and losses of      *)
(* connections come in: an id neither outlives its lobby nor moves.         *)
IndexInverse == LobbiesAreIndexed /\ IndexHasNoDangling

(* The id and secret a client got from CreateSession are good until it      *)
(* deletes the lobby or its connection ends: no update of its own (update   *)
(* forgets and remembers) and no call of another client changes them.       *)
ToldIdentityHolds ==
  \A c \in Connections : told[c] # None =>
    /\ by_host[told[c].host] = c
    /\ sessions[c] # None
    /\ IdentityOf(sessions[c]) = told[c]

(* The registry implements the directory clients rely on: seen without the  *)
(* index, each of its methods opens, readvertises or closes one lobby, and  *)
(* an id is never given to two lobbies at once.                             *)
Directory == INSTANCE LobbyDirectory WITH lobby <- sessions
ImplementsDirectory == Directory!Spec
=============================================================================
