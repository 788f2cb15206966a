----------------------------- MODULE LobbyServer -----------------------------
(***************************************************************************)
(* The lobby server as a whole: connection threads from accept to the end   *)
(* of their unregister callbacks, and the per-connection state of the four  *)
(* services that keep any - groups, matchmaking, message router and rich    *)
(* presence - each the component module of that name.                       *)
(*                                                                         *)
(* bd_socket.rs (listen, the Registered guard), session_manager.rs,         *)
(* lobby/mod.rs (handle_message) and dw-server/src/lobby/mod.rs             *)
(* (configure_lobby_server), which fixes the order of the callbacks.        *)
(*                                                                         *)
(* A thread handles one message at a time; the two halves of set_groups     *)
(* are separate steps, all other handlers one step.  The unregister         *)
(* callbacks of a connection run one after the other under the              *)
(* unregister_cb mutex; other threads' handlers run between them.  Every    *)
(* call is taken to reach its service; LobbyCalls says which do not, as     *)
(* set_groups.                                                              *)
(***************************************************************************)
EXTENDS Naturals, FiniteSets

CONSTANTS
  Connections, Users, None,
  Ids, Keys, Ads,      \* SessionRegistry
  Groups, MaxRepeat,   \* GroupService
  Blobs, Fits,         \* RichPresence
  MaxMessages          \* MessageRouter

VARIABLES
  phase,          \* connection -> how far its thread is
  counter_poisoned,  \* session_id_counter: a thread panicked holding it
  unregister_cb,  \* holder of the unregister_cb mutex, or None
  reset,          \* connections whose peer was gone before they registered
  user,           \* connection -> the user of its SessionAuthentication
  (* SessionRegistry *) sessions, by_host, told,
  (* GroupService *)    session_groups, aggregated_group_counts, pending,
                        wrong, repeated,
  (* MessageRouter *)   recipients, next_id, inbox, latest,
  (* RichPresence *)    rich_presences, switched

registryVars == <<sessions, by_host, told>>
groupVars == <<session_groups, aggregated_group_counts, pending, wrong,
               repeated>>
routerVars == <<recipients, next_id, inbox, latest>>
presenceVars == <<rich_presences, switched>>
threadVars == <<phase, counter_poisoned, unregister_cb, reset>>
vars == <<threadVars, user, registryVars, groupVars, routerVars, presenceVars>>

Phases == {"accepted", "open", "ending", "groups", "matchmaking", "router",
           "presence", "closed", "panicked"}

(* The router and the presences call a connection open until their callback *)
InRouter == {c \in Connections : phase[c] \notin {"presence", "closed"}}
InPresence == {c \in Connections : phase[c] # "closed"}

Registry == INSTANCE SessionRegistry
GroupSvc == INSTANCE GroupService
Router == INSTANCE MessageRouter WITH open <- InRouter
Presences == INSTANCE RichPresence WITH open <- InPresence

ASSUME LobbyAssumption ==
  /\ Registry!NoneAssumption /\ GroupSvc!GroupAssumption
  /\ Router!RouterAssumption /\ Presences!PresenceAssumption

Goto(c, place) == phase' = [phase EXCEPT ![c] = place]

Init == /\ phase = [c \in Connections |-> "accepted"]
        /\ counter_poisoned = FALSE
        /\ unregister_cb = None
        /\ reset = {}
        /\ user = [c \in Connections |-> None]
        /\ Registry!Init /\ GroupSvc!Init /\ Router!Init /\ Presences!Init

-----------------------------------------------------------------------------
(* Accept to registration                                                   *)

(* The client resets the connection while its thread is starting            *)
PeerResets(c) == /\ phase[c] = "accepted"
                 /\ reset' = reset \cup {c}
                 /\ UNCHANGED <<phase, counter_poisoned, unregister_cb, user,
                                registryVars, groupVars, routerVars,
                                presenceVars>>

Register(c) == /\ phase[c] = "accepted"
               /\ ~counter_poisoned
               /\ c \notin reset
               /\ Goto(c, "open")
               /\ UNCHANGED <<counter_poisoned, unregister_cb, reset, user,
                              registryVars, groupVars, routerVars,
                              presenceVars>>

(* register_session unwraps peer_addr while it holds the id counter: its    *)
(* thread dies, and every later one finds the mutex poisoned                *)
RegisterPanics(c) == /\ phase[c] = "accepted"
                     /\ counter_poisoned \/ c \in reset
                     /\ counter_poisoned' = TRUE
                     /\ Goto(c, "panicked")
                     /\ UNCHANGED <<unregister_cb, reset, user, registryVars,
                                    groupVars, routerVars, presenceVars>>

-----------------------------------------------------------------------------
(* Messages                                                                 *)

(* MUTANT *)
ServesAnyone(c) == phase[c] = "open" /\ pending[c] = None

Free(c) == phase[c] = "open" /\ pending[c] = None

(* LobbyServer::handle_message: all services but the lobby service itself   *)
(* answer a connection that has not signed in with AccessDenied             *)
Serves(c) == Free(c) /\ user[c] # None

SignIn(c, u) ==
  /\ Free(c)
  /\ user' = [user EXCEPT ![c] = u]
  /\ switched' = IF user[c] \in {None, u} THEN switched ELSE switched \cup {c}
  /\ Router!Register(c, u)
  /\ latest' = [latest EXCEPT ![u] = c]
  /\ UNCHANGED <<threadVars, registryVars, groupVars, next_id, inbox,
                 rich_presences>>

Matchmaking(c) ==
  /\ Serves(c)
  /\ \/ \E ad \in Ads : Registry!Create(c, ad) \/ Registry!Update(c, ad)
     \/ \E id \in Ids : Registry!Delete(c, id)
  /\ UNCHANGED <<threadVars, user, groupVars, routerVars, presenceVars>>

SetGroups(c) ==
  /\ Serves(c)
  /\ \E list \in GroupSvc!List : GroupSvc!SetGroups(c, list)
  /\ UNCHANGED <<threadVars, user, registryVars, routerVars, presenceVars>>

SetInfo(c) ==
  /\ Serves(c)
  /\ UNCHANGED <<threadVars, registryVars, groupVars, routerVars>>
  /\ \E u \in Users, data \in Blobs : Presences!SetInfo(c, u, data)

(* The second half of set_groups, and of the groups callback                *)
AdjustCounts(c) ==
  /\ GroupSvc!AdjustCounts(c)
  /\ UNCHANGED <<threadVars, user, registryVars, routerVars, presenceVars>>

(* The connection loop returns: end of stream, an error, the idle timeout   *)
Leave(c) == /\ Free(c)
            /\ Goto(c, "ending")
            /\ UNCHANGED <<counter_poisoned, unregister_cb, reset, user,
                           registryVars, groupVars, routerVars, presenceVars>>

-----------------------------------------------------------------------------
(* Registered::drop, unregister_session                                     *)

LockCallbacks(c) ==
  /\ phase[c] = "ending"
  /\ unregister_cb = None
  /\ unregister_cb' = c
  /\ Goto(c, "groups")
  /\ UNCHANGED <<counter_poisoned, reset, user, registryVars, groupVars,
                 routerVars, presenceVars>>

RemoveGroups(c) ==
  /\ phase[c] = "groups"
  /\ \/ GroupSvc!RemoveAllGroups(c)
     \/ session_groups[c] = None /\ UNCHANGED groupVars
  /\ Goto(c, "matchmaking")
  /\ UNCHANGED <<counter_poisoned, unregister_cb, reset, user, registryVars,
                 routerVars, presenceVars>>

(* MUTANT *)
RemoveLobbyLate(c) ==
  /\ phase[c] = "matchmaking"
  /\ pending[c] = None
  /\ Goto(c, "router")
  /\ UNCHANGED <<counter_poisoned, unregister_cb, reset, user, registryVars,
                 groupVars, routerVars, presenceVars>>

RemoveLobby(c) ==
  /\ phase[c] = "matchmaking"
  /\ pending[c] = None
  /\ Registry!RemoveConnection(c)
  /\ Goto(c, "router")
  /\ UNCHANGED <<counter_poisoned, unregister_cb, reset, user, groupVars,
                 routerVars, presenceVars>>

Unregister(c) ==
  /\ phase[c] = "router"
  /\ Router!Unregister(c)
  /\ Goto(c, "presence")
  /\ UNCHANGED <<counter_poisoned, unregister_cb, reset, user, registryVars,
                 groupVars, next_id, inbox, latest, presenceVars>>

(* MUTANT *)
LastCallbackKeepingLock(c) ==
  /\ phase[c] = "presence"
  /\ rich_presences' = Presences!PresencesWithout(c)
  /\ Goto(c, "closed")
  /\ UNCHANGED <<unregister_cb, counter_poisoned, reset, user, registryVars,
                 groupVars, routerVars, switched>>

RemovePresence(c) ==
  /\ phase[c] = "presence"
  /\ rich_presences' = Presences!PresencesWithout(c)
  /\ unregister_cb' = None
  /\ Goto(c, "closed")
  /\ UNCHANGED <<counter_poisoned, reset, user, registryVars, groupVars,
                 routerVars, switched>>

-----------------------------------------------------------------------------
AllOver == /\ \A c \in Connections : phase[c] \in {"closed", "panicked"}
           /\ UNCHANGED vars

(* What a thread does without hearing from its client                       *)
Step(c) == \/ Register(c) \/ RegisterPanics(c)
           \/ AdjustCounts(c)
           \/ LockCallbacks(c) \/ RemoveGroups(c) \/ RemoveLobby(c)
           \/ Unregister(c) \/ RemovePresence(c)

Next == \/ \E c \in Connections :
             \/ Step(c)
             \/ PeerResets(c)
             \/ \E u \in Users : SignIn(c, u)
             \/ Matchmaking(c) \/ SetGroups(c) \/ SetInfo(c)
             \/ Leave(c)
        \/ AllOver

Spec == Init /\ [][Next]_vars /\ \A c \in Connections : WF_vars(Step(c))

-----------------------------------------------------------------------------
(* Thread phases, the two mutexes and the four services' types.             *)
TypeOK == /\ phase \in [Connections -> Phases]
          /\ counter_poisoned \in BOOLEAN
          /\ unregister_cb \in Connections \cup {None}
          /\ reset \subseteq Connections
          /\ Registry!TypeOK /\ GroupSvc!TypeOK /\ Router!TypeOK
          /\ Presences!TypeOK

Holds(c) == \/ sessions[c] # None
            \/ \E id \in Ids : by_host[id] = c
            \/ session_groups[c] # None \/ pending[c] # None
            \/ \E u \in Users : recipients[u] = c
            \/ \E u \in Users : /\ rich_presences[u] # None
                                /\ rich_presences[u].owner = c

(* A connection that ended leaves nothing behind in any service, except the *)
(* presence of a user it was signed in as before it switched to another;    *)
(* one that never signed in leaves nothing at any time; and no presence     *)
(* outlives the connection that is still signed in as its user when its     *)
(* callback runs (see RichPresence), with the other callbacks around it.    *)
OnlySignedInSessionsLeaveTraces ==
  /\ \A c \in Connections :
       /\ phase[c] \in {"accepted", "panicked"} \/ user[c] = None => ~Holds(c)
       /\ phase[c] = "closed" /\ c \notin switched => ~Holds(c)
  /\ Presences!PresenceGoesWithItsOwner

(* Whoever owns a lobby that a search can list can be sent messages too, as *)
(* long as it has not signed in elsewhere since: the matchmaking callback   *)
(* runs before the router's.                                                *)
ListedHostsAreReachable ==
  \A c \in Connections, u \in Users :
    sessions[c] # None /\ latest[u] = c => recipients[u] = c

(* See RichPresence: the callback of a user's old connection, however late, *)
(* leaves the presence its new connection has set.                          *)
PresenceEndsWithItsOwner == Presences!PresenceEndsWithItsOwner

(* See GroupService: the counts hold under the whole life of connections,   *)
(* with callbacks of several connections queued behind one mutex; so a      *)
(* server whose connections are over counts nobody in any group.            *)
CountsNeverOverstate == GroupSvc!CountsNeverOverstate

(* See GroupService: counts are exact between calls while no client repeats *)
(* a group, with the callbacks' halves among the steps in between.          *)
CountsExactWithoutRepeats == GroupSvc!CountsExactWithoutRepeats

(* Every connection that starts to end is unregistered everywhere, whatever *)
(* the others do; and no accepted connection is left without a session or   *)
(* an end.                                                                  *)
EndingsComplete ==
  \A c \in Connections :
    /\ phase[c] = "ending" ~> phase[c] = "closed"
    /\ phase[c] = "accepted" ~> phase[c] # "accepted"
=============================================================================
