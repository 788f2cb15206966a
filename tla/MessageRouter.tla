---------------------------- MODULE MessageRouter ----------------------------
(***************************************************************************)
(* MessageRouter of libbitdemon (lobby/messaging/router.rs) as its callers  *)
(* may think of it: a map from users to the connection each last signed in  *)
(* on, and deliveries that happen at once.  Sign-ins are those LsgHandler   *)
(* accepts; it registers the session in the same step, on the session's     *)
(* own thread.  A connection may sign in again, also as somebody else.      *)
(* PushDelivery refines this module with the locks and the writes.          *)
(***************************************************************************)
EXTENDS Naturals, Sequences, FiniteSets

CONSTANTS
  Connections,  \* SessionId; a connection that ended never comes back
  Users,
  MaxMessages,  \* bound: messages sent
  None

(* Assumed by the modules that instantiate this one                         *)
RouterAssumption == /\ MaxMessages \in Nat
                    /\ None \notin Connections
                    /\ None \notin Users

VARIABLES
  open,        \* connections not yet unregistered
  user,        \* connection -> the user of its SessionAuthentication, or None
  recipients,  \* user -> connection, or None
  next_id,     \* the id the next message gets
  inbox,       \* connection -> message ids pushed to it, in order
  latest       \* history: user -> the connection it last signed in on

vars == <<open, user, recipients, next_id, inbox, latest>>

Init == /\ open = Connections
        /\ user = [c \in Connections |-> None]
        /\ recipients = [u \in Users |-> None]
        /\ next_id = 1
        /\ inbox = [c \in Connections |-> <<>>]
        /\ latest = [u \in Users |-> None]

(* MUTANT *)
RegisterFirstOnly(c, u) ==
  recipients' = [recipients EXCEPT ![u] = IF @ = None THEN c ELSE @]

(* register: the newest sign-in takes the user's messages                   *)
Register(c, u) == recipients' = [recipients EXCEPT ![u] = c]

SignIn(c, u) == /\ c \in open
                /\ user' = [user EXCEPT ![c] = u]
                /\ Register(c, u)
                /\ latest' = [latest EXCEPT ![u] = c]
                /\ UNCHANGED <<open, next_id, inbox>>

(* unregister: every entry of this session goes, whoever it signed in as;   *)
(* an entry a newer connection took over stays                              *)
Unregister(c) ==
  recipients' = [u \in Users |->
                   IF recipients[u] = c THEN None ELSE recipients[u]]

End(c) == /\ c \in open
          /\ open' = open \ {c}
          /\ Unregister(c)
          /\ UNCHANGED <<user, next_id, inbox, latest>>

(* deliver: the id is taken first, from an atomic, so ids are not in        *)
(* delivery order; a message is dropped when its user has no connection,    *)
(* and when the connection does not take it                                 *)
TakeId == /\ next_id <= MaxMessages
          /\ next_id' = next_id + 1
          /\ UNCHANGED <<open, user, recipients, inbox, latest>>

Push(u, id) == /\ recipients[u] # None
               /\ id < next_id
               /\ \A c \in Connections :
                    \A i \in DOMAIN inbox[c] : inbox[c][i] # id
               /\ inbox' = [inbox EXCEPT ![recipients[u]] = Append(@, id)]
               /\ UNCHANGED <<open, user, recipients, next_id, latest>>

Next == \/ \E c \in Connections, u \in Users : SignIn(c, u)
        \/ \E c \in Connections : End(c)
        \/ TakeId
        \/ \E u \in Users, id \in 1..MaxMessages : Push(u, id)

Spec == Init /\ [][Next]_vars

-----------------------------------------------------------------------------
(* The map leads from users to sessions, and inboxes hold ids handed out.   *)
TypeOK == /\ open \subseteq Connections
          /\ user \in [Connections -> Users \cup {None}]
          /\ recipients \in [Users -> Connections \cup {None}]
          /\ next_id \in 1..(MaxMessages + 1)
          /\ inbox \in [Connections -> Seq(1..MaxMessages)]
          /\ latest \in [Users -> Connections \cup {None}]

(* A user's messages go to the connection it signed in on last, for as long *)
(* as that connection is there, and to nobody once it is gone: the end of   *)
(* an older connection, or a second sign-in on it, does not take the user   *)
(* off the map ("a reconnect counts once and outlives the old connection"), *)
(* and no entry outlives its connection under any of the names it had.      *)
LatestSignInReachable ==
  \A u \in Users :
    recipients[u] = IF latest[u] \in open THEN latest[u] ELSE None

(* online                                                                   *)
Online == Cardinality({u \in Users : recipients[u] # None})
=============================================================================
