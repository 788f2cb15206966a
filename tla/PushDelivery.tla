---------------------------- MODULE PushDelivery ----------------------------
(***************************************************************************)
(* How frames get onto the connections: every connection has a thread, the  *)
(* threads share the router's recipients mutex, and each connection's       *)
(* stream is written under its SessionWriter mutex - by its own thread for   *)
(* replies, by any thread for pushes.  deliver keeps the recipients mutex    *)
(* while it waits for the recipient's writer and while it writes; a write    *)
(* blocks while the peer does not read and fails after WRITE_TIMEOUT.        *)
(*                                                                         *)
(* Source: router.rs (deliver, register, unregister), messaging/handler.rs *)
(* (send_message), bd_session.rs (send_frame), bd_response.rs (send,        *)
(* send_to), bd_socket.rs (the connection loop and its guard).  The lock    *)
(* steps of one thread are separate actions; a critical section that only    *)
(* touches the map is one action, guarded by the mutex being free.           *)
(***************************************************************************)
EXTENDS Naturals, Sequences, FiniteSets

CONSTANTS Connections, Users, MaxMessages, None,
          MaxRecipients,  \* bound: recipients named by one SendMessage
          MaxRequests     \* bound: requests clients make, all together

ASSUME BoundsAssumption ==
  /\ MaxMessages \in Nat
  /\ MaxRecipients \in Nat /\ MaxRequests \in Nat
  /\ MaxRecipients * MaxRequests <= MaxMessages

VARIABLES
  open, user, recipients, next_id, inbox, latest,  \* as in MessageRouter
  pc,       \* connection -> where its thread is
  todo,     \* connection -> recipients its SendMessage has still to serve
  msg,      \* connection -> the id of the message it is delivering, or None
  target,   \* connection -> the connection it is pushing to, or None
  router,   \* holder of the recipients mutex, or None
  writer,   \* connection -> the thread that holds its SessionWriter, or None
  partial,  \* connection -> threads whose frame on it is begun, not finished
  torn,     \* connections a push failed on after part of it was written
  peer,     \* connection -> what its client does: reading, stalled or gone
  left      \* how many of the MaxRequests are still to come

routerVars == <<open, user, recipients, next_id, inbox, latest>>
threadVars == <<pc, todo, msg, target, router, writer, partial, torn>>
vars == <<routerVars, threadVars, peer, left>>

R == INSTANCE MessageRouter

ASSUME RouterAssumed == R!RouterAssumption

PCs == {"idle", "deliver", "locking", "found", "pushing", "reply",
        "replying", "ending", "closed"}

Goto(c, place) == pc' = [pc EXCEPT ![c] = place]

Init == /\ R!Init
        /\ pc = [c \in Connections |-> "idle"]
        /\ todo = [c \in Connections |-> <<>>]
        /\ msg = [c \in Connections |-> None]
        /\ target = [c \in Connections |-> None]
        /\ router = None
        /\ writer = [c \in Connections |-> None]
        /\ partial = [c \in Connections |-> {}]
        /\ torn = {}
        /\ peer = [c \in Connections |-> "reading"]
        /\ left = MaxRequests

-----------------------------------------------------------------------------
(* Requests a connection's thread takes up                                  *)

TakeUp(c) == /\ pc[c] = "idle"
             /\ left > 0
             /\ left' = left - 1

(* Ping and the services modelled elsewhere: only the reply matters here    *)
Request(c) == /\ TakeUp(c)
              /\ Goto(c, "reply")
              /\ UNCHANGED <<routerVars, todo, msg, target, router, writer,
                             partial, torn, peer>>

(* LsgHandler: register before the reply is sent                            *)
SignIn(c, u) == /\ TakeUp(c)
                /\ router = None
                /\ R!SignIn(c, u)
                /\ Goto(c, "reply")
                /\ UNCHANGED <<todo, msg, target, router, writer, partial,
                               torn, peer>>

SendMessage(c, users) ==
  /\ TakeUp(c)
  /\ user[c] # None
  /\ todo' = [todo EXCEPT ![c] = users]
  /\ Goto(c, "deliver")
  /\ UNCHANGED <<routerVars, msg, target, router, writer, partial, torn, peer>>

-----------------------------------------------------------------------------
(* deliver, once for each recipient                                         *)

TakeId(c) == /\ pc[c] = "deliver"
             /\ todo[c] # <<>>
             /\ R!TakeId
             /\ msg' = [msg EXCEPT ![c] = next_id]
             /\ Goto(c, "locking")
             /\ UNCHANGED <<todo, target, router, writer, partial, torn, peer, left>>

DropMessage(c) == /\ pc[c] = "locking"
                  /\ router = None
                  /\ recipients[Head(todo[c])] = None
                  /\ todo' = [todo EXCEPT ![c] = Tail(@)]
                  /\ msg' = [msg EXCEPT ![c] = None]
                  /\ Goto(c, "deliver")
                  /\ UNCHANGED <<routerVars, target, router, writer, partial,
                                 torn, peer, left>>

(* MUTANT *)
LookUpAndUnlock(c) ==
  /\ pc[c] = "locking"
  /\ router = None
  /\ recipients[Head(todo[c])] # None
  /\ target' = [target EXCEPT ![c] = recipients[Head(todo[c])]]
  /\ Goto(c, "found")
  /\ UNCHANGED <<routerVars, todo, msg, router, writer, partial, torn, peer, left>>

(* MUTANT *)
LookUpUser(c) ==
  /\ pc[c] = "locking"
  /\ router = None
  /\ recipients[Head(todo[c])] # None
  /\ router' = c
  /\ target' = [target EXCEPT ![c] = Head(todo[c])]
  /\ Goto(c, "found")
  /\ UNCHANGED <<routerVars, todo, msg, writer, partial, torn, peer, left>>

LookUp(c) == /\ pc[c] = "locking"
             /\ router = None
             /\ recipients[Head(todo[c])] # None
             /\ router' = c
             /\ target' = [target EXCEPT ![c] = recipients[Head(todo[c])]]
             /\ Goto(c, "found")
             /\ UNCHANGED <<routerVars, todo, msg, writer, partial, torn, peer, left>>

(* MUTANT *)
BeginPushUnlocked(c) ==
  /\ pc[c] = "found"
  /\ partial' = [partial EXCEPT ![target[c]] = @ \cup {c}]
  /\ Goto(c, "pushing")
  /\ UNCHANGED <<routerVars, todo, msg, target, router, writer, torn, peer, left>>

BeginPush(c) ==
  /\ pc[c] = "found"
  /\ writer[target[c]] = None
  /\ writer' = [writer EXCEPT ![target[c]] = c]
  /\ partial' = [partial EXCEPT ![target[c]] = @ \cup {c}]
  /\ Goto(c, "pushing")
  /\ UNCHANGED <<routerVars, todo, msg, target, router, torn, peer, left>>

(* Both guards are dropped at the end of the match                          *)
EndDelivery(c) == /\ router' = None
                  /\ writer' = [writer EXCEPT ![target[c]] = None]
                  /\ todo' = [todo EXCEPT ![c] = Tail(@)]
                  /\ msg' = [msg EXCEPT ![c] = None]
                  /\ target' = [target EXCEPT ![c] = None]
                  /\ Goto(c, "deliver")

FinishPush(c) ==
  /\ pc[c] = "pushing"
  /\ peer[target[c]] # "stalled"
  /\ partial' = [partial EXCEPT ![target[c]] = @ \ {c}]
  /\ inbox' = [inbox EXCEPT ![target[c]] = Append(@, msg[c])]
  /\ EndDelivery(c)
  /\ UNCHANGED <<open, user, recipients, next_id, latest, torn, peer, left>>

(* MUTANT *)
FailPushOnReset(c) ==
  /\ pc[c] = "pushing"
  /\ peer[target[c]] = "gone"
  /\ \/ /\ torn' = torn \cup {target[c]}
        /\ UNCHANGED partial
     \/ /\ partial' = [partial EXCEPT ![target[c]] = @ \ {c}]
        /\ UNCHANGED torn
  /\ EndDelivery(c)
  /\ UNCHANGED <<routerVars, peer, left>>

(* The write fails, with some of the frame out or none of it; deliver only  *)
(* warns, and the recipient's connection goes on                            *)
FailPush(c) ==
  /\ pc[c] = "pushing"
  /\ peer[target[c]] # "reading"
  /\ \/ /\ torn' = torn \cup {target[c]}
        /\ UNCHANGED partial
     \/ /\ partial' = [partial EXCEPT ![target[c]] = @ \ {c}]
        /\ UNCHANGED torn
  /\ EndDelivery(c)
  /\ UNCHANGED <<routerVars, peer, left>>

AllDelivered(c) == /\ pc[c] = "deliver"
                   /\ todo[c] = <<>>
                   /\ Goto(c, "reply")
                   /\ UNCHANGED <<routerVars, todo, msg, target, router,
                                  writer, partial, torn, peer, left>>

-----------------------------------------------------------------------------
(* send_frame on the thread's own connection                                *)

BeginReply(c) == /\ pc[c] = "reply"
                 /\ writer[c] = None
                 /\ writer' = [writer EXCEPT ![c] = c]
                 /\ partial' = [partial EXCEPT ![c] = @ \cup {c}]
                 /\ Goto(c, "replying")
                 /\ UNCHANGED <<routerVars, todo, msg, target, router, torn,
                                peer, left>>

FinishReply(c) == /\ pc[c] = "replying"
                  /\ peer[c] # "stalled"
                  /\ writer' = [writer EXCEPT ![c] = None]
                  /\ partial' = [partial EXCEPT ![c] = @ \ {c}]
                  /\ Goto(c, "idle")
                  /\ UNCHANGED <<routerVars, todo, msg, target, router, torn,
                                 peer, left>>

(* The error leaves the connection loop                                     *)
FailReply(c) == /\ pc[c] = "replying"
                /\ peer[c] # "reading"
                /\ writer' = [writer EXCEPT ![c] = None]
                /\ Goto(c, "ending")
                /\ UNCHANGED <<routerVars, todo, msg, target, router, partial,
                               torn, peer, left>>

(* End of stream, a bad message or the idle timeout                         *)
Leave(c) == /\ pc[c] = "idle"
            /\ Goto(c, "ending")
            /\ UNCHANGED <<routerVars, todo, msg, target, router, writer,
                           partial, torn, peer, left>>

(* The guard's Drop: the unregister callbacks, of which the router's is one *)
Unregister(c) == /\ pc[c] = "ending"
                 /\ router = None
                 /\ R!End(c)
                 /\ Goto(c, "closed")
                 /\ UNCHANGED <<todo, msg, target, router, writer, partial,
                                torn, peer, left>>

-----------------------------------------------------------------------------
(* Clients stop reading, read again or disappear                            *)
PeerChanges(c) == /\ pc[c] # "closed"
                  /\ peer[c] # "gone"
                  /\ \E how \in {"reading", "stalled", "gone"} \ {peer[c]} :
                       peer' = [peer EXCEPT ![c] = how]
                  /\ UNCHANGED <<routerVars, threadVars, left>>

AllClosed == /\ \A c \in Connections : pc[c] = "closed"
             /\ UNCHANGED vars

RecipientLists == UNION {[1..n -> Users] : n \in 0..MaxRecipients}

(* What a thread does of itself, once it has taken up a request             *)
Step(c) == \/ TakeId(c) \/ DropMessage(c) \/ LookUp(c)
           \/ BeginPush(c) \/ FinishPush(c) \/ FailPush(c)
           \/ AllDelivered(c)
           \/ BeginReply(c) \/ FinishReply(c) \/ FailReply(c)
           \/ Unregister(c)

Next == \/ \E c \in Connections :
             \/ Step(c)
             \/ Request(c)
             \/ \E u \in Users : SignIn(c, u)
             \/ \E users \in RecipientLists : SendMessage(c, users)
             \/ Leave(c)
             \/ PeerChanges(c)
        \/ AllClosed

(* Threads are scheduled and writes end, by completion or WRITE_TIMEOUT; no *)
(* client has to do anything                                                *)
Fairness == \A c \in Connections : WF_vars(Step(c))

Spec == Init /\ [][Next]_vars /\ Fairness

-----------------------------------------------------------------------------
(* Users and connections, both plain u64 ids in the code, are never taken   *)
(* for each other, and the locks are held by connections' threads.          *)
TypeOK ==
  /\ R!TypeOK
  /\ pc \in [Connections -> PCs]
  /\ todo \in [Connections -> RecipientLists]
  /\ msg \in [Connections -> 1..MaxMessages \cup {None}]
  /\ target \in [Connections -> Connections \cup {None}]
  /\ router \in Connections \cup {None}
  /\ writer \in [Connections -> Connections \cup {None}]
  /\ partial \in [Connections -> SUBSET Connections]
  /\ torn \subseteq Connections
  /\ peer \in [Connections -> {"reading", "stalled", "gone"}]
  /\ left \in 0..MaxRequests

(* A client's stream is a sequence of whole frames: a reply and the pushes  *)
(* of other threads never interleave, except on a connection on which a     *)
(* push already broke off, or whose own thread gave up on a reply.          *)
FramesStayWhole ==
  \A c \in Connections \ torn :
    pc[c] \notin {"ending", "closed"} =>
      /\ Cardinality(partial[c]) <= 1
      /\ partial[c] # {} => writer[c] \in partial[c]

(* With its lookups, locks and blocking writes, the router still delivers   *)
(* as if at once: a push completes on the connection its user is registered *)
(* on at that moment, never on one a newer sign-in replaced or one that     *)
(* unregistered meanwhile.                                                  *)
DeliversAtOnce == R!Spec

(* See MessageRouter: messages go to a user's newest sign-in and to no      *)
(* connection that has unregistered, whatever the threads of its older      *)
(* connections are in the middle of.                                        *)
LatestSignInReachable == R!LatestSignInReachable

(* Every thread gets back to reading requests or ends, whatever the clients *)
(* do: a peer that stops reading holds the recipients mutex, and with it    *)
(* every sign-in, delivery and disconnect, only until its write times out.  *)
ThreadsComeBack ==
  \A c \in Connections : pc[c] # "idle" ~> pc[c] \in {"idle", "closed"}
=============================================================================
