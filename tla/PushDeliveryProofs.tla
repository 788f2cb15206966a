------------------------- MODULE PushDeliveryProofs -------------------------
(***************************************************************************)
(* Proofs about PushDelivery, for any number of connections, users,         *)
(* messages and recipients.                                                 *)
(*                                                                         *)
(* The inductive invariant IInv says what a thread holds wherever it is:    *)
(* the recipients mutex from its lookup to the end of its push, so that its *)
(* target stays the recipient's connection; one writer while it writes; and *)
(* the id of its message, that no other thread and no inbox has.            *)
(***************************************************************************)
EXTENDS PushDelivery, FiniteSetTheorems, SequenceTheorems, TLAPS

Delivering(c) == pc[c] \in {"locking", "found", "pushing"}
Looked(c) == pc[c] \in {"found", "pushing"}
Writes(c, d) == \/ pc[c] = "pushing" /\ target[c] = d
                \/ pc[c] = "replying" /\ c = d

Targets ==
  \A c \in Connections :
    /\ Delivering(c) => todo[c] # <<>>
    /\ Looked(c) => target[c] \in Connections /\ recipients[Head(todo[c])] = target[c]

Locks ==
  /\ \A c \in Connections : router = c <=> Looked(c)
  /\ \A c, d \in Connections : writer[d] = c <=> Writes(c, d)

(* A frame that is begun is being written, or broke off                     *)
Frames ==
  \A c, d \in Connections :
    c \in partial[d] => \/ writer[d] = c
                        \/ d \in torn
                        \/ pc[d] \in {"ending", "closed"}

Delivered(id) == \E d \in Connections : \E i \in DOMAIN inbox[d] : inbox[d][i] = id

Messages ==
  /\ \A c \in Connections :
       Delivering(c) => msg[c] \in 1..next_id - 1 /\ ~Delivered(msg[c])
  /\ \A c, d \in Connections :
       Delivering(c) /\ Delivering(d) /\ msg[c] = msg[d] => c = d
  /\ \A id \in Nat : Delivered(id) => id < next_id

Registered ==
  /\ \A c \in Connections : c \in open <=> pc[c] # "closed"
  /\ LatestSignInReachable

IInv == TypeOK /\ Targets /\ Locks /\ Frames /\ Messages /\ Registered

-----------------------------------------------------------------------------
(* What remains of a list of recipients is a list of recipients.            *)
LEMMA ListOfRecipients ==
  ASSUME NEW users \in RecipientLists, users # <<>>
  PROVE  Head(users) \in Users /\ Tail(users) \in RecipientLists
<1>1. PICK n \in 0..MaxRecipients : users \in [1..n -> Users]
  BY DEF RecipientLists
<1>2. n \in Nat /\ users \in Seq(Users) /\ Len(users) = n
  BY <1>1, BoundsAssumption
<1>3. n # 0
  BY <1>1, <1>2
<1>4. Head(users) \in Users /\ Tail(users) \in Seq(Users) /\ Len(Tail(users)) = n - 1
  BY <1>2, <1>3
<1>5. Tail(users) \in [1..n - 1 -> Users]
  BY <1>4, LenProperties
<1> QED BY <1>1, <1>3, <1>4, <1>5, BoundsAssumption DEF RecipientLists

(* The empty recipients and inboxes hold what they should.                  *)
LEMMA InitHolds == Init => IInv
<1> SUFFICES ASSUME Init PROVE IInv
  OBVIOUS
<1>1. None \notin Connections /\ None \notin Users
  BY RouterAssumed DEF R!RouterAssumption
<1>2. R!TypeOK
  BY BoundsAssumption DEF Init, R!Init, R!TypeOK
<1>3. <<>> \in RecipientLists
  <2>1. <<>> \in [1..0 -> Users]
    OBVIOUS
  <2> QED BY <2>1, BoundsAssumption DEF RecipientLists
<1>4. TypeOK
  BY <1>2, <1>3, BoundsAssumption DEF Init, TypeOK, PCs
<1>5. Targets /\ Locks /\ Frames
  BY <1>1 DEF Init, Targets, Locks, Frames, Delivering, Looked, Writes
<1>6. Messages
  BY DEF Init, R!Init, Messages, Delivering, Delivered
<1>7. Registered
  BY <1>1 DEF Init, R!Init, Registered, LatestSignInReachable, R!LatestSignInReachable
<1> QED BY <1>4, <1>5, <1>6, <1>7 DEF IInv

-----------------------------------------------------------------------------
(* Requests are taken up with no lock held.                                 *)
LEMMA RequestHolds ==
  ASSUME IInv, NEW c \in Connections,
         Request(c) \/ \E users \in RecipientLists : SendMessage(c, users)
  PROVE  IInv'
<1>1. /\ UNCHANGED <<routerVars, msg, target, router, writer, partial, torn, peer>>
      /\ pc[c] = "idle" /\ pc' \in {[pc EXCEPT ![c] = "reply"], [pc EXCEPT ![c] = "deliver"]}
      /\ todo' \in [Connections -> RecipientLists] /\ left' \in 0..MaxRequests
      /\ \A d \in Connections \ {c} : todo'[d] = todo[d]
  BY BoundsAssumption DEF Request, SendMessage, TakeUp, Goto, IInv, TypeOK
<1>2. TypeOK'
  BY <1>1 DEF IInv, TypeOK, R!TypeOK, PCs, routerVars
<1>3. Targets' /\ Locks' /\ Frames'
  BY <1>1 DEF IInv, TypeOK, Targets, Locks, Frames, Delivering, Looked, Writes, routerVars
<1>4. Messages'
  BY <1>1 DEF IInv, TypeOK, Messages, Delivering, Delivered, routerVars
<1>5. Registered'
  BY <1>1 DEF IInv, TypeOK, Registered, LatestSignInReachable, R!LatestSignInReachable,
              routerVars
<1> QED BY <1>2, <1>3, <1>4, <1>5 DEF IInv

(* A sign-in moves its user's entry, while nobody has looked it up.         *)
LEMMA SignInHolds ==
  ASSUME IInv, NEW c \in Connections, NEW u \in Users, SignIn(c, u)
  PROVE  IInv'
<1>1. /\ UNCHANGED <<open, next_id, inbox, todo, msg, target, router, writer, partial, torn, peer>>
      /\ pc[c] = "idle" /\ pc' = [pc EXCEPT ![c] = "reply"] /\ router = None /\ c \in open
      /\ recipients' = [recipients EXCEPT ![u] = c] /\ latest' = [latest EXCEPT ![u] = c]
      /\ user' = [user EXCEPT ![c] = u] /\ left' \in 0..MaxRequests
  BY BoundsAssumption
  DEF SignIn, R!SignIn, R!Register, TakeUp, Goto, IInv, TypeOK
<1>2. TypeOK'
  BY <1>1 DEF IInv, TypeOK, R!TypeOK, PCs
<1>3. \A d \in Connections : ~Looked(d)
  BY <1>1, RouterAssumed DEF IInv, Locks, R!RouterAssumption
<1>4. Targets' /\ Locks' /\ Frames'
  BY <1>1, <1>3 DEF IInv, TypeOK, Targets, Locks, Frames, Delivering, Looked, Writes
<1>5. Messages'
  BY <1>1 DEF IInv, TypeOK, Messages, Delivering, Delivered
<1>6. Registered'
  BY <1>1
  DEF IInv, TypeOK, R!TypeOK, Registered, LatestSignInReachable, R!LatestSignInReachable
<1> QED BY <1>2, <1>4, <1>5, <1>6 DEF IInv

(* An id that is taken is no thread's and in no inbox yet.                  *)
LEMMA TakeIdHolds ==
  ASSUME IInv, NEW c \in Connections, TakeId(c)
  PROVE  IInv'
<1>1. /\ UNCHANGED <<open, user, recipients, inbox, latest>>
      /\ UNCHANGED <<todo, target, router, writer, partial, torn, peer, left>>
      /\ pc[c] = "deliver" /\ pc' = [pc EXCEPT ![c] = "locking"] /\ todo[c] # <<>>
      /\ next_id \in 1..MaxMessages /\ next_id' = next_id + 1
      /\ msg' = [msg EXCEPT ![c] = next_id]
  BY BoundsAssumption DEF TakeId, R!TakeId, Goto, IInv, TypeOK, R!TypeOK
<1>2. TypeOK'
  BY <1>1, BoundsAssumption DEF IInv, TypeOK, R!TypeOK, PCs
<1>3. Targets' /\ Locks' /\ Frames'
  BY <1>1 DEF IInv, TypeOK, Targets, Locks, Frames, Delivering, Looked, Writes
<1>4. Messages'
  <2>1. \A id : Delivered(id)' <=> Delivered(id)
    BY <1>1 DEF Delivered
  <2>2. ~Delivered(next_id)
    BY <1>1 DEF IInv, Messages
  <2> QED BY <1>1, <2>1, <2>2 DEF IInv, TypeOK, Messages, Delivering
<1>5. Registered'
  BY <1>1 DEF IInv, TypeOK, Registered, LatestSignInReachable, R!LatestSignInReachable
<1> QED BY <1>2, <1>3, <1>4, <1>5 DEF IInv

(* A message whose user is not there is dropped.                            *)
LEMMA DropMessageHolds ==
  ASSUME IInv, NEW c \in Connections, DropMessage(c)
  PROVE  IInv'
<1>1. /\ UNCHANGED <<routerVars, target, router, writer, partial, torn, peer, left>>
      /\ pc[c] = "locking" /\ pc' = [pc EXCEPT ![c] = "deliver"]
      /\ msg' = [msg EXCEPT ![c] = None]
      /\ todo' = [todo EXCEPT ![c] = Tail(@)] /\ Tail(todo[c]) \in RecipientLists
  BY ListOfRecipients DEF DropMessage, Goto, IInv, TypeOK, Targets, Delivering
<1>2. TypeOK'
  BY <1>1 DEF IInv, TypeOK, R!TypeOK, PCs, routerVars
<1>3. Targets' /\ Locks' /\ Frames'
  BY <1>1 DEF IInv, TypeOK, Targets, Locks, Frames, Delivering, Looked, Writes, routerVars
<1>4. Messages'
  BY <1>1 DEF IInv, TypeOK, Messages, Delivering, Delivered, routerVars
<1>5. Registered'
  BY <1>1 DEF IInv, TypeOK, Registered, LatestSignInReachable, R!LatestSignInReachable,
              routerVars
<1> QED BY <1>2, <1>3, <1>4, <1>5 DEF IInv

(* A lookup takes the recipients mutex along.                               *)
LEMMA LookUpHolds ==
  ASSUME IInv, NEW c \in Connections, LookUp(c)
  PROVE  IInv'
<1> DEFINE d == recipients[Head(todo[c])]
<1>1. /\ UNCHANGED <<routerVars, todo, msg, writer, partial, torn, peer, left>>
      /\ pc[c] = "locking" /\ pc' = [pc EXCEPT ![c] = "found"]
      /\ router = None /\ router' = c
      /\ target' = [target EXCEPT ![c] = d]
  BY DEF LookUp, Goto
<1>2. d \in Connections
  BY ListOfRecipients DEF LookUp, IInv, TypeOK, R!TypeOK, Targets, Delivering
<1>3. TypeOK'
  BY <1>1, <1>2 DEF IInv, TypeOK, R!TypeOK, PCs, routerVars
<1>4. \A e \in Connections : ~Looked(e)
  BY <1>1, RouterAssumed DEF IInv, Locks, R!RouterAssumption
<1>5. Targets' /\ Locks' /\ Frames'
  BY <1>1, <1>2, <1>4
  DEF IInv, TypeOK, Targets, Locks, Frames, Delivering, Looked, Writes, routerVars
<1>6. Messages'
  BY <1>1 DEF IInv, TypeOK, Messages, Delivering, Delivered, routerVars
<1>7. Registered'
  BY <1>1 DEF IInv, TypeOK, Registered, LatestSignInReachable, R!LatestSignInReachable,
              routerVars
<1> QED BY <1>3, <1>5, <1>6, <1>7 DEF IInv

(* A push takes the recipient's writer.                                     *)
LEMMA BeginPushHolds ==
  ASSUME IInv, NEW c \in Connections, BeginPush(c)
  PROVE  IInv'
<1>1. /\ UNCHANGED <<routerVars, todo, msg, target, router, torn, peer, left>>
      /\ pc[c] = "found" /\ pc' = [pc EXCEPT ![c] = "pushing"]
      /\ target[c] \in Connections /\ writer[target[c]] = None
      /\ writer' = [writer EXCEPT ![target[c]] = c]
      /\ partial' = [partial EXCEPT ![target[c]] = @ \cup {c}]
  BY DEF BeginPush, Goto, IInv, Targets, Looked
<1>2. TypeOK'
  BY <1>1 DEF IInv, TypeOK, R!TypeOK, PCs, routerVars
<1>3. Targets'
  BY <1>1 DEF IInv, TypeOK, Targets, Delivering, Looked, routerVars
<1>4. Locks' /\ Frames'
  BY <1>1, RouterAssumed
  DEF IInv, TypeOK, Locks, Frames, Looked, Writes, R!RouterAssumption
<1>5. Messages'
  BY <1>1 DEF IInv, TypeOK, Messages, Delivering, Delivered, routerVars
<1>6. Registered'
  BY <1>1 DEF IInv, TypeOK, Registered, LatestSignInReachable, R!LatestSignInReachable,
              routerVars
<1> QED BY <1>2, <1>3, <1>4, <1>5, <1>6 DEF IInv

(* The end of a delivery, whether the frame went out or not: if the thread  *)
(* leaves its frame half written, the stream is torn, and at most one inbox *)
(* gets the message, at its end.                                            *)
LEMMA EndDeliveryHolds ==
  ASSUME IInv, NEW c \in Connections, pc[c] = "pushing", EndDelivery(c),
         UNCHANGED <<open, user, recipients, next_id, latest, peer, left>>,
         \/ /\ torn' = torn
            /\ partial' = [partial EXCEPT ![target[c]] = @ \ {c}]
         \/ /\ torn' = torn \cup {target[c]}
            /\ partial' = partial,
         \/ inbox' = inbox
         \/ inbox' = [inbox EXCEPT ![target[c]] = Append(@, msg[c])]
  PROVE  IInv'
<1> DEFINE d == target[c]
<1>1. /\ router' = None /\ writer' = [writer EXCEPT ![d] = None]
      /\ todo' = [todo EXCEPT ![c] = Tail(@)] /\ msg' = [msg EXCEPT ![c] = None]
      /\ target' = [target EXCEPT ![c] = None] /\ pc' = [pc EXCEPT ![c] = "deliver"]
  BY DEF EndDelivery, Goto
<1>2. /\ d \in Connections /\ router = c /\ writer[d] = c
      /\ Tail(todo[c]) \in RecipientLists
      /\ msg[c] \in 1..MaxMessages /\ msg[c] < next_id /\ ~Delivered(msg[c])
  <2>1. d \in Connections /\ router = c /\ writer[d] = c
    BY DEF IInv, Targets, Locks, Looked, Writes
  <2>2. Tail(todo[c]) \in RecipientLists
    BY ListOfRecipients DEF IInv, TypeOK, Targets, Delivering
  <2>3. msg[c] \in 1..next_id - 1 /\ ~Delivered(msg[c])
    BY DEF IInv, Messages, Delivering
  <2> QED BY <2>1, <2>2, <2>3, BoundsAssumption DEF IInv, TypeOK, R!TypeOK
<1>3. inbox \in [Connections -> Seq(1..MaxMessages)]
  BY DEF IInv, TypeOK, R!TypeOK
<1>4. inbox' \in [Connections -> Seq(1..MaxMessages)]
  <2> DEFINE longer == Append(inbox[d], msg[c])
  <2>1. longer \in Seq(1..MaxMessages)
    BY <1>2, <1>3
  <2>2. inbox' = inbox \/ inbox' = [inbox EXCEPT ![d] = longer]
    OBVIOUS
  <2> HIDE DEF longer
  <2> QED BY <1>3, <2>1, <2>2
<1>5. TypeOK'
  <2>1. partial' \in [Connections -> SUBSET Connections] /\ torn' \subseteq Connections
    BY <1>2 DEF IInv, TypeOK
  <2>2. R!TypeOK'
    BY <1>4 DEF IInv, TypeOK, R!TypeOK
  <2> QED BY <1>1, <1>2, <2>1, <2>2 DEF IInv, TypeOK, PCs
<1>6. \A e \in Connections : e # c => ~Looked(e)
  BY <1>2 DEF IInv, Locks
<1>7. Targets'
  BY <1>1, <1>6 DEF IInv, TypeOK, Targets, Delivering, Looked
<1>8. Locks'
  BY <1>1, <1>2, <1>6, RouterAssumed
  DEF IInv, TypeOK, Locks, Looked, Writes, R!RouterAssumption
<1>9. Frames'
  BY <1>1, <1>2 DEF IInv, TypeOK, Frames
<1>10. ASSUME NEW id, Delivered(id)' PROVE Delivered(id) \/ id = msg[c]
  <2>1. PICK e \in Connections : \E i \in DOMAIN inbox'[e] : inbox'[e][i] = id
    BY <1>10 DEF Delivered
  <2>2. CASE inbox'[e] = inbox[e]
    BY <2>1, <2>2 DEF Delivered
  <2>3. CASE inbox'[e] = Append(inbox[e], msg[c])
    <3>1. PICK i \in DOMAIN inbox'[e] : inbox'[e][i] = id
      BY <2>1
    <3>2. /\ inbox[e] \in Seq(1..MaxMessages) /\ Len(inbox[e]) \in Nat
          /\ i \in 1..Len(inbox[e]) + 1 /\ DOMAIN inbox[e] = 1..Len(inbox[e])
      BY <1>2, <1>3, <2>3, <3>1
    <3>3. (i \in DOMAIN inbox[e] /\ inbox[e][i] = id) \/ id = msg[c]
      BY <1>2, <2>3, <3>1, <3>2
    <3> QED BY <3>3 DEF Delivered
  <2> QED BY <1>3, <2>2, <2>3
<1>11. Messages'
  BY <1>1, <1>2, <1>10 DEF IInv, TypeOK, R!TypeOK, Messages, Delivering
<1>12. Registered'
  BY <1>1 DEF IInv, TypeOK, Registered, LatestSignInReachable, R!LatestSignInReachable
<1> QED BY <1>5, <1>7, <1>8, <1>9, <1>11, <1>12 DEF IInv

(* After the last recipient comes the reply.                                *)
LEMMA AllDeliveredHolds ==
  ASSUME IInv, NEW c \in Connections, AllDelivered(c)
  PROVE  IInv'
<1>1. /\ UNCHANGED <<routerVars, todo, msg, target, router, writer, partial, torn, peer, left>>
      /\ pc[c] = "deliver" /\ pc' = [pc EXCEPT ![c] = "reply"]
  BY DEF AllDelivered, Goto
<1>2. TypeOK'
  BY <1>1 DEF IInv, TypeOK, R!TypeOK, PCs, routerVars
<1>3. Targets' /\ Locks' /\ Frames'
  BY <1>1 DEF IInv, TypeOK, Targets, Locks, Frames, Delivering, Looked, Writes, routerVars
<1>4. Messages'
  BY <1>1 DEF IInv, TypeOK, Messages, Delivering, Delivered, routerVars
<1>5. Registered'
  BY <1>1 DEF IInv, TypeOK, Registered, LatestSignInReachable, R!LatestSignInReachable,
              routerVars
<1> QED BY <1>2, <1>3, <1>4, <1>5 DEF IInv

(* A reply is written under the connection's own writer; the frame of one   *)
(* that fails stays, and so does its thread's way to the end.               *)
LEMMA ReplyHolds ==
  ASSUME IInv, NEW c \in Connections, BeginReply(c) \/ FinishReply(c) \/ FailReply(c)
  PROVE  IInv'
<1>1. /\ UNCHANGED <<routerVars, todo, msg, target, router, torn, peer, left>>
      /\ \/ /\ pc[c] = "reply" /\ pc' = [pc EXCEPT ![c] = "replying"]
            /\ writer[c] = None /\ writer' = [writer EXCEPT ![c] = c]
            /\ partial' = [partial EXCEPT ![c] = @ \cup {c}]
         \/ /\ pc[c] = "replying" /\ pc' = [pc EXCEPT ![c] = "idle"]
            /\ writer' = [writer EXCEPT ![c] = None]
            /\ partial' = [partial EXCEPT ![c] = @ \ {c}]
         \/ /\ pc[c] = "replying" /\ pc' = [pc EXCEPT ![c] = "ending"]
            /\ writer' = [writer EXCEPT ![c] = None]
            /\ partial' = partial
  BY DEF BeginReply, FinishReply, FailReply, Goto
<1>2. TypeOK'
  <2>1. /\ pc' \in [Connections -> PCs]
        /\ writer' \in [Connections -> Connections \cup {None}]
        /\ partial' \in [Connections -> SUBSET Connections]
    BY <1>1 DEF IInv, TypeOK, PCs
  <2> QED BY <1>1, <2>1 DEF IInv, TypeOK, R!TypeOK, routerVars
<1>3. Targets'
  BY <1>1 DEF IInv, TypeOK, Targets, Delivering, Looked, routerVars
<1>4. Locks'
  BY <1>1, RouterAssumed DEF IInv, TypeOK, Locks, Looked, Writes, R!RouterAssumption
<1>5. Frames'
  <2>1. pc[c] = "replying" => writer[c] = c
    BY DEF IInv, Locks, Writes
  <2> QED BY <1>1, <2>1, RouterAssumed DEF IInv, TypeOK, Frames, R!RouterAssumption
<1>6. Messages'
  BY <1>1 DEF IInv, TypeOK, Messages, Delivering, Delivered, routerVars
<1>7. Registered'
  BY <1>1 DEF IInv, TypeOK, Registered, LatestSignInReachable, R!LatestSignInReachable,
              routerVars
<1> QED BY <1>2, <1>3, <1>4, <1>5, <1>6, <1>7 DEF IInv

(* A connection leaves between requests.                                    *)
LEMMA LeaveHolds ==
  ASSUME IInv, NEW c \in Connections, Leave(c)
  PROVE  IInv'
<1>1. /\ UNCHANGED <<routerVars, todo, msg, target, router, writer, partial, torn, peer, left>>
      /\ pc[c] = "idle" /\ pc' = [pc EXCEPT ![c] = "ending"]
  BY DEF Leave, Goto
<1>2. TypeOK'
  BY <1>1 DEF IInv, TypeOK, R!TypeOK, PCs, routerVars
<1>3. Targets' /\ Locks' /\ Frames'
  BY <1>1 DEF IInv, TypeOK, Targets, Locks, Frames, Delivering, Looked, Writes, routerVars
<1>4. Messages'
  BY <1>1 DEF IInv, TypeOK, Messages, Delivering, Delivered, routerVars
<1>5. Registered'
  BY <1>1 DEF IInv, TypeOK, Registered, LatestSignInReachable, R!LatestSignInReachable,
              routerVars
<1> QED BY <1>2, <1>3, <1>4, <1>5 DEF IInv

(* Unregistering removes the connection's entries, when no delivery is      *)
(* between its lookup and its end.                                          *)
LEMMA UnregisterHolds ==
  ASSUME IInv, NEW c \in Connections, Unregister(c)
  PROVE  IInv'
<1>1. /\ UNCHANGED <<user, next_id, inbox, latest, todo, msg, target, router, writer, partial,
                     torn, peer, left>>
      /\ pc[c] = "ending" /\ pc' = [pc EXCEPT ![c] = "closed"] /\ router = None
      /\ c \in open /\ open' = open \ {c}
      /\ recipients' = [u \in Users |->
                           IF recipients[u] = c THEN None ELSE recipients[u]]
  BY DEF Unregister, R!End, R!Unregister, Goto
<1>2. TypeOK'
  BY <1>1 DEF IInv, TypeOK, R!TypeOK, PCs
<1>3. \A e \in Connections : ~Looked(e)
  BY <1>1, RouterAssumed DEF IInv, Locks, R!RouterAssumption
<1>4. Targets' /\ Locks' /\ Frames'
  BY <1>1, <1>3 DEF IInv, TypeOK, Targets, Locks, Frames, Delivering, Looked, Writes
<1>5. Messages'
  BY <1>1 DEF IInv, TypeOK, Messages, Delivering, Delivered
<1>6. Registered'
  <2>1. \A e \in Connections : e \in open' <=> pc'[e] # "closed"
    BY <1>1 DEF IInv, TypeOK, R!TypeOK, Registered
  <2>2. LatestSignInReachable'
    BY <1>1, RouterAssumed
    DEF IInv, TypeOK, R!TypeOK, Registered, LatestSignInReachable,
        R!LatestSignInReachable, R!RouterAssumption
  <2> QED BY <2>1, <2>2 DEF Registered
<1> QED BY <1>2, <1>4, <1>5, <1>6 DEF IInv

(* Whatever the clients do, the server keeps its state.                     *)
LEMMA PeersHold ==
  ASSUME IInv, peer' \in [Connections -> {"reading", "stalled", "gone"}],
         UNCHANGED <<routerVars, threadVars, left>>
  PROVE  IInv'
<1>1. TypeOK'
  BY DEF IInv, TypeOK, R!TypeOK, routerVars, threadVars
<1>2. Targets' /\ Locks' /\ Frames'
  BY DEF IInv, Targets, Locks, Frames, Delivering, Looked, Writes, routerVars, threadVars
<1>3. Messages'
  BY DEF IInv, Messages, Delivering, Delivered, routerVars, threadVars
<1>4. Registered'
  BY DEF IInv, Registered, LatestSignInReachable, R!LatestSignInReachable,
         routerVars, threadVars
<1> QED BY <1>1, <1>2, <1>3, <1>4 DEF IInv

(* IInv is inductive.                                                       *)
LEMMA StepHolds == IInv /\ [Next]_vars => IInv'
<1> SUFFICES ASSUME IInv, [Next]_vars PROVE IInv'
  OBVIOUS
<1>1. CASE UNCHANGED vars
  BY <1>1, PeersHold DEF vars, IInv, TypeOK
<1>2. ASSUME NEW c \in Connections, FinishPush(c) PROVE IInv'
  BY <1>2, EndDeliveryHolds DEF FinishPush
<1>3. ASSUME NEW c \in Connections, FailPush(c) PROVE IInv'
  BY <1>3, EndDeliveryHolds DEF FailPush, routerVars
<1>4. ASSUME NEW c \in Connections, PeerChanges(c) PROVE IInv'
  <2>1. peer' \in [Connections -> {"reading", "stalled", "gone"}]
    BY <1>4 DEF PeerChanges, IInv, TypeOK
  <2> QED BY <1>4, <2>1, PeersHold DEF PeerChanges
<1>5. ASSUME NEW c \in Connections, Step(c) PROVE IInv'
  BY <1>2, <1>3, <1>5, TakeIdHolds, DropMessageHolds, LookUpHolds, BeginPushHolds,
     AllDeliveredHolds, ReplyHolds, UnregisterHolds DEF Step
<1> QED BY <1>1, <1>4, <1>5, RequestHolds, SignInHolds, LeaveHolds DEF Next, AllClosed

(* So it holds in every state that is reached.                              *)
LEMMA Inductive == Spec => []IInv
BY InitHolds, StepHolds, PTL DEF Spec

(* Types hold, so that no user is taken for a connection (TypeOK).          *)
THEOREM DeliveryTypeOK == Spec => []TypeOK
<1>1. IInv => TypeOK
  BY DEF IInv
<1> QED BY <1>1, Inductive, PTL

(* Under the SessionWriter mutex, send_frame and deliver never interleave   *)
(* two frames on a stream no write has broken off on.                       *)
THEOREM StreamsHoldWholeFrames == Spec => []FramesStayWhole
<1>1. IInv => FramesStayWhole
  <2> SUFFICES ASSUME IInv, NEW c \in Connections \ torn,
                      pc[c] \notin {"ending", "closed"}
               PROVE  /\ Cardinality(partial[c]) <= 1
                      /\ partial[c] # {} => writer[c] \in partial[c]
    BY DEF FramesStayWhole
  <2>1. partial[c] \subseteq {writer[c]}
    BY DEF IInv, TypeOK, Frames
  <2>2. CASE partial[c] = {}
    <3>1. Cardinality(partial[c]) = 0
      BY <2>2, FS_EmptySet
    <3> QED BY <2>2, <3>1
  <2>3. CASE partial[c] = {writer[c]}
    <3>1. Cardinality(partial[c]) = 1
      BY <2>3, FS_Singleton
    <3> QED BY <2>3, <3>1
  <2> QED BY <2>1, <2>2, <2>3
<1> QED BY <1>1, Inductive, PTL

(* register and unregister keep the map at each user's newest sign-in,      *)
(* whatever threads the recipients mutex lets in between.                   *)
THEOREM NewestSignInIsReached == Spec => []LatestSignInReachable
<1>1. IInv => LatestSignInReachable
  BY DEF IInv, Registered
<1> QED BY <1>1, Inductive, PTL

(* The router with its locks and blocking writes implements one whose       *)
(* deliveries happen at once (MessageRouter): the end of a push that went   *)
(* out is the delivery, to the connection its user is registered on then.   *)
THEOREM RouterImplemented == Spec => DeliversAtOnce
<1>1. Init => R!Init
  BY DEF Init
<1>2. IInv /\ [Next]_vars => [R!Next]_(R!vars)
  <2> SUFFICES ASSUME IInv, [Next]_vars PROVE R!Next \/ UNCHANGED R!vars
    OBVIOUS
  <2>1. CASE UNCHANGED routerVars
    BY <2>1 DEF routerVars, R!vars
  <2>2. ASSUME NEW c \in Connections, NEW u \in Users, SignIn(c, u) PROVE R!Next
    BY <2>2 DEF SignIn, R!Next
  <2>3. ASSUME NEW c \in Connections, Unregister(c) PROVE R!Next
    BY <2>3 DEF Unregister, R!Next
  <2>4. ASSUME NEW c \in Connections, TakeId(c) PROVE R!Next
    BY <2>4 DEF TakeId, R!Next
  <2>5. ASSUME NEW c \in Connections, FinishPush(c) PROVE R!Next
    <3> DEFINE u == Head(todo[c])
    <3>1. Delivering(c) /\ Looked(c)
      BY <2>5 DEF FinishPush, Delivering, Looked
    <3>2. u \in Users /\ recipients[u] = target[c] /\ target[c] \in Connections
      BY <3>1, ListOfRecipients DEF IInv, TypeOK, Targets
    <3>3. /\ msg[c] \in 1..next_id - 1 /\ ~Delivered(msg[c])
          /\ next_id \in 1..MaxMessages + 1
      BY <3>1 DEF IInv, TypeOK, R!TypeOK, Messages
    <3>4. msg[c] \in 1..MaxMessages /\ msg[c] < next_id
      BY <3>3, BoundsAssumption
    <3>5. R!Push(u, msg[c])
      BY <2>5, <3>2, <3>3, <3>4, RouterAssumed
      DEF FinishPush, Delivered, R!Push, R!RouterAssumption
    <3> QED BY <3>2, <3>4, <3>5 DEF R!Next
  <2> QED BY <2>1, <2>2, <2>3, <2>4, <2>5
          DEF Next, Step, vars, Request, SendMessage, DropMessage, LookUp, BeginPush,
              FailPush, AllDelivered, BeginReply, FinishReply, FailReply, Leave,
              PeerChanges, AllClosed
<1> QED BY <1>1, <1>2, Inductive, PTL DEF Spec, DeliversAtOnce, R!Spec
=============================================================================
