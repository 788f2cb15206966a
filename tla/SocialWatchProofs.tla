-------------------------- MODULE SocialWatchProofs --------------------------
(***************************************************************************)
(* What holds of the friend tables and of the polls for all users, handlers *)
(* and bounds, however requests, polls, the sweeper, time and restarts      *)
(* cross.                                                                   *)
(*                                                                         *)
(* Friend tables: the properties are inductive with RequestsAsked: without   *)
(* it, accepting a request could make a friend of somebody who never asked. *)
(*                                                                         *)
(* Waiting: PollsAreFresh adds up how long ago a poller was heard of and    *)
(* how long it may still wait; SleepersAreWoken says that between a bump    *)
(* and its TICK there is a job that is to send it.                          *)
(*                                                                         *)
(* What clients know: p is Noted while a job is on its way to bump its      *)
(* revision, or a friend's going offline has not been told; Settled while   *)
(* it is neither noted nor untold.  Lemma Announced says that a change of   *)
(* what p sees leaves p noted, or untold: every step that leaves p's        *)
(* revision alone and p settled has left alone what p sees.  So a page read *)
(* since its revision was taken is right if that is still the revision      *)
(* (ReadIsRight), and so is the answer made of it (KnownIsRight).           *)
(***************************************************************************)
EXTENDS SocialWatch, TLAPS

-----------------------------------------------------------------------------
(* The friend tables                                                        *)

RequestsAsked ==
  \A a, b \in Users :
    <<a, b>> \in request /\ {a, b} \notin stuck => <<a, b>> \in asked

FriendsInv == TypeOK /\ RequestsAsked /\ FriendsAgreed /\ OneSidedOnlyAfterBreak
          /\ NoCrossedRequests

(* The empty tables satisfy the invariant.                                  *)
LEMMA FriendsInit == Init => FriendsInv
  BY DEF Init, FriendsInv, TypeOK, RequestsAsked, FriendsAgreed,
         OneSidedOnlyAfterBreak, NoCrossedRequests, Both

(* accept_locked keeps it if the other user's request is there, or there is *)
(* at least nothing of the pair that could cross it.                        *)
LEMMA AcceptLockedStep ==
  ASSUME FriendsInv, NEW user \in Users, NEW other \in Users,
         NEW done \in Outcomes,
         user # other, <<other, user>> \in request,
         AcceptLocked(user, other, done)
  PROVE  FriendsInv'
<1> USE DEF AcceptLocked, FriendsInv, Both
<1>1. TypeOK'
  BY DEF TypeOK, Accepted, SaysFriends
<1>2. RequestsAsked'
  BY DEF RequestsAsked
<1>3. FriendsAgreed'
  <2> SUFFICES ASSUME NEW a \in Users, NEW b \in Users,
                      <<a, b>> \in friend', {a, b} \notin stuck'
               PROVE  Both(a, b) \subseteq asked'
    BY DEF FriendsAgreed
  <2>1. CASE <<a, b>> \in friend
    BY <2>1 DEF FriendsAgreed
  <2>2. CASE {a, b} = {user, other}
    <3>1. <<other, user>> \in asked
      BY <2>2 DEF RequestsAsked
    <3> QED  BY <2>2, <3>1
  <2> QED  BY <2>1, <2>2 DEF Accepted
<1>4. OneSidedOnlyAfterBreak'
  BY DEF OneSidedOnlyAfterBreak, Accepted, SaysFriends
<1>5. NoCrossedRequests'
  BY DEF NoCrossedRequests
<1> QED  BY <1>1, <1>2, <1>3, <1>4, <1>5

(* request, whether it is an accept or a new row                            *)
LEMMA RequestStep ==
  ASSUME FriendsInv, NEW user \in Users, NEW other \in Users,
         NEW done \in Outcomes, Request(user, other, done)
  PROVE  FriendsInv'
<1>1. CASE <<other, user>> \in request
  BY <1>1, AcceptLockedStep DEF Request
<1>2. CASE <<other, user>> \notin request
  <2>1. user # other /\ Insert(user, other, done)
    BY <1>2 DEF Request
  <2> USE <1>2, <2>1 DEF Insert, FriendsInv, Both
  <2>2. TypeOK'
    BY DEF TypeOK
  <2>3. RequestsAsked'
    BY DEF RequestsAsked
  <2>4. FriendsAgreed' /\ OneSidedOnlyAfterBreak'
    BY DEF FriendsAgreed, OneSidedOnlyAfterBreak
  <2>5. NoCrossedRequests'
    BY DEF NoCrossedRequests
  <2> QED  BY <2>2, <2>3, <2>4, <2>5
<1> QED  BY <1>1, <1>2

(* remove, told or not, with both DELETEs, one or none                      *)
LEMMA RemoveStep ==
  ASSUME FriendsInv, NEW user \in Users, NEW other \in Users,
         NEW done \in Outcomes, NEW told \in BOOLEAN,
         Remove(user, other, done, told), ~told => done \in Prefixes
  PROVE  FriendsInv'
<1> USE DEF Remove, FriendsInv, Both
<1>1. TypeOK'
  BY DEF TypeOK
<1>2. RequestsAsked'
  BY DEF RequestsAsked
<1>3. FriendsAgreed'
  BY DEF FriendsAgreed, Prefixes
<1>4. OneSidedOnlyAfterBreak'
  BY DEF OneSidedOnlyAfterBreak
<1>5. NoCrossedRequests'
  BY DEF NoCrossedRequests
<1> QED  BY <1>1, <1>2, <1>3, <1>4, <1>5

(* Every step keeps the invariant.                                          *)
LEMMA FriendsStep == FriendsInv /\ [Next]_vars => FriendsInv'
<1> SUFFICES ASSUME FriendsInv, [Next]_vars PROVE FriendsInv'
  OBVIOUS
<1>1. CASE UNCHANGED vars
  BY <1>1 DEF vars, FriendsInv, TypeOK, RequestsAsked, FriendsAgreed,
              OneSidedOnlyAfterBreak, NoCrossedRequests
<1>2. ASSUME NEW user \in Users, NEW other \in Users, NEW done \in Outcomes,
             Accept(user, other, done)
      PROVE  FriendsInv'
  <2>1. user # other
    BY <1>2 DEF Accept, FriendsInv, TypeOK
  <2> QED  BY <1>2, <2>1, AcceptLockedStep DEF Accept
<1>3. ASSUME NEW user \in Users, NEW other \in Users, BreakOff(user, other)
      PROVE  FriendsInv'
  <2>1. PICK done \in Prefixes : \/ Request(user, other, done)
                                 \/ Accept(user, other, done)
                                 \/ Remove(user, other, done, FALSE)
    BY <1>3 DEF BreakOff
  <2>2. done \in Outcomes
    BY <2>1 DEF Prefixes
  <2> QED  BY <2>1, <2>2, <1>2, RequestStep, RemoveStep
<1>4. CASE Next
  BY <1>2, <1>3, <1>4, RequestStep, RemoveStep DEF Next
<1> QED  BY <1>1, <1>4

(* The tables from before the server was started satisfy it too.            *)
LEMMA FriendsWatchInit == WatchInit => FriendsInv
<1> SUFFICES ASSUME WatchInit PROVE FriendsInv
  OBVIOUS
<1>1. CASE Init
  BY <1>1, FriendsInit
<1>2. CASE ~Init
  BY <1>2 DEF WatchInit, FriendsInv, TypeOK, RequestsAsked, FriendsAgreed,
              OneSidedOnlyAfterBreak, NoCrossedRequests, Both
<1> QED  BY <1>1, <1>2

(* To the tables every step of the service is one of friends.rs, or none.   *)
LEMMA StepOfFriends == [WatchNext]_watchVars => [Next]_vars
<1> SUFFICES ASSUME [WatchNext]_watchVars PROVE [Next]_vars
  OBVIOUS
<1> USE DEF friendVars, dbVars
<1>1. ASSUME NEW t \in Threads, Collect(t) \/ Bump(t) \/ Wake(t)
      PROVE  UNCHANGED vars
  BY <1>1 DEF Collect, Bump, Wake
<1>2. ASSUME NEW h \in Handlers, NEW user \in Users, NEW other \in Users,
             Act(h, user, other)
      PROVE  Next
  BY <1>2 DEF Act, Next
<1>3. ASSUME NEW h \in Handlers,
             \/ \E u, v \in Users : Invite(h, u, v)
             \/ \E u \in Users :
                  \/ \E session \in Sessions : LookAtActivity(h, u, session)
                  \/ ClearActivity(h, u) \/ List(h, u) \/ TakeInvites(h, u)
             \/ SetActivity(h)
      PROVE  UNCHANGED vars
  BY <1>3 DEF Invite, LookAtActivity, ClearActivity, List, TakeInvites,
              SetActivity
<1>4. ASSUME NEW p \in Pollers, Poll(p)
      PROVE  UNCHANGED vars
  BY <1>4 DEF Poll, Ask, Subscribe, Check, Hear, TimeOut, HangUp, TouchAgain,
              ReadPage, Read, Answer, pollUnchanged
<1>5. CASE Sweep \/ TellOfGone \/ Tick
  BY <1>5 DEF Sweep, TellOfGone, Tick
<1>6. CASE Restart
  BY <1>6 DEF Restart, Next
<1>7. CASE UNCHANGED watchVars
  BY <1>7 DEF watchVars
<1> QED  BY <1>1, <1>2, <1>3, <1>4, <1>5, <1>6, <1>7 DEF WatchNext, Handle

(* The tables keep the invariant while they are served.                     *)
LEMMA FriendsKept == WatchSpec => []FriendsInv
  BY FriendsWatchInit, StepOfFriends, FriendsStep, PTL DEF WatchSpec

-----------------------------------------------------------------------------
(* Types                                                                    *)

(* A thread that looks to whom it must write has nothing else under way,    *)
(* and a job that still collects watchers has somebody to collect them of.  *)
OneThingAtATime ==
  /\ \A h \in Handlers : draft[h] # None => job[h] = None
  /\ \A t \in Threads :
       job[t] # None /\ job[t].at \in {"friends", "incoming", "outgoing"} =>
         job[t].of \in Users

(* A poll knows a revision once it no longer waits, and one to compare with *)
(* while it does.                                                           *)
PollsKnowRevisions ==
  \A p \in Pollers : poll[p] # None =>
    IF poll[p].at \in {"subscribe", "check", "wait"}
    THEN poll[p].at # "subscribe" => poll[p].since # None
    ELSE poll[p].revision # None

Shape == WatchTypeOK /\ OneThingAtATime /\ PollsKnowRevisions

(* The jobs that are started                                                *)
LEMMA NewJobs ==
  /\ \A u \in Users : /\ Watchers(u) \in Jobs /\ Watchers(u) # None
                      /\ Watchers(u).at = "friends" /\ Watchers(u).of = u
  /\ \A S \in SUBSET Users : /\ BumpJob(S) \in Jobs /\ BumpJob(S) # None
                             /\ BumpJob(S).at = "bump"
                             /\ BumpJob(S).users = S
  BY WatchAssumption DEF WatchAssumption, Watchers, BumpJob, Jobs

LEMMA Started ==
  ASSUME WatchTypeOK, NEW t \in Threads, NEW j \in Jobs \cup {None}, Start(t, j)
  PROVE  /\ job' \in [Threads -> Jobs \cup {None}]
         /\ job'[t] = j
         /\ \A s \in Threads \ {t} : job'[s] = job[s]
  BY DEF WatchTypeOK, Start

LEMMA Moved ==
  ASSUME WatchTypeOK, NEW p \in Pollers, NEW q \in Polls \cup {None}, Move(p, q)
  PROVE  /\ poll' \in [Pollers -> Polls \cup {None}]
         /\ poll'[p] = q
         /\ \A o \in Pollers \ {p} : poll'[o] = poll[o]
  BY DEF WatchTypeOK, Move

(* A revision is a number; a page shows users.                              *)
LEMMA RevisionIsNumber ==
  ASSUME WatchTypeOK, NEW u \in Users
  PROVE  revision(u) \in Nat
<1>1. EPOCH \in Nat
  BY WatchAssumption DEF WatchTypeOK, WatchAssumption, EPOCH
<1> QED  BY <1>1 DEF WatchTypeOK, revision

LEMMA Lists ==
  \A u \in Users : /\ FriendsOf(u) \in SUBSET Users /\ Mutual(u) \in SUBSET Users
                  /\ Incoming(u) \in SUBSET Users
                  /\ Outgoing(u) \in SUBSET Users
  BY DEF FriendsOf, Mutual, Incoming, Outgoing

(* Collecting watchers, bumping and waking                                  *)
LEMMA JobShape ==
  ASSUME Shape, TypeOK', NEW t \in Threads, Collect(t) \/ Bump(t) \/ Wake(t)
  PROVE  Shape'
<1> USE DEF Shape
<1>1. job[t] # None /\ job[t] \in Jobs
  BY DEF Collect, CollectFriends, CollectIncoming, CollectOutgoing, Bump, Wake,
         WatchTypeOK
<1>2. \A h \in Handlers : h = t => draft[h] = None
  BY <1>1 DEF OneThingAtATime, Threads
<1>3. PICK j \in Jobs \cup {None} :
        /\ Start(t, j)
        /\ j # None /\ j.at \in {"friends", "incoming", "outgoing"} =>
             j.of \in Users
  <2>1. ASSUME CollectFriends(t)
        PROVE  \E j \in Jobs \cup {None} :
                 /\ Start(t, j)
                 /\ j # None /\ j.at \in {"friends", "incoming", "outgoing"} =>
                      j.of \in Users
    <3>1. job[t].of \in Users
      BY <1>1, <2>1 DEF CollectFriends, OneThingAtATime
    <3> DEFINE j == [job[t] EXCEPT !.at = "incoming", !.users = FriendsOf(job[t].of)]
    <3>2. j \in Jobs /\ j.of \in Users /\ Start(t, j)
      BY <1>1, <2>1, <3>1, Lists DEF CollectFriends, Jobs
    <3> QED  BY <3>2
  <2>2. ASSUME CollectIncoming(t)
        PROVE  \E j \in Jobs \cup {None} :
                 /\ Start(t, j)
                 /\ j # None /\ j.at \in {"friends", "incoming", "outgoing"} =>
                      j.of \in Users
    <3>1. job[t].of \in Users
      BY <1>1, <2>2 DEF CollectIncoming, OneThingAtATime
    <3> DEFINE j == [job[t] EXCEPT !.at = "outgoing",
                                   !.users = @ \cup Incoming(job[t].of)]
    <3>2. j \in Jobs /\ j.of \in Users /\ Start(t, j)
      BY <1>1, <2>2, <3>1, Lists DEF CollectIncoming, Jobs
    <3> QED  BY <3>2
  <2>3. ASSUME CollectOutgoing(t)
        PROVE  \E j \in Jobs \cup {None} :
                 /\ Start(t, j)
                 /\ j # None /\ j.at \in {"friends", "incoming", "outgoing"} =>
                      j.of \in Users
    <3> DEFINE users == job[t].users \cup Outgoing(job[t].of)
    <3>1. job[t].of \in Users /\ users \in SUBSET Users
      BY <1>1, <2>3, Lists DEF CollectOutgoing, OneThingAtATime, Jobs
    <3>2. Start(t, None) \/ Start(t, BumpJob(users))
      BY <2>3 DEF CollectOutgoing
    <3> QED  BY <3>1, <3>2, NewJobs
  <2>4. ASSUME Bump(t)
        PROVE  \E j \in Jobs \cup {None} :
                 /\ Start(t, j)
                 /\ j # None /\ j.at \in {"friends", "incoming", "outgoing"} =>
                      j.of \in Users
    <3> DEFINE j == [job[t] EXCEPT !.at = "tick"]
    <3>1. j \in Jobs /\ j.at = "tick" /\ Start(t, j)
      BY <1>1, <2>4 DEF Bump, Jobs
    <3> QED  BY <3>1
  <2>5. Wake(t) => Start(t, None)
    BY DEF Wake
  <2> QED  BY <2>1, <2>2, <2>3, <2>4, <2>5 DEF Collect
<1>4. /\ job' \in [Threads -> Jobs \cup {None}] /\ job'[t] \in {j}
      /\ \A s \in Threads \ {t} : job'[s] = job[s]
  BY <1>3, Started
<1>5. /\ UNCHANGED <<activity, invite, handed, seen, clock, draft, gone, poll,
                     known, untold>>
      /\ revisions' \in [Users -> Nat \cup {None}]
      /\ unheard' \subseteq Pollers
  <2>1. UNCHANGED <<activity, invite, handed, seen, clock, draft, gone, poll,
                    known, untold>>
    BY DEF Collect, Bump, Wake, dbVars
  <2>2. revisions' \in [Users -> Nat \cup {None}]
    <3>1. ASSUME Bump(t)
          PROVE  revisions' \in [Users -> Nat \cup {None}]
      <4>1. \A u \in Users : revision(u) + 1 \in Nat
        BY RevisionIsNumber
      <4>2. \A u \in Users : revisions[u] \in Nat \cup {None}
        BY DEF WatchTypeOK
      <4> QED  BY <3>1, <4>1, <4>2 DEF Bump
    <3> QED  BY <3>1 DEF Collect, Wake, bumpVars, WatchTypeOK
  <2>3. unheard' \subseteq Pollers
    BY DEF Collect, Bump, Wake, bumpVars, Subscribed, WatchTypeOK
  <2> QED  BY <2>1, <2>2, <2>3
<1>6. WatchTypeOK'
  BY <1>4, <1>5 DEF WatchTypeOK
<1>7. OneThingAtATime'
  BY <1>2, <1>3, <1>4, <1>5 DEF OneThingAtATime, Threads
<1>8. PollsKnowRevisions'
  BY <1>5 DEF PollsKnowRevisions
<1> QED  BY <1>6, <1>7, <1>8

LEMMA Touched ==
  ASSUME WatchTypeOK, NEW t \in Threads, NEW u \in Users, job[t] = None,
         Touch(t, u)
  PROVE  /\ seen' \in [Users -> 0..ONLINE_FOR \cup {None}]
         /\ seen' = [seen EXCEPT ![u] = 0]
         /\ job' \in [Threads -> Jobs \cup {None}]
         /\ \A s \in Threads \ {t} : job'[s] = job[s]
         /\ job'[t] = IF Online(u) THEN None ELSE Watchers(u)
<1>1. /\ seen' = [seen EXCEPT ![u] = 0]
      /\ seen' \in [Users -> 0..ONLINE_FOR \cup {None}]
  BY WatchAssumption DEF Touch, WatchTypeOK, WatchAssumption
<1>2. CASE Online(u)
  BY <1>1, <1>2 DEF Touch, WatchTypeOK
<1>3. CASE ~Online(u)
  BY <1>1, <1>3, NewJobs, Started DEF Touch
<1> QED  BY <1>2, <1>3

(* What a handler does to its job: it starts one at most, and has none      *)
(* before, nor an activity to write after that.                             *)
LEMMA HandlerJobs ==
  ASSUME Shape, NEW h \in Handlers, Handle(h)
  PROVE  /\ job[h] = None
         /\ job' \in [Threads -> Jobs \cup {None}]
         /\ \A s \in Threads \ {h} : job'[s] = job[s]
         /\ \/ job'[h] = None
            \/ \E u \in Users : job'[h] = Watchers(u)
            \/ \E S \in SUBSET Users : job'[h] = BumpJob(S)
         /\ draft'[h] # None => job'[h] = None
<1> USE DEF Shape
<1>1. h \in Threads
  BY DEF Threads
<1>2. job[h] = None
  BY DEF Handle, Act, Invite, LookAtActivity, ClearActivity, List, TakeInvites,
         SetActivity, TakeUp, TakeUpWrites, Free, OneThingAtATime
<1>3. ASSUME UNCHANGED job
      PROVE  /\ job' \in [Threads -> Jobs \cup {None}] /\ job'[h] = None
             /\ \A s \in Threads \ {h} : job'[s] = job[s]
  BY <1>2, <1>3 DEF WatchTypeOK
<1>4. ASSUME NEW u \in Users, Start(h, Watchers(u))
      PROVE  /\ job' \in [Threads -> Jobs \cup {None}] /\ job'[h] = Watchers(u)
             /\ \A s \in Threads \ {h} : job'[s] = job[s]
  BY <1>1, <1>4, NewJobs, Started
<1>5. ASSUME NEW S \in SUBSET Users, Start(h, BumpJob(S))
      PROVE  /\ job' \in [Threads -> Jobs \cup {None}] /\ job'[h] = BumpJob(S)
             /\ \A s \in Threads \ {h} : job'[s] = job[s]
  BY <1>1, <1>5, NewJobs, Started
<1>6. ASSUME NEW u \in Users, NEW v \in Users, Act(h, u, v)
      PROVE  /\ draft[h] = None /\ UNCHANGED draft
             /\ UNCHANGED job \/ Start(h, BumpJob({u, v}))
  BY <1>6 DEF Act, Tell, TakeUpWrites, Free
<1>7. ASSUME NEW u \in Users, NEW v \in Users, Invite(h, u, v)
      PROVE  draft[h] = None /\ UNCHANGED draft /\ Start(h, BumpJob({v}))
  BY <1>7 DEF Invite, TakeUp, TakeUpWrites, Free
<1>8. ASSUME NEW u \in Users,
             ClearActivity(h, u) \/ List(h, u) \/ TakeInvites(h, u)
      PROVE  /\ draft[h] = None /\ UNCHANGED draft
             /\ UNCHANGED job \/ Start(h, Watchers(u))
  BY <1>8 DEF ClearActivity, List, TakeInvites, TakeUp, TakeUpWrites, Free,
              Touch
<1>9. ASSUME NEW u \in Users, NEW session \in Sessions,
             LookAtActivity(h, u, session)
      PROVE  UNCHANGED job
  BY <1>9 DEF LookAtActivity
<1>10. ASSUME SetActivity(h)
       PROVE  /\ draft'[h] = None
              /\ \/ UNCHANGED job
                 \/ \E u \in Users : Start(h, Watchers(u))
  <2>1. draft[h] \in Drafts
    BY <1>10 DEF SetActivity, WatchTypeOK
  <2> QED  BY <1>10, <2>1 DEF SetActivity, Drafts, WatchTypeOK
<1>11. ASSUME draft'[h] = None
       PROVE  draft'[h] # None => job'[h] = None
  BY <1>11
<1>12. \A u, v \in Users : {u, v} \in SUBSET Users /\ {v} \in SUBSET Users
  OBVIOUS
<1>13. CASE \E u, v \in Users : Act(h, u, v) \/ Invite(h, u, v)
  BY <1>2, <1>3, <1>5, <1>6, <1>7, <1>12, <1>13
<1>14. CASE \E u \in Users : ClearActivity(h, u) \/ List(h, u) \/ TakeInvites(h, u)
  BY <1>2, <1>3, <1>4, <1>8, <1>14
<1>15. CASE \E u \in Users, session \in Sessions : LookAtActivity(h, u, session)
  BY <1>2, <1>3, <1>9, <1>15
<1>16. CASE SetActivity(h)
  BY <1>2, <1>3, <1>4, <1>10, <1>16
<1> QED  BY <1>13, <1>14, <1>15, <1>16 DEF Handle

(* Taking invites leaves none that the client has not got, if it gets them, *)
(* and never adds one.                                                      *)
LEMMA TakeLeaves ==
  ASSUME WatchTypeOK, NEW u \in Users, NEW arrives \in BOOLEAN,
         Take(u, arrives)
  PROVE  /\ invite' \in [Users -> SUBSET Users]
         /\ handed' \in [Users -> SUBSET Users]
         /\ \A p \in Users : Waiting(p)' \subseteq Waiting(p)
         /\ arrives => Waiting(u)' = {}
<1> USE DEF WatchTypeOK, Waiting
<1>1. CASE /\ invite' = [invite EXCEPT ![u] = {}]
           /\ handed' = [handed EXCEPT ![u] = {}]
  BY <1>1
<1>2. CASE UNCHANGED invite /\ handed' = [handed EXCEPT ![u] = invite[u]]
  BY <1>2
<1>3. CASE ~arrives /\ UNCHANGED <<invite, handed>>
  BY <1>3
<1> QED  BY <1>1, <1>2, <1>3 DEF Take

LEMMA HandlerShape ==
  ASSUME Shape, TypeOK', NEW h \in Handlers, Handle(h)
  PROVE  Shape'
<1> USE DEF Shape
<1>1. UNCHANGED <<clock, poll, known, gone, unheard, revisions>>
  BY DEF Handle, Act, Invite, LookAtActivity, ClearActivity, List, TakeInvites,
         SetActivity, TakeUp, TakeUpWrites, bumpVars
<1>2. untold' \subseteq Users
  <2>1. ASSUME NEW u \in Users, NEW v \in Users, Act(h, u, v)
        PROVE  untold' \subseteq Users
    BY <2>1 DEF Act, Tell, WatchTypeOK
  <2>2. ASSUME SetActivity(h)
        PROVE  untold' \subseteq Users
    <3>1. draft[h] \in Drafts
      BY <2>2 DEF SetActivity, WatchTypeOK
    <3> QED  BY <2>2, <3>1 DEF SetActivity, NoteCrossing, Drafts, WatchTypeOK
  <2>3. ASSUME NEW u \in Users, ClearActivity(h, u)
        PROVE  untold' \subseteq Users
    BY <2>3 DEF ClearActivity, NoteCrossing, WatchTypeOK
  <2>4. ASSUME \/ \E u, v \in Users : Invite(h, u, v)
               \/ \E u \in Users : List(h, u) \/ TakeInvites(h, u)
               \/ \E u \in Users, session \in Sessions :
                    LookAtActivity(h, u, session)
        PROVE  untold' \subseteq Users
    BY <2>4 DEF Invite, List, TakeInvites, LookAtActivity, WatchTypeOK
  <2> QED  BY <2>1, <2>2, <2>3, <2>4 DEF Handle
<1>3. /\ draft' \in [Handlers -> Drafts \cup {None}]
      /\ \A i \in Handlers \ {h} : draft'[i] = draft[i]
  <2>1. ASSUME NEW u \in Users, NEW session \in Sessions,
               LookAtActivity(h, u, session)
        PROVE  /\ draft' \in [Handlers -> Drafts \cup {None}]
               /\ \A i \in Handlers \ {h} : draft'[i] = draft[i]
    <3>1. [user |-> u, session |-> session, changed |-> activity[u] # session]
            \in Drafts
      BY DEF Drafts
    <3> QED  BY <2>1, <3>1 DEF LookAtActivity, WatchTypeOK
  <2>2. SetActivity(h) => /\ draft' \in [Handlers -> Drafts \cup {None}]
                          /\ \A i \in Handlers \ {h} : draft'[i] = draft[i]
    BY DEF SetActivity, WatchTypeOK
  <2>3. ASSUME \/ \E u, v \in Users : Act(h, u, v) \/ Invite(h, u, v)
               \/ \E u \in Users : \/ ClearActivity(h, u) \/ List(h, u)
                                   \/ TakeInvites(h, u)
        PROVE  /\ draft' \in [Handlers -> Drafts \cup {None}]
               /\ \A i \in Handlers \ {h} : draft'[i] = draft[i]
    BY <2>3 DEF Act, Invite, ClearActivity, List, TakeInvites, WatchTypeOK
  <2> QED  BY <2>1, <2>2, <2>3 DEF Handle
<1>4. activity' \in [Users -> Sessions \cup {None}]
  <2>1. ASSUME SetActivity(h)
        PROVE  activity' \in [Users -> Sessions \cup {None}]
    <3>1. draft[h] \in Drafts
      BY <2>1 DEF SetActivity, WatchTypeOK
    <3> QED  BY <2>1, <3>1 DEF SetActivity, Drafts, WatchTypeOK
  <2>2. ASSUME NEW u \in Users, ClearActivity(h, u)
        PROVE  activity' \in [Users -> Sessions \cup {None}]
    BY <2>2 DEF ClearActivity, WatchTypeOK
  <2>3. ASSUME \/ \E u, v \in Users : Act(h, u, v) \/ Invite(h, u, v)
               \/ \E u \in Users : List(h, u) \/ TakeInvites(h, u)
               \/ \E u \in Users, session \in Sessions :
                    LookAtActivity(h, u, session)
        PROVE  activity' \in [Users -> Sessions \cup {None}]
    BY <2>3 DEF Act, Invite, List, TakeInvites, LookAtActivity, dbVars,
                WatchTypeOK
  <2> QED  BY <2>1, <2>2, <2>3 DEF Handle
<1>5. /\ invite' \in [Users -> SUBSET Users]
      /\ handed' \in [Users -> SUBSET Users]
  <2>1. ASSUME NEW u \in Users, NEW v \in Users, Invite(h, u, v)
        PROVE  /\ invite' \in [Users -> SUBSET Users]
               /\ handed' \in [Users -> SUBSET Users]
    BY <2>1 DEF Invite, WatchTypeOK
  <2>2. ASSUME NEW u \in Users, TakeInvites(h, u)
        PROVE  /\ invite' \in [Users -> SUBSET Users]
               /\ handed' \in [Users -> SUBSET Users]
    BY <2>2, TakeLeaves DEF TakeInvites
  <2>3. ASSUME \/ \E u, v \in Users : Act(h, u, v)
               \/ \E u \in Users : ClearActivity(h, u) \/ List(h, u)
               \/ \E u \in Users, session \in Sessions :
                    LookAtActivity(h, u, session)
               \/ SetActivity(h)
        PROVE  UNCHANGED <<invite, handed>>
    BY <2>3 DEF Act, ClearActivity, List, LookAtActivity, SetActivity, dbVars
  <2> QED  BY <2>1, <2>2, <2>3 DEF Handle, WatchTypeOK
<1>6. seen' \in [Users -> 0..ONLINE_FOR \cup {None}]
  <2>1. ASSUME NEW u \in Users, List(h, u)
        PROVE  seen' \in [Users -> 0..ONLINE_FOR \cup {None}]
    BY <2>1, WatchAssumption DEF List, Touch, WatchTypeOK, WatchAssumption
  <2>2. ASSUME \/ \E u, v \in Users : Act(h, u, v) \/ Invite(h, u, v)
               \/ \E u \in Users : ClearActivity(h, u) \/ TakeInvites(h, u)
               \/ \E u \in Users, session \in Sessions :
                    LookAtActivity(h, u, session)
               \/ SetActivity(h)
        PROVE  UNCHANGED seen
    BY <2>2 DEF Act, Invite, ClearActivity, TakeInvites, LookAtActivity,
                SetActivity
  <2> QED  BY <2>1, <2>2 DEF Handle, WatchTypeOK
<1>7. job' \in [Threads -> Jobs \cup {None}]
  BY HandlerJobs
<1>8. WatchTypeOK'
  BY <1>1, <1>2, <1>3, <1>4, <1>5, <1>6, <1>7 DEF WatchTypeOK
<1>9. OneThingAtATime'
  <2>1. \A i \in Handlers : draft'[i] # None => job'[i] = None
    BY <1>3, HandlerJobs DEF OneThingAtATime, Threads
  <2>2. ASSUME NEW t \in Threads, job'[t] # None,
               job'[t].at \in {"friends", "incoming", "outgoing"}
        PROVE  job'[t].of \in Users
    BY <2>2, HandlerJobs, NewJobs DEF OneThingAtATime
  <2> QED  BY <2>1, <2>2 DEF OneThingAtATime
<1>10. PollsKnowRevisions'
  BY <1>1 DEF PollsKnowRevisions
<1> QED  BY <1>8, <1>9, <1>10

(* What a poll does to its job: touching starts one at most.                *)
LEMMA PollShape ==
  ASSUME Shape, TypeOK', NEW p \in Pollers, Poll(p)
  PROVE  Shape'
<1> USE DEF Shape
<1>1. p \in Threads /\ p \in Users /\ p \notin Handlers
  BY WatchAssumption DEF Threads, WatchAssumption
<1>2. /\ UNCHANGED <<activity, revisions, clock, draft, gone, untold>>
      /\ unheard' \subseteq Pollers
  BY DEF Poll, Ask, Subscribe, Check, Hear, TimeOut, HangUp, TouchAgain,
         ReadPage, Read, Answer, Return, pollUnchanged, dbVars, WatchTypeOK
<1>3. /\ invite' \in [Users -> SUBSET Users]
      /\ handed' \in [Users -> SUBSET Users]
      /\ known' \in [Pollers -> Answers \cup {None}]
  <2>1. ASSUME Answer(p)
        PROVE  /\ invite' \in [Users -> SUBSET Users]
               /\ handed' \in [Users -> SUBSET Users]
               /\ known' \in [Pollers -> Answers \cup {None}]
    <3>1. poll[p] \in Polls /\ poll[p].revision # None
      BY <2>1 DEF Answer, At, WatchTypeOK, PollsKnowRevisions
    <3>2. [revision |-> poll[p].revision, page |-> poll[p].page] \in Answers
      BY <3>1 DEF Polls, Answers
    <3>3. /\ known' \in [Pollers -> Answers \cup {None}]
          /\ \E arrives \in BOOLEAN : Take(p, arrives)
      BY <2>1, <3>2 DEF Answer, WatchTypeOK
    <3> QED  BY <1>1, <3>3, TakeLeaves
  <2>2. ASSUME ~Answer(p)
        PROVE  UNCHANGED <<invite, handed, known>>
    BY <2>2 DEF Poll, Ask, Subscribe, Check, Hear, TimeOut, HangUp, TouchAgain,
                ReadPage, Read, pollUnchanged, dbVars
  <2> QED  BY <2>1, <2>2 DEF WatchTypeOK
<1>4. /\ seen' \in [Users -> 0..ONLINE_FOR \cup {None}]
      /\ job' \in [Threads -> Jobs \cup {None}]
      /\ \A t \in Threads \ {p} : job'[t] = job[t]
      /\ job'[p] \in {job[p], Watchers(p)}
  <2>1. ASSUME Ask(p) \/ TouchAgain(p)
        PROVE  /\ seen' \in [Users -> 0..ONLINE_FOR \cup {None}]
               /\ job' \in [Threads -> Jobs \cup {None}]
               /\ \A t \in Threads \ {p} : job'[t] = job[t]
               /\ job'[p] \in {job[p], Watchers(p)}
    <3>1. job[p] = None /\ Touch(p, p)
      BY <2>1 DEF Ask, TouchAgain, At
    <3> QED  BY <1>1, <3>1, Touched
  <2>2. ASSUME ~(Ask(p) \/ TouchAgain(p))
        PROVE  UNCHANGED <<seen, job>>
    BY <2>2 DEF Poll, Subscribe, Check, Hear, TimeOut, HangUp, ReadPage, Read,
                Answer
  <2> QED  BY <2>1, <2>2 DEF WatchTypeOK
<1>5. \E q \in Polls \cup {None} :
        /\ Move(p, q)
        /\ q # None =>
             IF q.at \in {"subscribe", "check", "wait"}
             THEN q.at # "subscribe" => q.since # None
             ELSE q.revision # None
  <2> DEFINE Fine(q) == /\ q \in Polls \cup {None}
                        /\ Move(p, q)
                        /\ q # None =>
                             IF q.at \in {"subscribe", "check", "wait"}
                             THEN q.at # "subscribe" => q.since # None
                             ELSE q.revision # None
  <2> SUFFICES \E q : Fine(q)
    OBVIOUS
  <2>1. None \notin Nat
    BY WatchAssumption DEF WatchAssumption
  <2>2. revision(p) \in Nat
    BY <1>1, RevisionIsNumber
  <2>3. poll[p] # None => poll[p] \in Polls
    BY DEF WatchTypeOK
  <2>4. poll[p] # None /\ poll[p].at \in {"check", "wait"} =>
          poll[p].since # None
    BY DEF PollsKnowRevisions
  <2>5. poll[p] # None /\ poll[p].at \notin {"subscribe", "check", "wait"} =>
          poll[p].revision # None
    BY DEF PollsKnowRevisions
  <2>6. ASSUME Ask(p)
        PROVE  \E q : Fine(q)
    <3> DEFINE q == [at |-> "subscribe", left |-> 0, revision |-> None,
                     since |-> IF known[p] = None THEN None
                               ELSE known[p].revision,
                     page |-> Nothing]
    <3>1. known[p] # None => known[p].revision \in Nat
      BY DEF WatchTypeOK, Answers
    <3>2. q \in Polls
      BY <3>1 DEF Polls, Pages, Nothing
    <3>3. Move(p, q) /\ q.at = "subscribe"
      BY <2>6 DEF Ask
    <3>4. Fine(q)
      BY <3>2, <3>3
    <3> QED  BY <3>4
  <2>7. ASSUME Subscribe(p)
        PROVE  \E q : Fine(q)
    <3>1. poll[p] # None
      BY <2>7 DEF Subscribe, At
    <3>2. CASE poll[p].since = None
      <4> DEFINE q == [poll[p] EXCEPT !.at = "touch", !.revision = revision(p)]
      <4>1. Move(p, q)
        BY <2>7, <3>2 DEF Subscribe
      <4>2. q \in Polls /\ q.at = "touch" /\ q.revision = revision(p)
        BY <2>2, <2>3, <3>1 DEF Polls
      <4>3. Fine(q)
        BY <2>1, <2>2, <4>1, <4>2
      <4> QED  BY <4>3
    <3>3. CASE poll[p].since # None
      <4>1. PICK wait \in Waits :
              Move(p, [poll[p] EXCEPT !.at = "check",
                         !.left = IF wait < MAX_WAIT THEN wait ELSE MAX_WAIT])
        BY <2>7, <3>3 DEF Subscribe
      <4> DEFINE q == [poll[p] EXCEPT !.at = "check",
                         !.left = IF wait < MAX_WAIT THEN wait ELSE MAX_WAIT]
      <4>2. q \in Polls /\ q.at = "check" /\ q.since = poll[p].since
        BY <2>3, <3>1, WatchAssumption DEF Polls, WatchAssumption
      <4>3. Fine(q)
        BY <3>3, <4>1, <4>2
      <4> QED  BY <4>3
    <3> QED  BY <3>2, <3>3
  <2>8. ASSUME Return(p), poll[p] # None
        PROVE  \E q : Fine(q)
    <3> DEFINE q == [poll[p] EXCEPT !.at = "touch", !.left = 0,
                                    !.revision = revision(p)]
    <3>1. q \in Polls /\ q.at = "touch" /\ q.revision = revision(p)
      BY <2>2, <2>3, <2>8 DEF Polls
    <3>2. Fine(q)
      BY <2>1, <2>2, <2>8, <3>1 DEF Return
    <3> QED  BY <3>2
  <2>9. ASSUME Move(p, None)
        PROVE  \E q : Fine(q)
    <3>1. Fine(None)
      BY <2>9
    <3> QED  BY <3>1
  <2>10. ASSUME NEW at \in {"wait", "check"}, Move(p, [poll[p] EXCEPT !.at = at]),
                poll[p] # None, poll[p].at \in {"wait", "check"}
         PROVE  \E q : Fine(q)
    <3> DEFINE q == [poll[p] EXCEPT !.at = at]
    <3>1. q \in Polls /\ q.at = at /\ q.since = poll[p].since
      BY <2>3, <2>10 DEF Polls
    <3>2. Fine(q)
      BY <2>4, <2>10, <3>1
    <3> QED  BY <3>2
  <2>11. ASSUME NEW place \in {"friends", "online", "joinable", "outgoing", "incoming"},
                NEW next \in {"online", "joinable", "outgoing", "incoming", "invites"},
                NEW page \in Pages,
                Read(p, place, next, page)
         PROVE  \E q : Fine(q)
    <3> DEFINE q == [poll[p] EXCEPT !.at = next, !.page = page]
    <3>1. poll[p] # None /\ poll[p].at = place
      BY <2>11 DEF Read, At
    <3>2. q \in Polls /\ q.at = next /\ q.revision = poll[p].revision
      BY <2>3, <3>1 DEF Polls
    <3>3. Fine(q)
      BY <2>5, <2>11, <3>1, <3>2 DEF Read
    <3> QED  BY <3>3
  <2>12. ASSUME ReadPage(p)
         PROVE  \E q : Fine(q)
    <3> DEFINE page == poll[p].page
    <3>1. page \in Pages
      BY <2>3, <2>12 DEF ReadPage, Polls
    <3>2. /\ [page EXCEPT !.friends = FriendsOf(p), !.mutual = Mutual(p)] \in Pages
          /\ [page EXCEPT !.online = {f \in page.mutual : Online(f)}] \in Pages
          /\ [page EXCEPT !.joinable = {f \in page.online : activity[f] # None}]
               \in Pages
          /\ [page EXCEPT !.outgoing = Outgoing(p)] \in Pages
          /\ [page EXCEPT !.incoming = Incoming(p)] \in Pages
      BY <1>1, <3>1, Lists DEF Pages
    <3> QED  BY <2>11, <2>12, <3>2 DEF ReadPage
  <2>13. ASSUME TouchAgain(p)
         PROVE  \E q : Fine(q)
    <3> DEFINE q == [poll[p] EXCEPT !.at = "friends"]
    <3>1. poll[p] # None /\ poll[p].at = "touch"
      BY <2>13 DEF TouchAgain, At
    <3>2. q \in Polls /\ q.at = "friends" /\ q.revision = poll[p].revision
      BY <2>3, <3>1 DEF Polls
    <3>3. Fine(q)
      BY <2>5, <2>13, <3>1, <3>2 DEF TouchAgain
    <3> QED  BY <3>3
  <2>14. ASSUME Check(p) \/ Hear(p) \/ TimeOut(p) \/ HangUp(p) \/ Answer(p)
         PROVE  \E q : Fine(q)
    BY <2>8, <2>9, <2>10, <2>14 DEF Check, Hear, TimeOut, HangUp, Answer, At
  <2> QED  BY <2>6, <2>7, <2>12, <2>13, <2>14 DEF Poll
<1>6. WatchTypeOK'
  BY <1>2, <1>3, <1>4, <1>5, Moved DEF WatchTypeOK
<1>7. OneThingAtATime'
  <2>1. ASSUME NEW t \in Threads, job'[t] # None,
               job'[t].at \in {"friends", "incoming", "outgoing"}
        PROVE  job'[t].of \in Users
    BY <2>1, <1>1, <1>4, NewJobs DEF OneThingAtATime
  <2> QED  BY <1>1, <1>2, <1>4, <2>1 DEF OneThingAtATime, Threads
<1>8. PollsKnowRevisions'
  BY <1>5, Moved DEF PollsKnowRevisions
<1> QED  BY <1>6, <1>7, <1>8

(* The sweeper                                                              *)
LEMMA SweeperShape ==
  ASSUME Shape, TypeOK', Sweep \/ TellOfGone
  PROVE  Shape'
<1> USE DEF Shape
<1>1. "sweeper" \in Threads /\ "sweeper" \notin Handlers
  BY WatchAssumption DEF Threads, WatchAssumption
<1>2. CASE Sweep
  BY <1>2 DEF Sweep, Expired, dbVars, bumpVars, WatchTypeOK, OneThingAtATime,
              PollsKnowRevisions
<1>3. CASE TellOfGone
  <2>1. PICK u \in gone : Start("sweeper", Watchers(u)) /\ gone' = gone \ {u}
    BY <1>3 DEF TellOfGone
  <2>2. u \in Users
    BY DEF WatchTypeOK
  <2>3. /\ job' \in [Threads -> Jobs \cup {None}]
        /\ job'["sweeper"] = Watchers(u)
        /\ \A t \in Threads \ {"sweeper"} : job'[t] = job[t]
    BY <1>1, <2>1, <2>2, NewJobs, Started
  <2>4. WatchTypeOK'
    BY <1>3, <2>1, <2>3 DEF TellOfGone, dbVars, bumpVars, WatchTypeOK
  <2>5. OneThingAtATime'
    <3>1. ASSUME NEW t \in Threads, job'[t] # None,
                 job'[t].at \in {"friends", "incoming", "outgoing"}
          PROVE  job'[t].of \in Users
      BY <2>2, <2>3, <3>1, NewJobs DEF OneThingAtATime
    <3> QED  BY <1>1, <1>3, <2>3, <3>1 DEF TellOfGone, OneThingAtATime, Threads
  <2> QED  BY <1>3, <2>4, <2>5 DEF TellOfGone, PollsKnowRevisions
<1> QED  BY <1>2, <1>3

(* A unit of time                                                           *)
LEMMA TickShape ==
  ASSUME Shape, TypeOK', Tick
  PROVE  Shape'
<1> USE DEF Shape
<1>1. /\ seen' = [u \in Users |-> IF Online(u) THEN seen[u] + 1 ELSE seen[u]]
      /\ poll' = [p \in Pollers |-> IF poll[p] = None THEN None
                                    ELSE [poll[p] EXCEPT !.left = @ - 1]]
      /\ \A p \in Pollers : poll[p] # None =>
           poll[p].at = "wait" /\ poll[p].left > 0
      /\ UNCHANGED <<dbVars, bumpVars, clock, job, draft, gone, known, untold>>
  BY DEF Tick
<1>2. seen' \in [Users -> 0..ONLINE_FOR \cup {None}]
  <2>1. ASSUME NEW u \in Users, Online(u)
        PROVE  seen[u] + 1 \in 0..ONLINE_FOR
    BY <2>1, WatchAssumption DEF Online, WatchTypeOK, WatchAssumption
  <2> QED  BY <1>1, <2>1 DEF WatchTypeOK
<1>3. ASSUME NEW p \in Pollers, poll[p] # None
      PROVE  /\ [poll[p] EXCEPT !.left = @ - 1] \in Polls
             /\ [poll[p] EXCEPT !.left = @ - 1].at = "wait"
             /\ [poll[p] EXCEPT !.left = @ - 1].since = poll[p].since
  BY <1>1, <1>3 DEF WatchTypeOK, Polls
<1>4. poll' \in [Pollers -> Polls \cup {None}]
  BY <1>1, <1>3
<1>5. WatchTypeOK'
  BY <1>1, <1>2, <1>4 DEF WatchTypeOK, dbVars, bumpVars
<1>6. OneThingAtATime'
  BY <1>1 DEF OneThingAtATime
<1>7. PollsKnowRevisions'
  <2> SUFFICES ASSUME NEW p \in Pollers, poll'[p] # None
               PROVE  poll'[p].at = "wait" /\ poll'[p].since # None
    BY DEF PollsKnowRevisions
  <2>1. poll[p] # None /\ poll'[p] = [poll[p] EXCEPT !.left = @ - 1]
    BY <1>1
  <2>2. poll[p].since # None
    BY <1>1, <2>1 DEF PollsKnowRevisions
  <2> QED  BY <1>3, <2>1, <2>2
<1> QED  BY <1>5, <1>6, <1>7

(* A restart forgets all but the tables and what clients know.              *)
LEMMA RestartShape ==
  ASSUME Shape, TypeOK', Restart
  PROVE  Shape'
<1>1. WatchTypeOK'
  BY DEF Restart, Shape, WatchTypeOK
<1>2. OneThingAtATime' /\ PollsKnowRevisions'
  BY DEF Restart, OneThingAtATime, PollsKnowRevisions
<1> QED  BY <1>1, <1>2 DEF Shape

LEMMA ShapeKept == WatchSpec => [](FriendsInv /\ Shape)
<1>1. WatchInit => Shape
  <2>1. WatchInit => TypeOK
    BY FriendsWatchInit DEF FriendsInv
  <2> QED  BY <2>1 DEF WatchInit, Shape, WatchTypeOK, OneThingAtATime,
                       PollsKnowRevisions
<1>2. Shape /\ FriendsInv' /\ [WatchNext]_watchVars => Shape'
  <2> SUFFICES ASSUME Shape, FriendsInv', [WatchNext]_watchVars
               PROVE  Shape'
    OBVIOUS
  <2>1. TypeOK'
    BY DEF FriendsInv
  <2>2. CASE UNCHANGED watchVars
    BY <2>1, <2>2 DEF watchVars, dbVars, Shape, WatchTypeOK, OneThingAtATime,
                      PollsKnowRevisions
  <2> QED  BY <2>1, <2>2, JobShape, HandlerShape, PollShape, SweeperShape,
              TickShape, RestartShape DEF WatchNext
<1> QED  BY <1>1, <1>2, FriendsKept, PTL DEF WatchSpec

-----------------------------------------------------------------------------
(* Waiting                                                                  *)

(* A poll that may yet wait was heard of no longer ago than it has waited.  *)
PollsAreFresh ==
  \A p \in Pollers : poll[p] # None =>
    /\ poll[p].at = "subscribe" => seen[p] = 0
    /\ poll[p].at \in {"check", "wait"} =>
         seen[p] # None /\ seen[p] + poll[p].left <= MAX_WAIT

(* A poll that sleeps over a new revision is about to be woken.             *)
SleepersAreWoken ==
  \A p \in Pollers : poll[p] # None /\ poll[p].at = "wait" =>
    \/ revision(p) = poll[p].since \/ p \in unheard
    \/ \E t \in Threads : job[t] # None /\ job[t].at = "tick"

(* What others do to how long ago a user was heard of                       *)
LEMMA OthersSeen ==
  ASSUME Shape, NEW u \in Users, [WatchNext]_watchVars, ~Tick, ~Restart
  PROVE  seen'[u] \in {seen[u], 0} \/ (seen[u] = ONLINE_FOR /\ Sweep)
<1>1. ASSUME NEW t \in Threads, Collect(t) \/ Bump(t) \/ Wake(t)
      PROVE  UNCHANGED seen
  BY <1>1 DEF Collect, Bump, Wake
<1>2. ASSUME NEW t \in Threads, NEW v \in Users, Touch(t, v)
      PROVE  seen'[u] \in {seen[u], 0}
  BY <1>2 DEF Touch, Shape, WatchTypeOK
<1>3. ASSUME NEW h \in Handlers, Handle(h)
      PROVE  seen'[u] \in {seen[u], 0}
  <2>1. h \in Threads
    BY DEF Threads
  <2>2. UNCHANGED seen \/ \E v \in Users : Touch(h, v)
    BY <1>3 DEF Handle, Act, Invite, LookAtActivity, ClearActivity, List,
                TakeInvites, SetActivity
  <2> QED  BY <1>2, <2>1, <2>2
<1>4. ASSUME NEW p \in Pollers, Poll(p)
      PROVE  seen'[u] \in {seen[u], 0}
  <2>1. p \in Threads /\ p \in Users
    BY WatchAssumption DEF Threads, WatchAssumption
  <2>2. UNCHANGED seen \/ Touch(p, p)
    BY <1>4 DEF Poll, Ask, Subscribe, Check, Hear, TimeOut, HangUp, TouchAgain,
                ReadPage, Read, Answer
  <2> QED  BY <1>2, <2>1, <2>2
<1>5. CASE Sweep
  BY <1>5 DEF Sweep, Expired
<1>6. TellOfGone => UNCHANGED seen
  BY DEF TellOfGone
<1>7. UNCHANGED watchVars => UNCHANGED seen
  BY DEF watchVars
<1> QED  BY <1>1, <1>3, <1>4, <1>5, <1>6, <1>7 DEF WatchNext

(* Only its own steps move a poll, except for time and restarts.            *)
LEMMA OthersPoll ==
  ASSUME Shape, NEW p \in Pollers, [WatchNext]_watchVars, ~Tick, ~Restart
  PROVE  poll'[p] = poll[p] \/ Poll(p)
<1>1. ASSUME NEW o \in Pollers, Poll(o), o # p
      PROVE  poll'[p] = poll[p]
  BY <1>1 DEF Poll, Ask, Subscribe, Check, Hear, TimeOut, HangUp, TouchAgain,
              ReadPage, Read, Answer, Return, Move, Shape, WatchTypeOK
<1>2. ASSUME NEW t \in Threads, Collect(t) \/ Bump(t) \/ Wake(t)
      PROVE  poll' = poll
  BY <1>2 DEF Collect, Bump, Wake
<1>3. ASSUME NEW h \in Handlers, Handle(h)
      PROVE  poll' = poll
  BY <1>3 DEF Handle, Act, Invite, LookAtActivity, ClearActivity, List,
              TakeInvites, SetActivity, TakeUp, TakeUpWrites
<1>4. Sweep \/ TellOfGone \/ UNCHANGED watchVars => poll' = poll
  BY DEF Sweep, TellOfGone, watchVars
<1> QED  BY <1>1, <1>2, <1>3, <1>4 DEF WatchNext

LEMMA FreshStep ==
  ASSUME Shape, PollsAreFresh, [WatchNext]_watchVars
  PROVE  PollsAreFresh'
<1> SUFFICES ASSUME NEW p \in Pollers, poll'[p] # None
             PROVE  /\ poll'[p].at = "subscribe" => seen'[p] = 0
                    /\ poll'[p].at \in {"check", "wait"} =>
                         /\ seen'[p] # None
                         /\ seen'[p] + poll'[p].left <= MAX_WAIT
  BY DEF PollsAreFresh
<1> USE WatchAssumption DEF Shape, WatchAssumption
<1>1. p \in Users /\ seen[p] \in 0..ONLINE_FOR \cup {None} /\ 0 # None
  BY DEF WatchTypeOK
<1>2. poll[p] # None => poll[p] \in Polls /\ poll[p].left \in Nat
  BY DEF WatchTypeOK, Polls
<1>3. CASE Tick
  <2>1. /\ poll[p] # None /\ poll[p].at = "wait" /\ poll[p].left > 0
        /\ poll'[p] = [poll[p] EXCEPT !.left = @ - 1]
        /\ seen'[p] = IF Online(p) THEN seen[p] + 1 ELSE seen[p]
    BY <1>1, <1>3 DEF Tick
  <2>2. seen[p] # None /\ seen[p] + poll[p].left <= MAX_WAIT
    BY <2>1 DEF PollsAreFresh
  <2>3. poll'[p].left = poll[p].left - 1 /\ poll'[p].at = "wait"
    BY <1>2, <2>1 DEF Polls
  <2> QED  BY <1>1, <1>2, <2>1, <2>2, <2>3
<1>4. CASE Restart
  BY <1>4 DEF Restart
<1>5. CASE ~Tick /\ ~Restart /\ poll'[p] = poll[p]
  <2>1. \/ seen'[p] \in {seen[p], 0}
        \/ seen[p] = ONLINE_FOR
    BY <1>1, <1>5, OthersSeen
  <2> QED  BY <1>1, <1>2, <1>5, <2>1 DEF PollsAreFresh
<1>6. CASE Poll(p)
  <2>1. CASE Ask(p)
    <3>1. seen'[p] = 0 /\ poll'[p].at = "subscribe"
      BY <1>1, <2>1 DEF Ask, Touch, Move, WatchTypeOK
    <3> QED  BY <3>1
  <2>2. CASE Subscribe(p)
    <3>1. /\ poll[p] # None /\ poll[p].at = "subscribe"
          /\ seen'[p] = seen[p] /\ seen[p] = 0
      BY <2>2 DEF Subscribe, At, PollsAreFresh
    <3>2. CASE poll[p].since = None
      <4>1. poll'[p] = [poll[p] EXCEPT !.at = "touch", !.revision = revision(p)]
        BY <2>2, <3>2 DEF Subscribe, Move, WatchTypeOK
      <4>2. poll'[p].at = "touch"
        BY <1>2, <3>1, <4>1 DEF Polls
      <4> QED  BY <4>2
    <3>3. CASE poll[p].since # None
      <4>1. PICK wait \in Waits :
              Move(p, [poll[p] EXCEPT !.at = "check",
                         !.left = IF wait < MAX_WAIT THEN wait ELSE MAX_WAIT])
        BY <2>2, <3>3 DEF Subscribe
      <4>2. /\ poll'[p].at = "check"
            /\ poll'[p].left = IF wait < MAX_WAIT THEN wait ELSE MAX_WAIT
        BY <1>2, <3>1, <4>1 DEF Move, WatchTypeOK, Polls
      <4> QED  BY <1>1, <3>1, <4>2
    <3> QED  BY <3>2, <3>3
  <2>3. CASE Check(p) \/ Hear(p) \/ TimeOut(p)
    <3>1. /\ poll[p] # None /\ poll[p].at \in {"check", "wait"}
          /\ seen'[p] = seen[p]
      BY <2>3 DEF Check, Hear, TimeOut, At
    <3>2. \/ poll'[p] = [poll[p] EXCEPT !.at = "touch", !.left = 0,
                                        !.revision = revision(p)]
          \/ \E at \in {"check", "wait"} : poll'[p] = [poll[p] EXCEPT !.at = at]
      BY <2>3 DEF Check, Hear, TimeOut, Return, Move, WatchTypeOK
    <3>3. \/ poll'[p].at = "touch"
          \/ poll'[p].at \in {"check", "wait"} /\ poll'[p].left = poll[p].left
      BY <1>2, <3>1, <3>2 DEF Polls
    <3> QED  BY <3>1, <3>3 DEF PollsAreFresh
  <2>4. CASE HangUp(p) \/ Answer(p)
    BY <2>4 DEF HangUp, Answer, Move, WatchTypeOK
  <2>5. CASE TouchAgain(p) \/ ReadPage(p)
    <3>1. poll[p] # None
      BY <2>5 DEF TouchAgain, ReadPage, At
    <3>2. CASE TouchAgain(p)
      <4>1. poll'[p] = [poll[p] EXCEPT !.at = "friends"]
        BY <3>2 DEF TouchAgain, Move, WatchTypeOK
      <4>2. poll'[p].at = "friends"
        BY <1>2, <3>1, <4>1 DEF Polls
      <4> QED  BY <4>2
    <3>3. CASE ReadPage(p)
      <4>1. PICK next \in {"online", "joinable", "outgoing", "incoming",
                           "invites"} :
              \E place, page : Read(p, place, next, page)
        BY <3>3 DEF ReadPage
      <4>2. PICK page : poll'[p] = [poll[p] EXCEPT !.at = next, !.page = page]
        BY <4>1 DEF Read, Move, WatchTypeOK
      <4>3. poll'[p].at = next
        BY <1>2, <3>1, <4>2 DEF Polls
      <4> QED  BY <4>3
    <3> QED  BY <2>5, <3>2, <3>3
  <2> QED  BY <1>6, <2>1, <2>2, <2>3, <2>4, <2>5 DEF Poll
<1> QED  BY <1>3, <1>4, <1>5, <1>6, OthersPoll

(* A job goes on by its own steps only, and a restart's.                    *)
LEMMA JobsStay ==
  ASSUME Shape, NEW t \in Threads, job[t] # None, [WatchNext]_watchVars,
         ~Restart
  PROVE  job'[t] = job[t] \/ Collect(t) \/ Bump(t) \/ Wake(t)
<1> USE DEF Shape
<1>1. ASSUME NEW s \in Threads, Collect(s) \/ Bump(s) \/ Wake(s), s # t
      PROVE  job'[t] = job[t]
  BY <1>1 DEF Collect, CollectFriends, CollectIncoming, CollectOutgoing, Bump,
              Wake, Start, WatchTypeOK
<1>2. ASSUME NEW h \in Handlers, Handle(h)
      PROVE  job'[t] = job[t]
  BY <1>2, HandlerJobs
<1>3. ASSUME NEW p \in Pollers, Poll(p)
      PROVE  job'[t] = job[t]
  <2>1. \/ UNCHANGED job
        \/ job[p] = None /\ Start(p, Watchers(p))
    BY <1>3 DEF Poll, Ask, Subscribe, Check, Hear, TimeOut, HangUp, TouchAgain,
                ReadPage, Read, Answer, At, Touch
  <2> QED  BY <2>1 DEF Start, WatchTypeOK
<1>4. TellOfGone => job'[t] = job[t]
  BY DEF TellOfGone, Start, WatchTypeOK
<1>5. Sweep \/ Tick \/ UNCHANGED watchVars => job'[t] = job[t]
  BY DEF Sweep, Tick, watchVars
<1> QED  BY <1>1, <1>2, <1>3, <1>4, <1>5 DEF WatchNext

(* A revision changes when a job bumps it, and when the server starts anew. *)
LEMMA RevisionsStay ==
  ASSUME Shape, NEW u \in Users, [WatchNext]_watchVars, ~Restart
  PROVE  \/ revision(u)' = revision(u)
         \/ /\ revision(u)' = revision(u) + 1
            /\ \E t \in Threads : Bump(t) /\ u \in job[t].users
<1>1. ASSUME NEW t \in Threads, Bump(t)
      PROVE  \/ revision(u)' = revision(u)
             \/ revision(u)' = revision(u) + 1 /\ u \in job[t].users
  <2>1. /\ clock' = clock
        /\ revisions'[u] = IF u \in job[t].users THEN revision(u) + 1
                           ELSE revisions[u]
    BY <1>1 DEF Bump
  <2>2. revision(u) + 1 # None
    BY RevisionIsNumber, WatchAssumption DEF Shape, WatchAssumption
  <2> QED  BY <2>1, <2>2 DEF revision, EPOCH
<1>2. ASSUME NEW t \in Threads, Collect(t) \/ Wake(t)
      PROVE  UNCHANGED <<revisions, clock>>
  BY <1>2 DEF Collect, Wake, bumpVars
<1>3. ASSUME NEW h \in Handlers, Handle(h)
      PROVE  UNCHANGED <<revisions, clock>>
  BY <1>3 DEF Handle, Act, Invite, LookAtActivity, ClearActivity, List,
              TakeInvites, SetActivity, TakeUp, TakeUpWrites, bumpVars
<1>4. ASSUME NEW p \in Pollers, Poll(p)
      PROVE  UNCHANGED <<revisions, clock>>
  BY <1>4 DEF Poll, Ask, Subscribe, Check, Hear, TimeOut, HangUp, TouchAgain,
              ReadPage, Read, Answer, Return, pollUnchanged
<1>5. Sweep \/ TellOfGone \/ Tick \/ UNCHANGED watchVars =>
        UNCHANGED <<revisions, clock>>
  BY DEF Sweep, TellOfGone, Tick, bumpVars, watchVars
<1>6. UNCHANGED <<revisions, clock>> => revision(u)' = revision(u)
  BY DEF revision, EPOCH
<1> QED  BY <1>1, <1>2, <1>3, <1>4, <1>5, <1>6 DEF WatchNext

LEMMA SleepersStep ==
  ASSUME Shape, Shape', SleepersAreWoken, [WatchNext]_watchVars
  PROVE  SleepersAreWoken'
<1> USE DEF Shape
<1> SUFFICES ASSUME NEW p \in Pollers, poll'[p] # None, poll'[p].at = "wait"
             PROVE  \/ revision(p)' = poll'[p].since \/ p \in unheard'
                    \/ \E t \in Threads : job'[t] # None /\ job'[t].at = "tick"
  BY DEF SleepersAreWoken
<1>1. p \in Users
  BY WatchAssumption DEF WatchAssumption
<1>2. ~Restart
  BY DEF Restart
<1>3. poll[p] # None => poll[p] \in Polls
  BY DEF WatchTypeOK
<1>4. ASSUME NEW t \in Threads, Bump(t)
      PROVE  job'[t] # None /\ job'[t].at = "tick"
  <2>1. job[t] # None /\ job[t] \in Jobs
    BY <1>4 DEF Bump, WatchTypeOK
  <2>2. job'[t] = [job[t] EXCEPT !.at = "tick"]
    BY <1>4 DEF Bump, Start, WatchTypeOK
  <2>3. [job[t] EXCEPT !.at = "tick"] \in Jobs
    BY <2>1 DEF Jobs
  <2> QED  BY <2>1, <2>2, <2>3, WatchAssumption DEF Jobs, WatchAssumption
<1>5. CASE \E t \in Threads : Bump(t)
  BY <1>4, <1>5
<1>6. CASE \E t \in Threads : Wake(t)
  <2>1. poll' = poll /\ unheard' = unheard \cup Subscribed
    BY <1>6 DEF Wake
  <2>2. p \in Subscribed
    BY <2>1 DEF Subscribed
  <2> QED  BY <2>1, <2>2
<1>7. CASE /\ ~\E t \in Threads : Bump(t) \/ Wake(t)
           /\ poll[p] # None /\ poll[p].at = "wait"
           /\ poll'[p].since = poll[p].since
           /\ p \in unheard => p \in unheard'
  <2>1. revision(p)' = revision(p)
    BY <1>1, <1>2, <1>7, RevisionsStay
  <2>2. ASSUME NEW t \in Threads, job[t] # None, job[t].at = "tick"
        PROVE  job'[t] = job[t]
    <3>1. ~Collect(t)
      BY <2>2 DEF Collect, CollectFriends, CollectIncoming, CollectOutgoing
    <3> QED  BY <1>2, <1>7, <2>2, <3>1, JobsStay
  <2>3. \/ revision(p) = poll[p].since \/ p \in unheard
        \/ \E t \in Threads : job[t] # None /\ job[t].at = "tick"
    BY <1>7 DEF SleepersAreWoken
  <2> QED  BY <1>7, <2>1, <2>2, <2>3
<1>8. CASE Tick
  <2>1. poll[p] # None /\ poll'[p] = [poll[p] EXCEPT !.left = @ - 1]
    BY <1>8 DEF Tick
  <2>2. poll[p].at = "wait" /\ unheard' = unheard
    BY <1>8, <2>1 DEF Tick, bumpVars
  <2>3. poll'[p].since = poll[p].since
    BY <1>3, <2>1 DEF Polls
  <2>4. ASSUME NEW t \in Threads
        PROVE  ~Bump(t) /\ ~Wake(t)
    BY <1>8 DEF Tick, Between, Bump, Wake
  <2> QED  BY <1>7, <2>1, <2>2, <2>3, <2>4
<1>9. CASE Check(p)
  <2>1. poll[p] # None /\ poll[p].at = "check"
    BY <1>9 DEF Check, At
  <2>2. ~Return(p)
    <3>1. ASSUME Return(p)
          PROVE  poll'[p].at = "touch"
      <4>1. poll'[p] = [poll[p] EXCEPT !.at = "touch", !.left = 0,
                                       !.revision = revision(p)]
        BY <3>1 DEF Return, Move, WatchTypeOK
      <4> QED  BY <1>3, <2>1, <4>1 DEF Polls
    <3> QED  BY <3>1
  <2>3. /\ revision(p) = poll[p].since
        /\ poll'[p] = [poll[p] EXCEPT !.at = "wait"]
        /\ UNCHANGED <<revisions, clock>>
    BY <1>9, <2>2 DEF Check, Move, WatchTypeOK, pollUnchanged
  <2>4. poll'[p].since = poll[p].since
    BY <1>3, <2>1, <2>3 DEF Polls
  <2> QED  BY <2>3, <2>4 DEF revision, EPOCH
<1>10. CASE Poll(p) /\ ~Check(p)
  <2>1. CASE Ask(p)
    <3>1. poll'[p].at = "subscribe"
      BY <2>1 DEF Ask, Move, WatchTypeOK
    <3> QED  BY <3>1
  <2>2. CASE HangUp(p) \/ Answer(p)
    BY <2>2 DEF HangUp, Answer, Move, WatchTypeOK
  <2>3. CASE ~(Ask(p) \/ HangUp(p) \/ Answer(p))
    <3>1. poll[p] # None
      BY <1>10, <2>3 DEF Poll, Subscribe, Hear, TimeOut, TouchAgain, ReadPage, At
    <3>2. CASE TouchAgain(p) \/ Hear(p)
      <4>1. PICK at \in {"friends", "check"} :
              poll'[p] = [poll[p] EXCEPT !.at = at]
        BY <3>2 DEF TouchAgain, Hear, Move, WatchTypeOK
      <4> QED  BY <1>3, <3>1, <4>1 DEF Polls
    <3>3. CASE ReadPage(p)
      <4>1. PICK next \in {"online", "joinable", "outgoing", "incoming",
                           "invites"} :
              \E place, page : Read(p, place, next, page)
        BY <3>3 DEF ReadPage
      <4>2. PICK page : poll'[p] = [poll[p] EXCEPT !.at = next, !.page = page]
        BY <4>1 DEF Read, Move, WatchTypeOK
      <4> QED  BY <1>3, <3>1, <4>2 DEF Polls
    <3>4. CASE TimeOut(p)
      <4>1. poll'[p] = [poll[p] EXCEPT !.at = "touch", !.left = 0,
                                       !.revision = revision(p)]
        BY <3>4 DEF TimeOut, Return, Move, WatchTypeOK
      <4> QED  BY <1>3, <3>1, <4>1 DEF Polls
    <3>5. CASE Subscribe(p)
      <4>1. \/ poll'[p] = [poll[p] EXCEPT !.at = "touch", !.revision = revision(p)]
            \/ \E left : poll'[p] = [poll[p] EXCEPT !.at = "check", !.left = left]
        <5>1. ASSUME NEW to, Move(p, to)
              PROVE  poll'[p] = to
          BY <5>1 DEF Move, WatchTypeOK
        <5> QED  BY <3>5, <5>1 DEF Subscribe
      <4> QED  BY <1>3, <3>1, <4>1 DEF Polls
    <3> QED  BY <1>10, <2>3, <3>2, <3>3, <3>4, <3>5 DEF Poll
  <2> QED  BY <2>1, <2>2, <2>3
<1>11. CASE /\ ~Tick /\ ~Poll(p)
            /\ ~\E t \in Threads : Bump(t) \/ Wake(t)
  <2>1. poll'[p] = poll[p]
    BY <1>2, <1>11, OthersPoll
  <2>2. p \in unheard => p \in unheard'
    <3>1. ASSUME NEW o \in Pollers \ {p}, Poll(o)
          PROVE  unheard \ {o} \subseteq unheard'
      BY <3>1 DEF Poll, Ask, Subscribe, Check, Hear, TimeOut, HangUp,
                  TouchAgain, ReadPage, Read, Answer, Return
    <3>2. ASSUME NEW h \in Handlers, Handle(h)
          PROVE  unheard' = unheard
      BY <3>2 DEF Handle, Act, Invite, LookAtActivity, ClearActivity, List,
                  TakeInvites, SetActivity, TakeUp, TakeUpWrites, bumpVars
    <3>3. ASSUME NEW t \in Threads, Collect(t)
          PROVE  unheard' = unheard
      BY <3>3 DEF Collect, bumpVars
    <3>4. Sweep \/ TellOfGone \/ UNCHANGED watchVars => unheard' = unheard
      BY DEF Sweep, TellOfGone, watchVars, bumpVars
    <3> QED  BY <1>2, <1>11, <3>1, <3>2, <3>3, <3>4 DEF WatchNext
  <2> QED  BY <1>7, <1>11, <2>1, <2>2
<1> QED  BY <1>5, <1>6, <1>8, <1>9, <1>10, <1>11

-----------------------------------------------------------------------------
(* What a user is going to be told of                                       *)

(* The job of t will bump p's revision, or is yet to find out that it must. *)
JobNotes(t, p) ==
  /\ job[t] # None
  /\ \/ job[t].at = "friends" /\ p \in FriendsOf(job[t].of)
     \/ job[t].at \in {"incoming", "outgoing", "bump"} /\ p \in job[t].users

Noted(p) == \/ \E t \in Threads : JobNotes(t, p)
            \/ \E u \in gone \cup Expired : p \in FriendsOf(u)

Settled(p) == ~Noted(p) /\ p \notin untold

OnlineTo(p) == {f \in Mutual(p) : Online(f)}
JoinableTo(p) == {f \in Mutual(p) : Online(f) /\ activity[f] # None}

(* Nothing that p's page or invites show has changed, or become less well   *)
(* known, in a step.                                                        *)
SameView(p) ==
  /\ FriendsOf(p)' = FriendsOf(p) /\ Mutual(p)' = Mutual(p)
  /\ Incoming(p)' = Incoming(p) /\ Outgoing(p)' = Outgoing(p)
  /\ OnlineTo(p)' = OnlineTo(p)
  /\ JoinableTo(p)' \ untold' = JoinableTo(p) \ untold'
  /\ Waiting(p)' \subseteq Waiting(p)
  /\ untold \subseteq untold'

(* The job that was to bump p goes on, until it does.                       *)
LEMMA NotesLast ==
  ASSUME Shape, NEW t \in Threads, NEW p \in Users, JobNotes(t, p),
         [WatchNext]_watchVars, ~Restart, revision(p)' = revision(p),
         \A u \in Users : p \in FriendsOf(u) => p \in FriendsOf(u)'
  PROVE  JobNotes(t, p)'
<1> USE DEF Shape
<1>1. job[t] # None /\ job[t] \in Jobs
  BY DEF JobNotes, WatchTypeOK
<1>2. job[t].at \in {"friends", "incoming", "outgoing"} => job[t].of \in Users
  BY <1>1 DEF OneThingAtATime
<1>3. CASE job'[t] = job[t]
  <2>1. CASE job[t].at = "friends"
    <3>1. p \in FriendsOf(job[t].of)
      BY <2>1 DEF JobNotes
    <3>2. \A u \in Users : p \in FriendsOf(u)' <=> <<u, p>> \in friend'
      BY DEF FriendsOf
    <3>3. <<job[t].of, p>> \in friend'
      BY <1>2, <2>1, <3>1, <3>2
    <3> QED  BY <1>1, <1>3, <2>1, <3>3 DEF JobNotes, FriendsOf
  <2>2. CASE job[t].at # "friends"
    BY <1>3, <2>2 DEF JobNotes
  <2> QED  BY <2>1, <2>2
<1>4. CASE CollectFriends(t)
  <2>1. job'[t] = [job[t] EXCEPT !.at = "incoming", !.users = FriendsOf(job[t].of)]
    BY <1>4 DEF CollectFriends, Start, WatchTypeOK
  <2>2. p \in FriendsOf(job[t].of)
    BY <1>4 DEF CollectFriends, JobNotes
  <2>3. FriendsOf(job[t].of) \in SUBSET Users
    BY <1>2, <1>4, Lists DEF CollectFriends
  <2>4. job'[t] \in Jobs /\ job'[t].at = "incoming" /\ p \in job'[t].users
    BY <1>1, <2>1, <2>2, <2>3 DEF Jobs
  <2> QED  BY <2>4, WatchAssumption DEF JobNotes, WatchAssumption
<1>5. CASE CollectIncoming(t)
  <2>1. job'[t] = [job[t] EXCEPT !.at = "outgoing",
                                 !.users = @ \cup Incoming(job[t].of)]
    BY <1>5 DEF CollectIncoming, Start, WatchTypeOK
  <2>2. p \in job[t].users
    BY <1>5 DEF CollectIncoming, JobNotes
  <2>3. job'[t] \in Jobs /\ job'[t].at = "outgoing" /\ p \in job'[t].users
    BY <1>1, <2>1, <2>2, <1>2, <1>5, Lists DEF CollectIncoming, Jobs
  <2> QED  BY <2>3, WatchAssumption DEF JobNotes, WatchAssumption
<1>6. CASE CollectOutgoing(t)
  <2> DEFINE users == job[t].users \cup Outgoing(job[t].of)
  <2>1. p \in users
    BY <1>6 DEF CollectOutgoing, JobNotes
  <2>2. job'[t] = BumpJob(users)
    BY <1>6, <2>1 DEF CollectOutgoing, Start, WatchTypeOK
  <2>3. users \in SUBSET Users
    BY <1>1, <1>2, <1>6, Lists DEF CollectOutgoing, Jobs
  <2> QED  BY <2>1, <2>2, <2>3, NewJobs DEF JobNotes
<1>7. ~Bump(t)
  <2>1. ASSUME Bump(t)
        PROVE  revision(p)' = revision(p) + 1
    <3>1. clock' = clock /\ revisions'[p] = revision(p) + 1
      BY <2>1 DEF Bump, JobNotes
    <3>2. revision(p) + 1 # None
      BY RevisionIsNumber, WatchAssumption DEF WatchAssumption
    <3> QED  BY <3>1, <3>2 DEF revision, EPOCH
  <2> QED  BY <2>1, RevisionIsNumber
<1>8. ~Wake(t)
  BY DEF Wake, JobNotes
<1> QED  BY <1>1, <1>3, <1>4, <1>5, <1>6, <1>7, <1>8, JobsStay DEF Collect

(* While the tables of friends and requests stay, what p sees changes only  *)
(* by what p's friends do, and they note p.                                 *)
LEMMA SameTables ==
  ASSUME Shape, NEW p \in Users, [WatchNext]_watchVars, ~Restart,
         revision(p)' = revision(p), Settled(p)',
         UNCHANGED <<friend, request>>, untold \subseteq untold',
         Waiting(p)' \subseteq Waiting(p),
         \A u \in Users : p \in FriendsOf(u) => (Online(u)' <=> Online(u)),
         \A u \in Users \ untold' : p \in FriendsOf(u) =>
           (activity'[u] # None <=> activity[u] # None),
         (\E u \in gone \cup Expired : p \in FriendsOf(u)) => Noted(p)'
  PROVE  Settled(p) /\ SameView(p)
<1>1. \A u \in Users : /\ FriendsOf(u)' = FriendsOf(u)
                       /\ Mutual(u)' = Mutual(u)
                       /\ Incoming(u)' = Incoming(u)
                       /\ Outgoing(u)' = Outgoing(u)
  BY DEF FriendsOf, Mutual, Incoming, Outgoing
<1>2. ~Noted(p)
  <2>1. ASSUME NEW t \in Threads, JobNotes(t, p)
        PROVE  Noted(p)'
    <3>1. JobNotes(t, p)'
      BY <1>1, <2>1, NotesLast
    <3> QED  BY <3>1 DEF Noted
  <2> QED  BY <2>1 DEF Noted, Settled
<1>3. \A f \in Mutual(p) : f \in Users /\ p \in FriendsOf(f)
  BY DEF Mutual, FriendsOf
<1>4. OnlineTo(p)' = OnlineTo(p)
  <2>1. OnlineTo(p)' = {f \in Mutual(p) : Online(f)'}
    BY <1>1 DEF OnlineTo
  <2> QED  BY <1>3, <2>1 DEF OnlineTo
<1>5. JoinableTo(p)' \ untold' = JoinableTo(p) \ untold'
  <2>1. JoinableTo(p)' = {f \in Mutual(p) : Online(f)' /\ activity'[f] # None}
    BY <1>1 DEF JoinableTo
  <2> QED  BY <1>3, <2>1 DEF JoinableTo
<1> QED  BY <1>1, <1>2, <1>4, <1>5 DEF Settled, SameView

(* Touching tells the friends of a user who was not online.                 *)
LEMMA TouchTells ==
  ASSUME Shape, NEW p \in Users, [WatchNext]_watchVars, ~Restart,
         revision(p)' = revision(p), Settled(p)',
         UNCHANGED <<friend, request, activity, gone, untold>>,
         Waiting(p)' \subseteq Waiting(p),
         NEW t \in Threads, NEW u \in Users, job[t] = None, Touch(t, u)
  PROVE  Settled(p) /\ SameView(p)
<1> USE DEF Shape
<1>1. /\ seen' = [seen EXCEPT ![u] = 0]
      /\ job'[t] = IF Online(u) THEN None ELSE Watchers(u)
  BY Touched
<1>2. \A v \in Users : FriendsOf(v)' = FriendsOf(v)
  BY DEF FriendsOf
<1>3. ~Online(u) /\ p \in FriendsOf(u) => Noted(p)'
  <2>1. ASSUME ~Online(u), p \in FriendsOf(u)
        PROVE  JobNotes(t, p)'
    <3>1. job'[t] = Watchers(u)
      BY <1>1, <2>1
    <3>2. p \in FriendsOf(u)'
      BY <1>2, <2>1
    <3> QED  BY <3>1, <3>2, NewJobs DEF JobNotes, FriendsOf
  <2> QED  BY <2>1 DEF Noted
<1>4. Online(u)' /\ \A v \in Users \ {u} : seen'[v] = seen[v]
  BY <1>1, WatchAssumption DEF WatchTypeOK, Online, WatchAssumption
<1>5. ASSUME NEW v \in Users, p \in FriendsOf(v)
      PROVE  Online(v)' <=> Online(v)
  <2>1. CASE v = u
    BY <1>3, <1>4, <1>5, <2>1 DEF Settled
  <2>2. CASE v # u
    BY <1>4, <2>2 DEF Online
  <2> QED  BY <2>1, <2>2
<1>6. ASSUME NEW v \in gone \cup Expired, p \in FriendsOf(v)
      PROVE  Noted(p)'
  <2>1. v \in Users
    BY DEF Expired, WatchTypeOK
  <2>2. p \in FriendsOf(v)'
    BY <1>2, <1>6, <2>1
  <2>3. CASE v \in gone
    BY <2>2, <2>3 DEF Noted
  <2>4. CASE v \in Expired /\ v = u
    <3>1. ~Online(u)
      BY <2>4 DEF Expired, Online, WatchTypeOK
    <3> QED  BY <1>3, <1>6, <2>4, <3>1
  <2>5. CASE v \in Expired /\ v # u
    <3>1. v \in Expired'
      BY <1>4, <2>1, <2>5 DEF Expired
    <3> QED  BY <2>2, <3>1 DEF Noted
  <2> QED  BY <1>6, <2>3, <2>4, <2>5
<1> QED  BY <1>5, <1>6, SameTables

(* While nobody comes or goes either, those who went are still to be told   *)
(* of.                                                                      *)
LEMMA SamePeople ==
  ASSUME Shape, NEW p \in Users, UNCHANGED <<friend, seen, gone>>
  PROVE  /\ \A u \in Users : Online(u)' <=> Online(u)
         /\ (\E u \in gone \cup Expired : p \in FriendsOf(u)) => Noted(p)'
<1>1. Expired' = Expired /\ \A u \in Users : Online(u)' <=> Online(u)
  BY DEF Expired, Online
<1>2. \A u \in gone \cup Expired : u \in Users
  BY DEF Expired, Shape, WatchTypeOK
<1>3. \A u \in Users : FriendsOf(u)' = FriendsOf(u)
  BY DEF FriendsOf
<1> QED  BY <1>1, <1>2, <1>3 DEF Noted

(* Nothing a page shows is changed by collecting watchers, bumping, waking, *)
(* looking, taking invites, and most of what a poll does.                   *)
LEMMA NothingNew ==
  ASSUME Shape, NEW p \in Users, [WatchNext]_watchVars, ~Restart,
         revision(p)' = revision(p), Settled(p)',
         UNCHANGED <<friend, request, activity, seen, gone, untold>>,
         Waiting(p)' \subseteq Waiting(p)
  PROVE  Settled(p) /\ SameView(p)
  BY SamePeople, SameTables

LEMMA JobsTell ==
  ASSUME Shape, NEW p \in Users, [WatchNext]_watchVars, ~Restart,
         revision(p)' = revision(p), Settled(p)',
         NEW t \in Threads, Collect(t) \/ Bump(t) \/ Wake(t)
  PROVE  Settled(p) /\ SameView(p)
<1>1. UNCHANGED <<friend, request, activity, seen, gone, untold, invite, handed>>
  BY DEF Collect, Bump, Wake, dbVars, friendVars, vars
<1> QED  BY <1>1, NothingNew DEF Waiting

LEMMA PollsTell ==
  ASSUME Shape, NEW p \in Users, [WatchNext]_watchVars, ~Restart,
         revision(p)' = revision(p), Settled(p)',
         NEW o \in Pollers, Poll(o)
  PROVE  Settled(p) /\ SameView(p)
<1>1. UNCHANGED <<friend, request, activity, gone, untold>>
  BY DEF Poll, Ask, Subscribe, Check, Hear, TimeOut, HangUp, TouchAgain,
         ReadPage, Read, Answer, pollUnchanged, dbVars, friendVars, vars
<1>2. \/ UNCHANGED seen
      \/ job[o] = None /\ Touch(o, o)
  BY DEF Poll, Ask, Subscribe, Check, Hear, TimeOut, HangUp, TouchAgain,
         ReadPage, Read, Answer, At
<1>3. o \in Threads /\ o \in Users
  BY WatchAssumption DEF Threads, WatchAssumption
<1>4. Waiting(p)' \subseteq Waiting(p)
  <2>1. CASE \E arrives \in BOOLEAN : Take(o, arrives)
    BY <1>3, <2>1, TakeLeaves DEF Shape
  <2>2. CASE ~Answer(o)
    <3>1. UNCHANGED <<invite, handed>>
      BY <2>2 DEF Poll, Ask, Subscribe, Check, Hear, TimeOut, HangUp,
                  TouchAgain, ReadPage, Read, pollUnchanged, dbVars
    <3> QED  BY <3>1 DEF Waiting
  <2> QED  BY <2>1, <2>2 DEF Answer
<1> QED  BY <1>1, <1>2, <1>3, <1>4, NothingNew, TouchTells

(* The sweeper tells the friends of everybody who went offline: it had left *)
(* them noted.                                                              *)
LEMMA SweeperTells ==
  ASSUME Shape, NEW p \in Users, [WatchNext]_watchVars, ~Restart,
         revision(p)' = revision(p), Settled(p)', Sweep \/ TellOfGone
  PROVE  Settled(p) /\ SameView(p)
<1> USE DEF Shape
<1>1. /\ UNCHANGED <<friend, request, activity, untold>>
      /\ Waiting(p)' = Waiting(p)
  BY DEF Sweep, TellOfGone, dbVars, friendVars, vars, Waiting
<1>2. \A u \in Users : FriendsOf(u)' = FriendsOf(u)
  BY <1>1 DEF FriendsOf
<1>3. Expired \subseteq Users /\ gone \subseteq Users
  BY DEF Expired, WatchTypeOK
<1>4. CASE Sweep
  <2>1. \A u \in Users : Online(u)' <=> Online(u)
    BY <1>4, WatchAssumption DEF Sweep, Expired, Online, WatchAssumption
  <2>2. (\E u \in gone \cup Expired : p \in FriendsOf(u)) => Noted(p)'
    BY <1>2, <1>3, <1>4 DEF Sweep, Noted
  <2> QED  BY <1>1, <2>1, <2>2, SameTables
<1>5. CASE TellOfGone
  <2>1. PICK u \in gone : Start("sweeper", Watchers(u)) /\ gone' = gone \ {u}
    BY <1>5 DEF TellOfGone
  <2>2. UNCHANGED seen /\ "sweeper" \in Threads /\ u \in Users
    BY <1>3, <1>5 DEF TellOfGone, Threads
  <2>3. job'["sweeper"] = Watchers(u)
    BY <2>1, <2>2, NewJobs, Started
  <2>4. Expired' = Expired /\ \A v \in Users : Online(v)' <=> Online(v)
    BY <2>2 DEF Expired, Online
  <2>5. ASSUME p \in FriendsOf(u)
        PROVE  Noted(p)'
    <3>1. <<u, p>> \in friend'
      BY <1>1, <2>5 DEF FriendsOf
    <3>2. JobNotes("sweeper", p)'
      BY <2>2, <2>3, <3>1, NewJobs DEF JobNotes, FriendsOf
    <3> QED  BY <2>2, <3>2 DEF Noted
  <2>6. (\E v \in gone \cup Expired : p \in FriendsOf(v)) => Noted(p)'
    BY <1>2, <1>3, <2>1, <2>4, <2>5 DEF Noted
  <2> QED  BY <1>1, <2>4, <2>6, SameTables
<1> QED  BY <1>4, <1>5

(* Who is heard of no longer is noted until the sweeper comes.              *)
LEMMA TimeTells ==
  ASSUME Shape, NEW p \in Users, [WatchNext]_watchVars, ~Restart,
         revision(p)' = revision(p), Settled(p)', Tick
  PROVE  Settled(p) /\ SameView(p)
<1> USE WatchAssumption DEF Shape, WatchAssumption
<1>1. /\ UNCHANGED <<friend, request, activity, gone, untold>>
      /\ gone = {}
      /\ seen' = [u \in Users |-> IF Online(u) THEN seen[u] + 1 ELSE seen[u]]
      /\ Waiting(p)' = Waiting(p)
  BY DEF Tick, Between, dbVars, friendVars, vars, Waiting
<1>2. \A u \in Users : FriendsOf(u)' = FriendsOf(u)
  BY <1>1 DEF FriendsOf
<1>3. ASSUME NEW u \in Users
      PROVE  /\ u \in Expired => u \in Expired'
             /\ u \in Expired' \/ (Online(u)' <=> Online(u))
  <2>1. seen[u] \in 0..ONLINE_FOR \cup {None}
    BY DEF WatchTypeOK
  <2>2. seen'[u] = IF Online(u) THEN seen[u] + 1 ELSE seen[u]
    BY <1>1
  <2> QED  BY <2>1, <2>2 DEF Expired, Online
<1>4. \A u \in Users : u \in Expired' /\ p \in FriendsOf(u) => Noted(p)'
  BY <1>2 DEF Noted
<1>5. Expired \subseteq Users
  BY DEF Expired
<1>6. \A u \in Users : p \in FriendsOf(u) => (Online(u)' <=> Online(u))
  BY <1>3, <1>4 DEF Settled
<1>7. (\E u \in gone \cup Expired : p \in FriendsOf(u)) => Noted(p)'
  BY <1>1, <1>3, <1>4, <1>5
<1> QED  BY <1>1, <1>6, <1>7, SameTables

(* A thread that starts to tell somebody, or a user's watchers, notes them. *)
LEMMA StartNotes ==
  ASSUME Shape, NEW t \in Threads, NEW p \in Users
  PROVE  /\ \A S \in SUBSET Users : p \in S /\ Start(t, BumpJob(S)) => Noted(p)'
         /\ \A u \in Users : <<u, p>> \in friend' /\ Start(t, Watchers(u)) =>
              Noted(p)'
<1>1. ASSUME NEW S \in SUBSET Users, p \in S, Start(t, BumpJob(S))
      PROVE  Noted(p)'
  <2>1. job'[t] = BumpJob(S)
    BY <1>1, NewJobs, Started DEF Shape
  <2>2. JobNotes(t, p)'
    BY <1>1, <2>1, NewJobs DEF JobNotes
  <2> QED  BY <2>2 DEF Noted
<1>2. ASSUME NEW u \in Users, <<u, p>> \in friend', Start(t, Watchers(u))
      PROVE  Noted(p)'
  <2>1. job'[t] = Watchers(u)
    BY <1>2, NewJobs, Started DEF Shape
  <2>2. JobNotes(t, p)'
    BY <1>2, <2>1, NewJobs DEF JobNotes, FriendsOf
  <2> QED  BY <2>2 DEF Noted
<1> QED  BY <1>1, <1>2

(* request, accept and remove change nothing of others', and tell both      *)
(* users unless they change nothing of theirs either.                       *)
LEMMA ActsOn ==
  ASSUME NEW h \in Handlers, NEW u \in Users, NEW v \in Users, Act(h, u, v)
  PROVE  /\ UNCHANGED <<activity, invite, handed, seen, gone>>
         /\ \A a, b \in Users : {a, b} # {u, v} =>
              /\ <<a, b>> \in friend' <=> <<a, b>> \in friend
              /\ <<a, b>> \in request' <=> <<a, b>> \in request
         /\ untold \subseteq untold'
         /\ \/ UNCHANGED <<friend, request>>
            \/ Start(h, BumpJob({u, v}))
            \/ {u, v} \subseteq untold'
<1>1. PICK done \in Outcomes :
        /\ TakeUpWrites(h, done)
        /\ \/ /\ Request(u, v, done)
              /\ Tell(h, {u, v}, done,
                      IF <<v, u>> \in request THEN SaysFriends(done) ELSE done[1])
           \/ Accept(u, v, done) /\ Tell(h, {u, v}, done, SaysFriends(done))
           \/ Remove(u, v, done, TRUE) /\ Tell(h, {u, v}, done, TRUE)
  BY DEF Act
<1>2. UNCHANGED <<activity, invite, handed, seen, gone>>
  BY <1>1 DEF Act, TakeUpWrites
<1>3. untold \subseteq untold'
  BY <1>1 DEF Tell
<1>4. ASSUME NEW a \in Users, NEW b \in Users, {a, b} # {u, v}
      PROVE  /\ <<a, b>> \in friend' <=> <<a, b>> \in friend
             /\ <<a, b>> \in request' <=> <<a, b>> \in request
  <2>1. <<a, b>> # <<u, v>> /\ <<a, b>> # <<v, u>>
    BY <1>4
  <2>2. AcceptLocked(u, v, done) \/ Insert(u, v, done) \/ Remove(u, v, done, TRUE)
    BY <1>1 DEF Request, Accept
  <2>3. <<a, b>> \notin Both(u, v) /\ <<a, b>> \notin Accepted(done, u, v)
    BY <2>1 DEF Both, Accepted
  <2>4. CASE AcceptLocked(u, v, done)
    BY <2>3, <2>4 DEF AcceptLocked
  <2>5. CASE Insert(u, v, done)
    BY <2>1, <2>5 DEF Insert
  <2>6. CASE Remove(u, v, done, TRUE)
    BY <2>3, <2>6 DEF Remove
  <2> QED  BY <2>2, <2>4, <2>5, <2>6
<1>5. ASSUME AcceptLocked(u, v, done), Tell(h, {u, v}, done, SaysFriends(done))
      PROVE  \/ UNCHANGED <<friend, request>>
             \/ Start(h, BumpJob({u, v}))
             \/ {u, v} \subseteq untold'
  <2>1. CASE SaysFriends(done)
    BY <1>5, <2>1 DEF Tell
  <2>2. CASE ~SaysFriends(done) /\ (done[1] \/ done[2])
    BY <1>5, <2>2 DEF Tell
  <2>3. CASE ~done[1] /\ ~done[2]
    BY <1>5, <2>3 DEF AcceptLocked, Accepted
  <2> QED  BY <2>1, <2>2, <2>3
<1>6. ASSUME Insert(u, v, done), Tell(h, {u, v}, done, done[1])
      PROVE  UNCHANGED <<friend, request>> \/ Start(h, BumpJob({u, v}))
  <2>1. CASE done[1]
    BY <1>6, <2>1 DEF Tell
  <2>2. CASE ~done[1]
    BY <1>6, <2>2 DEF Insert
  <2> QED  BY <2>1, <2>2
<1>7. Tell(h, {u, v}, done, TRUE) => Start(h, BumpJob({u, v}))
  BY DEF Tell
<1>8. \/ UNCHANGED <<friend, request>>
      \/ Start(h, BumpJob({u, v}))
      \/ {u, v} \subseteq untold'
  <2>1. CASE Accept(u, v, done) /\ Tell(h, {u, v}, done, SaysFriends(done))
    BY <1>5, <2>1 DEF Accept
  <2>2. CASE <<v, u>> \in request /\ Request(u, v, done)
             /\ Tell(h, {u, v}, done, SaysFriends(done))
    BY <1>5, <2>2 DEF Request
  <2>3. CASE <<v, u>> \notin request /\ Request(u, v, done)
             /\ Tell(h, {u, v}, done, done[1])
    BY <1>6, <2>3 DEF Request
  <2> QED  BY <1>1, <1>7, <2>1, <2>2, <2>3
<1> QED  BY <1>2, <1>3, <1>4, <1>8

LEMMA ActTells ==
  ASSUME Shape, NEW p \in Users, [WatchNext]_watchVars, ~Restart,
         revision(p)' = revision(p), Settled(p)',
         NEW h \in Handlers, NEW u \in Users, NEW v \in Users, Act(h, u, v)
  PROVE  Settled(p) /\ SameView(p)
<1>1. h \in Threads /\ {u, v} \in SUBSET Users
  BY DEF Threads
<1>2. CASE UNCHANGED <<friend, request>>
  <2>1. /\ UNCHANGED <<activity, seen, gone>>
        /\ untold \subseteq untold'
        /\ Waiting(p)' = Waiting(p)
    BY ActsOn DEF Waiting
  <2> QED  BY <1>2, <2>1, SamePeople, SameTables
<1>3. CASE p \in {u, v} /\ ~UNCHANGED <<friend, request>>
  <2>1. Start(h, BumpJob({u, v})) => Noted(p)'
    BY <1>1, <1>3, StartNotes
  <2> QED  BY <1>3, <2>1, ActsOn DEF Settled
<1>4. CASE p \notin {u, v}
  <2>1. \A a \in Users : {a, p} # {u, v} /\ {p, a} # {u, v}
    BY <1>4
  <2>2. \A a \in Users : /\ <<a, p>> \in friend' <=> <<a, p>> \in friend
                         /\ <<p, a>> \in friend' <=> <<p, a>> \in friend
                         /\ <<a, p>> \in request' <=> <<a, p>> \in request
                         /\ <<p, a>> \in request' <=> <<p, a>> \in request
    BY <2>1, ActsOn
  <2>3. /\ FriendsOf(p)' = FriendsOf(p) /\ Mutual(p)' = Mutual(p)
        /\ Incoming(p)' = Incoming(p) /\ Outgoing(p)' = Outgoing(p)
        /\ \A a \in Users : p \in FriendsOf(a)' <=> p \in FriendsOf(a)
    BY <2>2 DEF FriendsOf, Mutual, Incoming, Outgoing
  <2>4. /\ UNCHANGED <<activity, seen, gone>>
        /\ untold \subseteq untold'
        /\ Waiting(p)' = Waiting(p)
    BY ActsOn DEF Waiting
  <2>5. Expired' = Expired /\ gone \cup Expired \subseteq Users
    BY <2>4 DEF Expired, Shape, WatchTypeOK
  <2>6. ~Noted(p)
    <3>1. ASSUME NEW t \in Threads, JobNotes(t, p)
          PROVE  Noted(p)'
      <4>1. JobNotes(t, p)'
        BY <2>3, <3>1, NotesLast
      <4> QED  BY <4>1 DEF Noted
    <3>2. ASSUME NEW a \in gone \cup Expired, p \in FriendsOf(a)
          PROVE  Noted(p)'
      BY <2>3, <2>4, <2>5, <3>2 DEF Noted
    <3> QED  BY <3>1, <3>2 DEF Noted, Settled
  <2>7. /\ OnlineTo(p)' = OnlineTo(p)
        /\ JoinableTo(p)' = JoinableTo(p)
    BY <2>3, <2>4 DEF OnlineTo, JoinableTo, Online
  <2> QED  BY <2>3, <2>4, <2>6, <2>7 DEF Settled, SameView
<1> QED  BY <1>2, <1>3, <1>4

(* Who was about to find the activity unchanged still does.                 *)
DraftsAreRight ==
  \A h \in Handlers : draft[h] # None /\ ~draft[h].changed =>
    \/ activity[draft[h].user] = draft[h].session
    \/ draft[h].user \in untold

(* Writing or clearing an activity tells the watchers unless it is what it  *)
(* was.                                                                     *)
LEMMA ActivityTells ==
  ASSUME Shape, DraftsAreRight, NEW p \in Users, [WatchNext]_watchVars, ~Restart,
         revision(p)' = revision(p), Settled(p)', NEW h \in Handlers,
         SetActivity(h) \/ \E u \in Users : ClearActivity(h, u)
  PROVE  Settled(p) /\ SameView(p)
<1>1. PICK u \in Users :
        /\ \A w \in Users \ {u} : activity'[w] = activity[w]
        /\ untold \subseteq untold'
        /\ \/ Start(h, Watchers(u))
           \/ activity'[u] = activity[u] \/ u \in untold
  <2>1. CASE SetActivity(h)
    <3>1. draft[h] \in Drafts
      BY <2>1 DEF SetActivity, Shape, WatchTypeOK
    <3>2. draft[h].user \in Users
      BY <3>1 DEF Drafts
    <3>3. /\ \A w \in Users \ {draft[h].user} : activity'[w] = activity[w]
          /\ activity'[draft[h].user] \in {draft[h].session,
                                            activity[draft[h].user]}
      BY <2>1, <3>2 DEF SetActivity, Shape, WatchTypeOK
    <3>4. draft[h].changed => Start(h, Watchers(draft[h].user))
      BY <2>1 DEF SetActivity
    <3>5. ~draft[h].changed => \/ activity[draft[h].user] = draft[h].session
                               \/ draft[h].user \in untold
      BY <2>1 DEF SetActivity, DraftsAreRight
    <3>6. untold \subseteq untold'
      BY <2>1 DEF SetActivity, NoteCrossing
    <3> QED  BY <3>2, <3>3, <3>4, <3>5, <3>6
  <2>2. ASSUME NEW u \in Users, ClearActivity(h, u)
        PROVE  /\ \A w \in Users \ {u} : activity'[w] = activity[w]
               /\ untold \subseteq untold'
               /\ Start(h, Watchers(u)) \/ activity'[u] = activity[u]
    BY <2>2 DEF ClearActivity, NoteCrossing, Shape, WatchTypeOK
  <2> QED  BY <2>1, <2>2
<1>2. UNCHANGED <<friend, request, seen, gone>> /\ Waiting(p)' = Waiting(p)
  BY DEF SetActivity, ClearActivity, TakeUp, TakeUpWrites, friendVars, vars,
         Waiting
<1>3. untold \subseteq untold'
  BY <1>1
<1>4. h \in Threads
  BY DEF Threads
<1>5. ASSUME NEW w \in Users \ untold', p \in FriendsOf(w)
      PROVE  activity'[w] # None <=> activity[w] # None
  <2>1. <<w, p>> \in friend'
    BY <1>2, <1>5 DEF FriendsOf
  <2>2. ~(w = u /\ Start(h, Watchers(u)))
    BY <1>4, <2>1, StartNotes DEF Settled
  <2> QED  BY <1>1, <1>3, <1>5, <2>2
<1> QED  BY <1>2, <1>3, <1>5, SamePeople, SameTables

LEMMA HandlersTell ==
  ASSUME Shape, DraftsAreRight, NEW p \in Users, [WatchNext]_watchVars, ~Restart,
         revision(p)' = revision(p), Settled(p)', NEW h \in Handlers, Handle(h)
  PROVE  Settled(p) /\ SameView(p)
<1>1. h \in Threads /\ job[h] = None
  BY HandlerJobs DEF Threads
<1>2. ASSUME NEW u \in Users, NEW v \in Users, Invite(h, u, v)
      PROVE  Settled(p) /\ SameView(p)
  <2>1. p # v
    <3>1. Start(h, BumpJob({v})) /\ {v} \in SUBSET Users
      BY <1>2 DEF Invite
    <3> QED  BY <1>1, <3>1, StartNotes DEF Settled
  <2>2. /\ UNCHANGED <<friend, request, activity, seen, gone, untold>>
        /\ Waiting(p)' = Waiting(p)
    BY <1>2, <2>1 DEF Invite, TakeUp, TakeUpWrites, friendVars, vars, Waiting,
                      Shape, WatchTypeOK
  <2> QED  BY <2>2, NothingNew
<1>3. ASSUME NEW u \in Users, TakeInvites(h, u)
      PROVE  Settled(p) /\ SameView(p)
  <2>1. /\ UNCHANGED <<friend, request, activity, seen, gone, untold>>
        /\ \E arrives \in BOOLEAN : Take(u, arrives)
    BY <1>3 DEF TakeInvites, TakeUp, TakeUpWrites, friendVars, vars
  <2>2. Waiting(p)' \subseteq Waiting(p)
    BY <2>1, TakeLeaves DEF Shape
  <2> QED  BY <2>1, <2>2, NothingNew
<1>4. ASSUME NEW u \in Users, NEW session \in Sessions,
             LookAtActivity(h, u, session)
      PROVE  Settled(p) /\ SameView(p)
  <2>1. /\ UNCHANGED <<friend, request, activity, seen, gone, untold>>
        /\ Waiting(p)' = Waiting(p)
    BY <1>4 DEF LookAtActivity, TakeUp, TakeUpWrites, dbVars, friendVars, vars,
                Waiting
  <2> QED  BY <2>1, NothingNew
<1>5. ASSUME NEW u \in Users, List(h, u)
      PROVE  Settled(p) /\ SameView(p)
  <2>1. /\ UNCHANGED <<friend, request, activity, gone, untold>>
        /\ Touch(h, u) /\ Waiting(p)' = Waiting(p)
    BY <1>5 DEF List, TakeUp, TakeUpWrites, dbVars, friendVars, vars, Waiting
  <2> QED  BY <1>1, <2>1, TouchTells
<1> QED  BY <1>2, <1>3, <1>4, <1>5, ActTells, ActivityTells DEF Handle

(* Whatever changes what p sees notes p before it is done, unless p or what *)
(* was changed is among the untold: if p's revision stays and p is settled  *)
(* after a step, it was before, and p sees what it saw.                     *)
LEMMA Announced ==
  ASSUME Shape, DraftsAreRight, NEW p \in Users, [WatchNext]_watchVars, ~Restart,
         revision(p)' = revision(p), Settled(p)'
  PROVE  Settled(p) /\ SameView(p)
<1>1. CASE UNCHANGED watchVars
  <2>1. /\ UNCHANGED <<friend, request, activity, seen, gone, untold>>
        /\ Waiting(p)' = Waiting(p)
    BY <1>1 DEF watchVars, dbVars, friendVars, vars, Waiting
  <2> QED  BY <2>1, NothingNew
<1> QED  BY <1>1, JobsTell, HandlersTell, PollsTell, SweeperTells, TimeTells
         DEF WatchNext

(* Between looking at an activity and writing it, whoever changes it finds  *)
(* the draft, and counts the user among the untold.                         *)
LEMMA DraftsStep ==
  ASSUME Shape, DraftsAreRight, [WatchNext]_watchVars
  PROVE  DraftsAreRight'
<1> SUFFICES ASSUME NEW h \in Handlers, draft'[h] # None, ~draft'[h].changed
             PROVE  \/ activity'[draft'[h].user] = draft'[h].session
                    \/ draft'[h].user \in untold'
  BY DEF DraftsAreRight
<1>1. ~Restart
  BY DEF Restart
<1>2. CASE UNCHANGED <<draft, activity>> /\ untold \subseteq untold'
  BY <1>2 DEF DraftsAreRight
<1>3. ASSUME NEW t \in Threads, Collect(t) \/ Bump(t) \/ Wake(t)
      PROVE  UNCHANGED <<draft, activity, untold>>
  BY <1>3 DEF Collect, Bump, Wake, dbVars
<1>4. ASSUME NEW p \in Pollers, Poll(p)
      PROVE  UNCHANGED <<draft, activity, untold>>
  BY <1>4 DEF Poll, Ask, Subscribe, Check, Hear, TimeOut, HangUp, TouchAgain,
              ReadPage, Read, Answer, pollUnchanged, dbVars
<1>5. Sweep \/ TellOfGone \/ Tick \/ UNCHANGED watchVars =>
        UNCHANGED <<draft, activity, untold>>
  BY DEF Sweep, TellOfGone, Tick, dbVars, watchVars
<1>6. ASSUME NEW i \in Handlers, NEW u \in Users, NEW v \in Users,
             Act(i, u, v) \/ Invite(i, u, v) \/ List(i, u) \/ TakeInvites(i, u)
      PROVE  UNCHANGED <<draft, activity>> /\ untold \subseteq untold'
  BY <1>6 DEF Act, Tell, Invite, List, TakeInvites, dbVars
<1>7. ASSUME NEW i \in Handlers, NEW u \in Users, draft'[i] = None,
             \A j \in Handlers \ {i} : draft'[j] = draft[j],
             NoteCrossing(i, u),
             \A w \in Users \ {u} : activity'[w] = activity[w]
      PROVE  \/ activity'[draft'[h].user] = draft'[h].session
             \/ draft'[h].user \in untold'
  <2>1. h # i /\ draft[h] # None /\ draft'[h] = draft[h] /\ draft[h] \in Drafts
    BY <1>7 DEF Shape, WatchTypeOK
  <2>2. untold \subseteq untold' /\ (draft[h].user = u => u \in untold')
    BY <1>7, <2>1 DEF NoteCrossing, Crosses
  <2>3. draft[h].user \in Users
    BY <2>1 DEF Drafts
  <2> QED  BY <1>7, <2>1, <2>2, <2>3 DEF DraftsAreRight
<1>8. ASSUME NEW i \in Handlers, NEW u \in Users, ClearActivity(i, u)
      PROVE  \/ activity'[draft'[h].user] = draft'[h].session
             \/ draft'[h].user \in untold'
  <2>1. /\ draft'[i] = None /\ draft' = draft
        /\ \/ /\ NoteCrossing(i, u)
              /\ \A w \in Users \ {u} : activity'[w] = activity[w]
           \/ UNCHANGED <<activity, untold>>
    BY <1>8 DEF ClearActivity, TakeUp, TakeUpWrites, Free, Shape, WatchTypeOK
  <2> QED  BY <1>2, <1>7, <2>1
<1>9. ASSUME NEW i \in Handlers, SetActivity(i)
      PROVE  \/ activity'[draft'[h].user] = draft'[h].session
             \/ draft'[h].user \in untold'
  <2>1. draft[i] \in Drafts
    BY <1>9 DEF SetActivity, Shape, WatchTypeOK
  <2>2. draft[i].user \in Users
    BY <2>1 DEF Drafts
  <2>3. /\ draft'[i] = None
        /\ \A j \in Handlers \ {i} : draft'[j] = draft[j]
        /\ \/ /\ NoteCrossing(i, draft[i].user)
              /\ \A w \in Users \ {draft[i].user} : activity'[w] = activity[w]
           \/ UNCHANGED <<activity, untold>>
    BY <1>9, <2>2 DEF SetActivity, Shape, WatchTypeOK
  <2>4. CASE UNCHANGED <<activity, untold>>
    <3>1. h # i /\ draft'[h] = draft[h]
      BY <2>3
    <3> QED  BY <2>4, <3>1 DEF DraftsAreRight
  <2> QED  BY <1>7, <2>2, <2>3, <2>4
<1>10. ASSUME NEW i \in Handlers, NEW u \in Users, NEW session \in Sessions,
              LookAtActivity(i, u, session)
       PROVE  \/ activity'[draft'[h].user] = draft'[h].session
              \/ draft'[h].user \in untold'
  <2> DEFINE d == [user |-> u, session |-> session,
                   changed |-> activity[u] # session]
  <2>1. /\ activity' = activity /\ untold' = untold
        /\ draft'[h] = IF h = i THEN d ELSE draft[h]
    BY <1>10 DEF LookAtActivity, dbVars, Shape, WatchTypeOK
  <2>2. CASE h = i
    <3>1. /\ draft'[h].user = u /\ draft'[h].session = session
          /\ draft'[h].changed = (activity[u] # session)
      BY <2>1, <2>2
    <3> QED  BY <2>1, <3>1
  <2>3. CASE h # i
    BY <2>1, <2>3 DEF DraftsAreRight
  <2> QED  BY <2>2, <2>3
<1> QED  BY <1>1, <1>2, <1>3, <1>4, <1>5, <1>6, <1>8, <1>9, <1>10
         DEF WatchNext, Handle

-----------------------------------------------------------------------------
(* What a client has been shown                                             *)

(* What of the page has been read by the time the poll is at this place is  *)
(* what there is to see.                                                    *)
Shows(page, at, p) ==
  /\ at \in {"online", "joinable", "outgoing", "incoming", "invites"} =>
       page.friends = FriendsOf(p) /\ page.mutual = Mutual(p)
  /\ at \in {"joinable", "outgoing", "incoming", "invites"} =>
       page.online = OnlineTo(p)
  /\ at \in {"outgoing", "incoming", "invites"} =>
       page.joinable \ untold = JoinableTo(p) \ untold
  /\ at \in {"incoming", "invites"} => page.outgoing = Outgoing(p)
  /\ at = "invites" => page.incoming = Incoming(p)

(* A client has no revision from the future, and if it has the current one  *)
(* and is not about to be told of a change, it has been shown everything.   *)
KnownIsRight ==
  \A p \in Pollers : known[p] # None =>
    /\ known[p].revision <= revision(p)
    /\ known[p].revision = revision(p) /\ Settled(p) =>
         Shows(known[p].page, "invites", p) /\ Waiting(p) = {}

(* The same of a poll that is putting its answer together                   *)
ReadIsRight ==
  \A p \in Pollers :
    poll[p] # None /\ poll[p].at \notin {"subscribe", "check", "wait"} =>
      /\ poll[p].revision <= revision(p)
      /\ poll[p].revision = revision(p) /\ Settled(p) =>
           Shows(poll[p].page, poll[p].at, p)

(* A restart starts all revisions over, above all that were.                *)
LEMMA RestartRevisions ==
  ASSUME Shape, NEW u \in Users, Restart
  PROVE  revision(u)' \in Nat /\ revision(u) < revision(u)'
<1>1. clock' = clock + 1 /\ revisions'[u] = None
  BY DEF Restart
<1>2. revision(u)' = clock' * SHIFT
  BY <1>1 DEF revision, EPOCH
<1>3. revision(u) < (clock + 1) * SHIFT
  BY DEF Restart
<1>4. (clock + 1) * SHIFT \in Nat
  BY WatchAssumption DEF Shape, WatchTypeOK, WatchAssumption
<1> QED  BY <1>1, <1>2, <1>3, <1>4

LEMMA OthersKnown ==
  ASSUME Shape, NEW p \in Pollers, [WatchNext]_watchVars
  PROVE  known'[p] = known[p] \/ Answer(p)
<1>1. ASSUME NEW o \in Pollers, Poll(o)
      PROVE  known'[p] = known[p] \/ (o = p /\ Answer(p))
  BY <1>1 DEF Poll, Ask, Subscribe, Check, Hear, TimeOut, HangUp, TouchAgain,
              ReadPage, Read, Answer, pollUnchanged, Shape, WatchTypeOK
<1>2. ASSUME NEW t \in Threads, Collect(t) \/ Bump(t) \/ Wake(t)
      PROVE  known' = known
  BY <1>2 DEF Collect, Bump, Wake
<1>3. ASSUME NEW h \in Handlers, Handle(h)
      PROVE  known' = known
  BY <1>3 DEF Handle, Act, Invite, LookAtActivity, ClearActivity, List,
              TakeInvites, SetActivity, TakeUp, TakeUpWrites
<1>4. Sweep \/ TellOfGone \/ Tick \/ Restart \/ UNCHANGED watchVars =>
        known' = known
  BY DEF Sweep, TellOfGone, Tick, Restart, watchVars
<1> QED  BY <1>1, <1>2, <1>3, <1>4 DEF WatchNext

LEMMA KnownStep ==
  ASSUME Shape, DraftsAreRight, KnownIsRight, ReadIsRight,
         [WatchNext]_watchVars
  PROVE  KnownIsRight'
<1> USE DEF Shape
<1> SUFFICES ASSUME NEW p \in Pollers, known'[p] # None
             PROVE  /\ known'[p].revision <= revision(p)'
                    /\ known'[p].revision = revision(p)' /\ Settled(p)' =>
                         /\ Shows(known[p].page, "invites", p)'
                         /\ Waiting(p)' = {}
  BY DEF KnownIsRight
<1>1. p \in Users /\ revision(p) \in Nat
  BY WatchAssumption, RevisionIsNumber DEF WatchAssumption
<1>2. CASE known'[p] = known[p]
  <2>1. known[p].revision \in Nat /\ known[p].revision <= revision(p)
    BY <1>2 DEF KnownIsRight, WatchTypeOK, Answers
  <2>2. CASE Restart
    BY <1>1, <1>2, <2>1, <2>2, RestartRevisions
  <2>3. CASE ~Restart
    <3>1. revision(p)' \in {revision(p), revision(p) + 1}
      BY <1>1, <2>3, RevisionsStay
    <3>2. ASSUME known'[p].revision = revision(p)', Settled(p)'
          PROVE  /\ Shows(known[p].page, "invites", p)'
                 /\ Waiting(p)' = {}
      <4>1. revision(p)' = revision(p)
        BY <1>1, <1>2, <2>1, <3>1, <3>2
      <4>2. Settled(p) /\ SameView(p)
        BY <1>1, <2>3, <3>2, <4>1, Announced
      <4>3. Shows(known[p].page, "invites", p) /\ Waiting(p) = {}
        BY <1>2, <3>2, <4>1, <4>2 DEF KnownIsRight
      <4> QED  BY <1>2, <4>2, <4>3 DEF Shows, SameView
    <3> QED  BY <1>1, <1>2, <2>1, <3>1, <3>2
  <2> QED  BY <2>2, <2>3
<1>3. CASE known'[p] # known[p]
  <2>1. Answer(p) /\ ~Restart
    BY <1>3, OthersKnown DEF Restart
  <2>2. /\ poll[p] # None /\ poll[p].at = "invites"
        /\ known'[p] = [revision |-> poll[p].revision, page |-> poll[p].page]
        /\ Waiting(p)' = {}
    <3>1. Take(p, TRUE)
      BY <1>3, <2>1 DEF Answer
    <3>2. Waiting(p)' = {}
      BY <1>1, <3>1, TakeLeaves
    <3> QED  BY <1>1, <1>3, <2>1, <3>2 DEF Answer, At, WatchTypeOK
  <2>3. revision(p)' = revision(p)
    BY <2>1 DEF Answer, revision, EPOCH
  <2>4. poll[p].revision <= revision(p)
    BY <2>2 DEF ReadIsRight
  <2>5. ASSUME known'[p].revision = revision(p)', Settled(p)'
        PROVE  Shows(known[p].page, "invites", p)'
    <3>1. Settled(p) /\ SameView(p)
      BY <1>1, <2>1, <2>3, <2>5, Announced
    <3>2. Shows(poll[p].page, "invites", p)
      BY <2>2, <2>3, <2>5, <3>1 DEF ReadIsRight
    <3> QED  BY <2>2, <3>1, <3>2 DEF Shows, SameView
  <2> QED  BY <2>2, <2>3, <2>4, <2>5
<1> QED  BY <1>2, <1>3

(* While a poll puts its answer together it reads what there is to see, or  *)
(* what it has read is not what there is, and a change of p's revision is   *)
(* on its way.                                                              *)
LEMMA OwnReads ==
  ASSUME Shape, ReadIsRight, NEW p \in Pollers, Poll(p), SameView(p), Settled(p),
         UNCHANGED untold, revision(p)' = revision(p), poll'[p] # None,
         poll'[p].at \notin {"subscribe", "check", "wait"},
         poll'[p].revision = revision(p)
  PROVE  Shows(poll[p].page, poll[p].at, p)'
<1> USE DEF Shape
<1>1. poll[p] # None => poll[p] \in Polls /\ poll[p].page \in Pages
  BY DEF WatchTypeOK, Polls
<1>2. ASSUME poll'[p].at \in {"touch", "friends"}
      PROVE  Shows(poll[p].page, poll[p].at, p)'
  BY <1>2 DEF Shows
<1>3. CASE Ask(p) \/ HangUp(p) \/ Answer(p)
  <2>1. HangUp(p) \/ Answer(p) => poll'[p] = None
    BY DEF HangUp, Answer, Move, WatchTypeOK
  <2>2. Ask(p) => poll'[p].at = "subscribe"
    BY DEF Ask, Move, WatchTypeOK
  <2> QED  BY <1>3, <2>1, <2>2
<1>4. CASE Subscribe(p) \/ Check(p) \/ Hear(p) \/ TimeOut(p) \/ TouchAgain(p)
  <2>1. poll[p] # None
    BY <1>4 DEF Subscribe, Check, Hear, TimeOut, TouchAgain, At
  <2>2. CASE Subscribe(p)
    <3>1. \/ poll'[p] = [poll[p] EXCEPT !.at = "touch", !.revision = revision(p)]
          \/ \E left : poll'[p] = [poll[p] EXCEPT !.at = "check", !.left = left]
      BY <2>2 DEF Subscribe, Move, WatchTypeOK
    <3>2. poll'[p].at \in {"touch", "check"}
      BY <1>1, <2>1, <3>1 DEF Polls
    <3> QED  BY <1>2, <3>2
  <2>3. CASE ~Subscribe(p)
    <3>1. \/ poll'[p] = [poll[p] EXCEPT !.at = "touch", !.left = 0,
                                        !.revision = revision(p)]
          \/ \E at \in {"check", "wait", "friends"} :
               poll'[p] = [poll[p] EXCEPT !.at = at]
      BY <1>4, <2>3 DEF Check, Hear, TimeOut, TouchAgain, Return, Move,
                        WatchTypeOK
    <3>2. poll'[p].at \in {"touch", "check", "wait", "friends"}
      BY <1>1, <2>1, <3>1 DEF Polls
    <3> QED  BY <1>2, <3>2
  <2> QED  BY <2>2, <2>3
<1>5. CASE ReadPage(p)
  <2>1. poll[p] # None
    BY <1>5 DEF ReadPage
  <2>2. ASSUME NEW place \in {"friends", "online", "joinable", "outgoing",
                              "incoming"},
               NEW next, NEW page, Read(p, place, next, page)
        PROVE  /\ poll[p].at = place
               /\ poll'[p].at = next /\ poll'[p].page = page
               /\ Shows(poll[p].page, place, p)
    <3>1. /\ poll[p].at = place
          /\ poll'[p] = [poll[p] EXCEPT !.at = next, !.page = page]
      BY <2>2 DEF Read, At, Move, WatchTypeOK
    <3>2. /\ poll'[p].at = next /\ poll'[p].page = page
          /\ poll'[p].revision = poll[p].revision
      BY <1>1, <2>1, <3>1 DEF Polls
    <3>3. Shows(poll[p].page, poll[p].at, p)
      BY <2>1, <2>2, <3>1, <3>2 DEF ReadIsRight
    <3> QED  BY <3>1, <3>2, <3>3
  <2> DEFINE page == poll[p].page
  <2>3. page \in Pages
    BY <1>1, <2>1
  <2>4. CASE Read(p, "friends", "online", [page EXCEPT !.friends = FriendsOf(p),
                                                      !.mutual = Mutual(p)])
    <3>1. /\ poll'[p].at = "online"
          /\ poll'[p].page = [page EXCEPT !.friends = FriendsOf(p),
                                          !.mutual = Mutual(p)]
      BY <2>2, <2>4
    <3>2. /\ poll'[p].page.friends = FriendsOf(p)
          /\ poll'[p].page.mutual = Mutual(p)
      BY <2>3, <3>1 DEF Pages
    <3> QED  BY <3>1, <3>2 DEF Shows, SameView
  <2>5. CASE Read(p, "online", "joinable",
                  [page EXCEPT !.online = {f \in page.mutual : Online(f)}])
    <3> DEFINE online == {f \in page.mutual : Online(f)}
    <3>1. /\ poll'[p].at = "joinable"
          /\ poll'[p].page = [page EXCEPT !.online = online]
          /\ Shows(page, "online", p)
      BY <2>2, <2>5
    <3>2. page.friends = FriendsOf(p) /\ page.mutual = Mutual(p)
      BY <3>1 DEF Shows
    <3>3. online = OnlineTo(p)
      BY <3>2 DEF OnlineTo
    <3>4. /\ poll'[p].page.friends = page.friends
          /\ poll'[p].page.mutual = page.mutual
          /\ poll'[p].page.online = online
      BY <2>3, <3>1 DEF Pages
    <3> QED  BY <3>1, <3>2, <3>3, <3>4 DEF Shows, SameView
  <2>6. CASE Read(p, "joinable", "outgoing",
                  [page EXCEPT !.joinable = {f \in page.online :
                                               activity[f] # None}])
    <3> DEFINE joinable == {f \in page.online : activity[f] # None}
    <3>1. /\ poll'[p].at = "outgoing"
          /\ poll'[p].page = [page EXCEPT !.joinable = joinable]
          /\ Shows(page, "joinable", p)
      BY <2>2, <2>6
    <3>2. /\ page.friends = FriendsOf(p) /\ page.mutual = Mutual(p)
          /\ page.online = OnlineTo(p)
      BY <3>1 DEF Shows
    <3>3. joinable = JoinableTo(p)
      BY <3>2 DEF OnlineTo, JoinableTo
    <3>4. /\ poll'[p].page.friends = page.friends
          /\ poll'[p].page.mutual = page.mutual
          /\ poll'[p].page.online = page.online
          /\ poll'[p].page.joinable = joinable
      BY <2>3, <3>1 DEF Pages
    <3> QED  BY <3>1, <3>2, <3>3, <3>4 DEF Shows, SameView
  <2>7. CASE Read(p, "outgoing", "incoming", [page EXCEPT !.outgoing = Outgoing(p)])
    <3>1. /\ poll'[p].at = "incoming"
          /\ poll'[p].page = [page EXCEPT !.outgoing = Outgoing(p)]
          /\ Shows(page, "outgoing", p)
      BY <2>2, <2>7
    <3>2. /\ poll'[p].page.friends = page.friends
          /\ poll'[p].page.mutual = page.mutual
          /\ poll'[p].page.online = page.online
          /\ poll'[p].page.joinable = page.joinable
          /\ poll'[p].page.outgoing = Outgoing(p)
      BY <2>3, <3>1 DEF Pages
    <3> QED  BY <3>1, <3>2 DEF Shows, SameView
  <2>8. CASE Read(p, "incoming", "invites", [page EXCEPT !.incoming = Incoming(p)])
    <3>1. /\ poll'[p].at = "invites"
          /\ poll'[p].page = [page EXCEPT !.incoming = Incoming(p)]
          /\ Shows(page, "incoming", p)
      BY <2>2, <2>8
    <3>2. /\ poll'[p].page.friends = page.friends
          /\ poll'[p].page.mutual = page.mutual
          /\ poll'[p].page.online = page.online
          /\ poll'[p].page.joinable = page.joinable
          /\ poll'[p].page.outgoing = page.outgoing
          /\ poll'[p].page.incoming = Incoming(p)
      BY <2>3, <3>1 DEF Pages
    <3> QED  BY <3>1, <3>2 DEF Shows, SameView
  <2> QED  BY <1>5, <2>4, <2>5, <2>6, <2>7, <2>8 DEF ReadPage
<1> QED  BY <1>3, <1>4, <1>5 DEF Poll

(* A poll's own steps keep its revision, or take the current one.           *)
LEMMA OwnRevision ==
  ASSUME Shape, ReadIsRight, NEW p \in Pollers, Poll(p), poll'[p] # None,
         poll'[p].at \notin {"subscribe", "check", "wait"}
  PROVE  poll'[p].revision <= revision(p)
<1> USE DEF Shape
<1>1. revision(p) \in Nat
  BY RevisionIsNumber, WatchAssumption DEF WatchAssumption
<1>2. poll[p] # None => poll[p] \in Polls
  BY DEF WatchTypeOK
<1>3. CASE Ask(p) \/ HangUp(p) \/ Answer(p)
  <2>1. HangUp(p) \/ Answer(p) => poll'[p] = None
    BY DEF HangUp, Answer, Move, WatchTypeOK
  <2>2. Ask(p) => poll'[p].at = "subscribe"
    BY DEF Ask, Move, WatchTypeOK
  <2> QED  BY <1>3, <2>1, <2>2
<1>4. CASE Subscribe(p)
  <2>1. poll[p] # None
    BY <1>4 DEF Subscribe, At
  <2>2. \/ poll'[p] = [poll[p] EXCEPT !.at = "touch", !.revision = revision(p)]
        \/ \E left : poll'[p] = [poll[p] EXCEPT !.at = "check", !.left = left]
    BY <1>4 DEF Subscribe, Move, WatchTypeOK
  <2>3. poll'[p].revision = revision(p) \/ poll'[p].at = "check"
    BY <1>2, <2>1, <2>2 DEF Polls
  <2> QED  BY <1>1, <2>3
<1>5. CASE Check(p) \/ Hear(p) \/ TimeOut(p)
  <2>1. poll[p] # None
    BY <1>5 DEF Check, Hear, TimeOut, At
  <2>2. \/ poll'[p] = [poll[p] EXCEPT !.at = "touch", !.left = 0,
                                      !.revision = revision(p)]
        \/ \E at \in {"check", "wait"} : poll'[p] = [poll[p] EXCEPT !.at = at]
    BY <1>5 DEF Check, Hear, TimeOut, Return, Move, WatchTypeOK
  <2>3. poll'[p].revision = revision(p) \/ poll'[p].at \in {"check", "wait"}
    BY <1>2, <2>1, <2>2 DEF Polls
  <2> QED  BY <1>1, <2>3
<1>6. CASE TouchAgain(p)
  <2>1. /\ poll[p] # None /\ poll[p].at = "touch"
        /\ poll'[p] = [poll[p] EXCEPT !.at = "friends"]
    BY <1>6 DEF TouchAgain, At, Move, WatchTypeOK
  <2>2. poll'[p].revision = poll[p].revision
    BY <1>2, <2>1 DEF Polls
  <2> QED  BY <2>1, <2>2 DEF ReadIsRight
<1>7. CASE ReadPage(p)
  <2>1. PICK place \in {"friends", "online", "joinable", "outgoing", "incoming"},
             next \in {"online", "joinable", "outgoing", "incoming", "invites"} :
          \E page : Read(p, place, next, page)
    BY <1>7 DEF ReadPage
  <2>2. PICK page : poll'[p] = [poll[p] EXCEPT !.at = next, !.page = page]
    BY <2>1 DEF Read, Move, WatchTypeOK
  <2>3. poll[p] # None /\ poll[p].at = place
    BY <2>1 DEF Read, At
  <2>4. poll'[p].revision = poll[p].revision
    BY <1>2, <2>2, <2>3 DEF Polls
  <2> QED  BY <2>3, <2>4 DEF ReadIsRight
<1> QED  BY <1>3, <1>4, <1>5, <1>6, <1>7 DEF Poll

LEMMA ReadStep ==
  ASSUME Shape, Shape', DraftsAreRight, ReadIsRight, [WatchNext]_watchVars
  PROVE  ReadIsRight'
<1> SUFFICES ASSUME NEW p \in Pollers, poll'[p] # None,
                    poll'[p].at \notin {"subscribe", "check", "wait"}
             PROVE  /\ poll'[p].revision <= revision(p)'
                    /\ poll'[p].revision = revision(p)' /\ Settled(p)' =>
                         Shows(poll[p].page, poll[p].at, p)'
  BY DEF ReadIsRight
<1> USE DEF Shape
<1>1. p \in Users /\ revision(p) \in Nat
  BY WatchAssumption, RevisionIsNumber DEF WatchAssumption
<1>2. poll'[p].revision \in Nat
  <2>1. poll'[p] \in Polls /\ poll'[p].revision # None
    BY DEF WatchTypeOK, PollsKnowRevisions
  <2> QED  BY <2>1 DEF Polls
<1>3. ~Restart
  BY DEF Restart
<1>4. ~Tick
  <2>1. ASSUME Tick
        PROVE  FALSE
    <3>1. /\ poll[p] # None /\ poll[p].at = "wait"
          /\ poll'[p] = [poll[p] EXCEPT !.left = @ - 1]
      BY <2>1 DEF Tick
    <3>2. poll'[p].at = "wait"
      BY <3>1 DEF WatchTypeOK, Polls
    <3> QED  BY <3>2
  <2> QED  BY <2>1
<1>5. revision(p)' \in {revision(p), revision(p) + 1}
  BY <1>1, <1>3, RevisionsStay
<1>6. poll'[p].revision <= revision(p)
  <2>1. CASE poll'[p] = poll[p]
    BY <2>1 DEF ReadIsRight
  <2>2. CASE Poll(p)
    BY <2>2, OwnRevision
  <2> QED  BY <1>3, <1>4, <2>1, <2>2, OthersPoll
<1>7. ASSUME poll'[p].revision = revision(p)', Settled(p)'
      PROVE  Shows(poll[p].page, poll[p].at, p)'
  <2>1. revision(p)' = revision(p)
    BY <1>1, <1>2, <1>5, <1>6, <1>7
  <2>2. Settled(p) /\ SameView(p)
    BY <1>1, <1>3, <1>7, <2>1, Announced
  <2>3. CASE poll'[p] = poll[p]
    <3>1. Shows(poll[p].page, poll[p].at, p)
      BY <1>7, <2>1, <2>2, <2>3 DEF ReadIsRight
    <3> QED  BY <2>2, <2>3, <3>1 DEF Shows, SameView
  <2>4. CASE Poll(p)
    <3>1. untold' = untold
      BY <2>4 DEF Poll, Ask, Subscribe, Check, Hear, TimeOut, HangUp, TouchAgain,
                  ReadPage, Read, Answer, pollUnchanged
    <3> QED  BY <1>7, <2>1, <2>2, <2>4, <3>1, OwnReads
  <2> QED  BY <1>3, <1>4, <2>3, <2>4, OthersPoll
<1> QED  BY <1>1, <1>2, <1>5, <1>6, <1>7

-----------------------------------------------------------------------------
(* The invariant, and what follows from it                                  *)

WatchInv == /\ FriendsInv /\ Shape
            /\ PollsAreFresh /\ SleepersAreWoken
            /\ DraftsAreRight /\ KnownIsRight /\ ReadIsRight

LEMMA WatchInvKept == WatchSpec => []WatchInv
<1>1. WatchInit => /\ PollsAreFresh /\ SleepersAreWoken
                   /\ DraftsAreRight /\ KnownIsRight /\ ReadIsRight
  BY DEF WatchInit, PollsAreFresh, SleepersAreWoken, DraftsAreRight,
         KnownIsRight, ReadIsRight
<1>2. FriendsInv /\ Shape /\ PollsAreFresh /\ SleepersAreWoken
        /\ DraftsAreRight /\ KnownIsRight /\ ReadIsRight
        /\ Shape' /\ [WatchNext]_watchVars
      => /\ PollsAreFresh' /\ SleepersAreWoken'
         /\ DraftsAreRight' /\ KnownIsRight' /\ ReadIsRight'
  BY FreshStep, SleepersStep, DraftsStep, KnownStep, ReadStep
<1> QED  BY <1>1, <1>2, ShapeKept, PTL DEF WatchSpec, WatchInv

(* Rows, jobs, drafts, polls and answers are what the code takes them for,  *)
(* whatever the handlers, polls, sweeper and restarts do to each other.     *)
THEOREM SocialWatchTypeOK == WatchSpec => []WatchTypeOK
<1>1. WatchInv => WatchTypeOK
  BY DEF WatchInv, Shape
<1> QED  BY <1>1, WatchInvKept, PTL

(* A client whose poll waits in changed_since is online to its friends:     *)
(* the cap of MAX_WAIT on its wait keeps it below ONLINE_FOR.               *)
THEOREM WaitersAreOnline == WatchSpec => []WaitingMeansOnline
<1>1. WatchInv => WaitingMeansOnline
  <2> SUFFICES ASSUME WatchInv, NEW p \in Pollers, poll[p] # None,
                      poll[p].at \in {"check", "wait"}
               PROVE  Online(p)
    BY DEF WaitingMeansOnline
  <2> USE WatchAssumption DEF WatchAssumption, WatchInv, Shape, WatchTypeOK
  <2>1. seen[p] # None /\ seen[p] + poll[p].left <= MAX_WAIT
    BY DEF PollsAreFresh
  <2>2. seen[p] \in Nat /\ poll[p].left \in Nat
    <3>1. poll[p] \in Polls /\ seen[p] \in 0..ONLINE_FOR
      BY <2>1
    <3> QED  BY <3>1 DEF Polls
  <2> QED  BY <2>1, <2>2 DEF Online
<1> QED  BY <1>1, WatchInvKept, PTL

(* changed_since subscribes to TICK before it looks at the revision, and    *)
(* bump raises the revision before it sends on TICK: no poll sleeps over a  *)
(* change whose TICK is past.                                               *)
THEOREM NoPollSleepsThrough == WatchSpec => []NoMissedWakeUp
<1>1. WatchInv => NoMissedWakeUp
  BY DEF WatchInv, SleepersAreWoken, NoMissedWakeUp
<1> QED  BY <1>1, WatchInvKept, PTL

(* Whatever requests and polls cross and however often the server restarts: *)
(* once all is quiet, a client that knows its current revision has been     *)
(* shown the page as it is, except for those of whom a change may have gone *)
(* untold, and has got every invite that waits for it, even if the code     *)
(* went on after a write that failed.                                       *)
THEOREM CurrentMeansShown == WatchSpec => []QuietMeansCurrent
<1>1. WatchInv => QuietMeansCurrent
  <2> SUFFICES ASSUME WatchInv, Between, Expired = {}, NEW p \in Pollers,
                      p \notin untold, known[p] # None,
                      known[p].revision = revision(p)
               PROVE  /\ [known[p].page EXCEPT !.joinable = @ \ untold]
                           = [Page(p) EXCEPT !.joinable = @ \ untold]
                      /\ Waiting(p) = {}
    BY DEF QuietMeansCurrent
  <2> DEFINE page == known[p].page
  <2>1. Settled(p)
    BY DEF Settled, Noted, JobNotes, Between
  <2>2. Shows(page, "invites", p) /\ Waiting(p) = {}
    BY <2>1 DEF WatchInv, KnownIsRight
  <2>3. page \in Pages
    BY DEF WatchInv, Shape, WatchTypeOK, Answers
  <2>4. [page EXCEPT !.joinable = @ \ untold] =
          [friends |-> page.friends, mutual |-> page.mutual,
           online |-> page.online, joinable |-> page.joinable \ untold,
           outgoing |-> page.outgoing, incoming |-> page.incoming]
    BY <2>3 DEF Pages
  <2>5. Page(p) = [friends |-> FriendsOf(p), mutual |-> Mutual(p),
                   online |-> OnlineTo(p), joinable |-> JoinableTo(p),
                   outgoing |-> Outgoing(p), incoming |-> Incoming(p)]
    <3>1. JoinableTo(p) = {f \in OnlineTo(p) : activity[f] # None}
      BY DEF JoinableTo, OnlineTo
    <3> QED  BY <3>1 DEF Page, OnlineTo
  <2>6. [Page(p) EXCEPT !.joinable = @ \ untold] =
          [friends |-> FriendsOf(p), mutual |-> Mutual(p),
           online |-> OnlineTo(p), joinable |-> JoinableTo(p) \ untold,
           outgoing |-> Outgoing(p), incoming |-> Incoming(p)]
    BY <2>5
  <2> QED  BY <2>2, <2>4, <2>6 DEF Shows
<1> QED  BY <1>1, WatchInvKept, PTL

(* The same of the friend tables, under requests that cross each other and  *)
(* restarts in the middle of an operation: a friendship has been agreed to, *)
(* is mutual unless an accept broke off, and no two requests cross.         *)
THEOREM ServedFriendsStayAgreed ==
  WatchSpec => [](FriendsAgreed /\ OneSidedOnlyAfterBreak /\ NoCrossedRequests)
<1>1. WatchInv => FriendsAgreed /\ OneSidedOnlyAfterBreak /\ NoCrossedRequests
  BY DEF WatchInv, FriendsInv
<1> QED  BY <1>1, WatchInvKept, PTL

-----------------------------------------------------------------------------
(* What holds of friends.rs by itself                                       *)

LEMMA FriendsAlone == Spec => []FriendsInv
  BY FriendsInit, FriendsStep, PTL DEF Spec

(* Rows relate two different users, in all three operations.                *)
THEOREM FriendshipsTypeOK == Spec => []TypeOK
<1>1. FriendsInv => TypeOK
  BY DEF FriendsInv
<1> QED  BY FriendsAlone, <1>1, PTL

(* Nobody gets a friend in friends.rs without both having asked for it,     *)
(* whatever fails, except after a failure the code ignored.                 *)
THEOREM FriendsHaveAgreed == Spec => []FriendsAgreed
<1>1. FriendsInv => FriendsAgreed
  BY DEF FriendsInv
<1> QED  BY FriendsAlone, <1>1, PTL

(* A friendship is mutual unless accept_locked broke off between its two    *)
(* INSERTs and nobody has accepted or removed the other since.              *)
THEOREM FriendshipsAreMutual == Spec => []OneSidedOnlyAfterBreak
<1>1. FriendsInv => OneSidedOnlyAfterBreak
  BY DEF FriendsInv
<1> QED  BY FriendsAlone, <1>1, PTL

(* request never leaves two users waiting for each other.                   *)
THEOREM RequestsNeverCross == Spec => []NoCrossedRequests
<1>1. FriendsInv => NoCrossedRequests
  BY DEF FriendsInv
<1> QED  BY FriendsAlone, <1>1, PTL
=============================================================================
