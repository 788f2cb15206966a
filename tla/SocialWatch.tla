----------------------------- MODULE SocialWatch -----------------------------
(***************************************************************************)
(* The friends page of dw-server's social service: clients poll it with the *)
(* revision they know, and are answered when their revision changes or      *)
(* after MAX_WAIT.  Whatever changes what a client would see first changes  *)
(* the database or SEEN and then, in later steps, finds out whose revisions *)
(* to bump, bumps them and wakes all waiting polls through TICK.            *)
(*                                                                         *)
(* Source: watch.rs, activity.rs and routes.rs of dw-server/src/social; the *)
(* tables friend and friend_request and their operations are Friendships.   *)
(* Each step is one critical section (SOCIAL_DB, REVISIONS, SEEN or TICK).  *)
(*                                                                         *)
(* Time passes in units of which ONLINE_FOR (45 s) has more than MAX_WAIT   *)
(* (30 s), and only when no thread is between two steps: none is assumed to *)
(* take that long.                                                          *)
(***************************************************************************)
EXTENDS Friendships, FiniteSets

CONSTANTS
  Pollers,      \* users whose clients poll: one poll of each at a time
  Handlers,     \* threads that serve the requests that change something
  Sessions,     \* connection strings
  ONLINE_FOR, MAX_WAIT,  \* in units of time
  Waits,        \* how long clients ask to wait
  SHIFT,        \* revisions to a millisecond: 1 << 16
  MaxEvents,    \* bound: requests that change something, and restarts;
                \* a request that fails to write a friendship counts twice
  MaxTicks,     \* bound: units of time that pass
  MaxBoth,      \* bound: events and units of time together
  None

(* What a thread, a handler and a poll can be in the middle of, and what a  *)
(* client knows                                                             *)
Jobs == [at : {"friends", "incoming", "outgoing", "bump", "tick"},
         of : Users \cup {None}, users : SUBSET Users]
Drafts == [user : Users, session : Sessions, changed : BOOLEAN]
Pages == [friends : SUBSET Users, mutual : SUBSET Users,
          online : SUBSET Users, joinable : SUBSET Users,
          outgoing : SUBSET Users, incoming : SUBSET Users]
Polls == [at : {"subscribe", "check", "wait", "touch", "friends", "online",
                "joinable", "outgoing", "incoming", "invites"},
          left : Nat, revision : Nat \cup {None}, since : Nat \cup {None},
          page : Pages]
Answers == [revision : Nat, page : Pages]

ASSUME WatchAssumption ==
  /\ Pollers \subseteq Users
  /\ {ONLINE_FOR, MAX_WAIT, SHIFT, MaxEvents, MaxTicks, MaxBoth}
       \subseteq Nat
  /\ Waits \subseteq Nat
  /\ MAX_WAIT < ONLINE_FOR
  /\ Handlers \cap Pollers = {} /\ "sweeper" \notin Handlers \cup Pollers
  /\ None \notin Nat /\ None \notin Jobs /\ None \notin Drafts
  /\ None \notin Polls /\ None \notin Answers

VARIABLES
  activity,   \* user -> connection string, or None
  invite,     \* user -> the users whose invites wait for it
  handed,     \* history: user -> those of them whose invites its client has
              \* got and whose DELETE failed
  seen,       \* SEEN: user -> how long ago, up to ONLINE_FOR, or None
  revisions,  \* REVISIONS: user -> revision, or None
  clock,      \* the time at which this server's EPOCH was taken
  job,        \* thread -> the bump it is in the middle of, or None
  draft,      \* handler -> the activity it is about to write, or None
  gone,       \* users the sweeper has removed and not yet told of
  poll,       \* poller -> its request in progress, or None
  unheard,    \* polls whose receiver has a TICK it has not seen
  known,      \* poller -> the last answer its client got, or None
  untold,     \* history: users of whom a change may have gone unannounced:
              \* see NoteCrossing and Act
  events, ticks  \* counted against their bounds

friendVars == vars  \* of Friendships
dbVars == <<friendVars, activity, invite, handed>>
bumpVars == <<revisions, unheard>>
countVars == <<events, ticks>>
watchVars == <<dbVars, seen, revisions, clock, job, draft, gone, poll, unheard,
               known, untold, countVars>>

Threads == Handlers \cup Pollers \cup {"sweeper"}

-----------------------------------------------------------------------------
(* What the tables and maps say                                             *)

EPOCH == clock * SHIFT

revision(u) == IF revisions[u] = None THEN EPOCH ELSE revisions[u]

Online(u) == seen[u] # None /\ seen[u] < ONLINE_FOR

FriendsOf(u) == {f \in Users : <<u, f>> \in friend}
Incoming(u) == {f \in Users : <<f, u>> \in request}
Outgoing(u) == {f \in Users : <<u, f>> \in request}
Mutual(u) == {f \in FriendsOf(u) : <<f, u>> \in friend}

(* What the page shows u: of its friends, which are mutual, and of those    *)
(* which are online, and of those which can be joined                       *)
Page(u) ==
  LET online == {f \in Mutual(u) : Online(f)}
  IN  [friends |-> FriendsOf(u), mutual |-> Mutual(u), online |-> online,
       joinable |-> {f \in online : activity[f] # None},
       outgoing |-> Outgoing(u), incoming |-> Incoming(u)]

-----------------------------------------------------------------------------
(* bump_watchers_of and bump, as a job of the thread that calls them        *)

Watchers(u) == [at |-> "friends", of |-> u, users |-> {}]
BumpJob(users) == [at |-> "bump", of |-> None, users |-> users]

Start(t, j) == job' = [job EXCEPT ![t] = j]

(* watchers_of: three queries                                               *)
CollectFriends(t) == /\ job[t] # None
                     /\ job[t].at = "friends"
                     /\ Start(t, [job[t] EXCEPT !.at = "incoming",
                                                !.users = FriendsOf(job[t].of)])

CollectIncoming(t) == /\ job[t] # None
                      /\ job[t].at = "incoming"
                      /\ Start(t, [job[t] EXCEPT !.at = "outgoing",
                                     !.users = @ \cup Incoming(job[t].of)])

CollectOutgoing(t) ==
  /\ job[t] # None
  /\ job[t].at = "outgoing"
  /\ LET users == job[t].users \cup Outgoing(job[t].of)
     IN  Start(t, IF users = {} THEN None ELSE BumpJob(users))

Collect(t) == /\ CollectFriends(t) \/ CollectIncoming(t) \/ CollectOutgoing(t)
              /\ UNCHANGED <<dbVars, seen, bumpVars, clock, draft, gone, poll,
                             known, untold, countVars>>

(* MUTANT *)
BumpQuietly(t) ==
  /\ job[t] # None
  /\ job[t].at = "bump"
  /\ revisions' = [u \in Users |-> IF u \in job[t].users THEN revision(u) + 1
                                   ELSE revisions[u]]
  /\ Start(t, None)
  /\ UNCHANGED <<dbVars, seen, clock, draft, gone, poll, unheard, known,
                 untold, countVars>>

(* bump: the revisions under their lock ...                                 *)
Bump(t) ==
  /\ job[t] # None
  /\ job[t].at = "bump"
  /\ revisions' = [u \in Users |-> IF u \in job[t].users THEN revision(u) + 1
                                   ELSE revisions[u]]
  /\ Start(t, [job[t] EXCEPT !.at = "tick"])
  /\ UNCHANGED <<dbVars, seen, clock, draft, gone, poll, unheard, known,
                 untold, countVars>>

Subscribed == {p \in Pollers : /\ poll[p] # None
                               /\ poll[p].at \in {"check", "wait"}}

(* ... and then TICK, which every receiver hears                            *)
Wake(t) ==
  /\ job[t] # None
  /\ job[t].at = "tick"
  /\ unheard' = unheard \cup Subscribed
  /\ Start(t, None)
  /\ UNCHANGED <<dbVars, seen, revisions, clock, draft, gone, poll, known,
                 untold, countVars>>

(* touch: SEEN, and a bump if the user was not online                       *)
Touch(t, u) == /\ seen' = [seen EXCEPT ![u] = 0]
               /\ IF Online(u) THEN UNCHANGED job ELSE Start(t, Watchers(u))

-----------------------------------------------------------------------------
(* Requests that change something, each on a handler's thread               *)

Free(h) == job[h] = None /\ draft[h] = None

Count(n) == /\ events + n <= MaxEvents
            /\ events + n + ticks <= MaxBoth
            /\ events' = events + n

TakeUpWrites(h, done) ==
  /\ Free(h)
  /\ Count(IF done = AllDone THEN 1 ELSE 2)
  /\ UNCHANGED <<revisions, clock, gone, poll, unheard, known,
                 ticks>>

TakeUp(h) == TakeUpWrites(h, AllDone)

Tell(h, users, done, succeeds) ==
  IF succeeds THEN Start(h, BumpJob(users)) /\ UNCHANGED untold
  ELSE /\ untold' = IF done[1] \/ done[2] THEN untold \cup users ELSE untold
       /\ UNCHANGED job

(* act, for request, accept and remove: both are told if it succeeded.  An  *)
(* accept that fails after its first write has changed the tables too, and  *)
(* nobody is told                                                           *)
Act(h, user, other) ==
  /\ UNCHANGED <<activity, invite, handed, seen, draft>>
  /\ \E done \in Outcomes :
       /\ TakeUpWrites(h, done)
       /\ \/ /\ Request(user, other, done)
             /\ Tell(h, {user, other}, done,
                     IF <<other, user>> \in request THEN SaysFriends(done)
                     ELSE done[1])
          \/ /\ Accept(user, other, done)
             /\ Tell(h, {user, other}, done, SaysFriends(done))
          \/ /\ Remove(user, other, done, TRUE)
             /\ Tell(h, {user, other}, done, TRUE)

(* set_activity looks whether the connection string is a new one ...        *)
LookAtActivity(h, u, session) ==
  /\ TakeUp(h)
  /\ draft' = [draft EXCEPT ![h] = [user |-> u, session |-> session,
                                    changed |-> activity[u] # session]]
  /\ UNCHANGED <<dbVars, seen, job, untold>>

Crosses(h, u) == \E i \in Handlers \ {h} : /\ draft[i] # None
                                           /\ draft[i].user = u

(* The other handler compares with an activity that is no longer there      *)
NoteCrossing(h, u) ==
  untold' = IF Crosses(h, u) THEN untold \cup {u} ELSE untold

(* ... and writes it, telling the watchers if it was new when it looked,    *)
(* also if the write fails                                                  *)
SetActivity(h) ==
  /\ draft[h] # None
  /\ \/ /\ activity' = [activity EXCEPT ![draft[h].user] = draft[h].session]
        /\ NoteCrossing(h, draft[h].user)
     \/ UNCHANGED <<activity, untold>>
  /\ IF draft[h].changed THEN Start(h, Watchers(draft[h].user))
     ELSE UNCHANGED job
  /\ draft' = [draft EXCEPT ![h] = None]
  /\ UNCHANGED <<friendVars, invite, handed, seen, bumpVars, clock, gone, poll,
                 known, countVars>>

(* A DELETE that fails clears nothing, and nobody is told                   *)
ClearActivity(h, u) ==
  /\ TakeUp(h)
  /\ \/ /\ activity' = [activity EXCEPT ![u] = None]
        /\ NoteCrossing(h, u)
        /\ IF activity[u] # None THEN Start(h, Watchers(u)) ELSE UNCHANGED job
     \/ UNCHANGED <<activity, untold, job>>
  /\ UNCHANGED <<friendVars, invite, handed, seen, draft>>

(* An invite of a user whose invite waits already replaces it; the invited  *)
(* is told, also if the write fails                                         *)
Invite(h, from, to) ==
  /\ TakeUp(h)
  /\ \/ /\ invite' = [invite EXCEPT ![to] = @ \cup {from}]
        /\ handed' = [handed EXCEPT ![to] = @ \ {from}]
     \/ UNCHANGED <<invite, handed>>
  /\ Start(h, BumpJob({to}))
  /\ UNCHANGED <<friendVars, activity, seen, draft, untold>>

(* GET friends only touches, GET invites only takes the invites             *)
List(h, u) == /\ TakeUp(h)
              /\ Touch(h, u)
              /\ UNCHANGED <<dbVars, draft, untold>>

(* take_invites: the invites, in an answer that may not reach the client,   *)
(* and their DELETE, whose failure is ignored: they are there the next time *)
Take(u, arrives) ==
  \/ /\ invite' = [invite EXCEPT ![u] = {}]
     /\ handed' = [handed EXCEPT ![u] = {}]
  \/ /\ handed' = IF arrives THEN [handed EXCEPT ![u] = invite[u]] ELSE handed
     /\ UNCHANGED invite

TakeInvites(h, u) ==
  /\ TakeUp(h)
  /\ \E arrives \in BOOLEAN : Take(u, arrives)
  /\ UNCHANGED <<friendVars, activity, seen, job, draft, untold>>

Handle(h) == \/ \E u, v \in Users : Act(h, u, v) \/ (u # v /\ Invite(h, u, v))
             \/ \E u \in Users :
                  \/ \E session \in Sessions : LookAtActivity(h, u, session)
                  \/ ClearActivity(h, u) \/ List(h, u) \/ TakeInvites(h, u)
             \/ SetActivity(h)

-----------------------------------------------------------------------------
(* social: a poll                                                           *)

Nothing == [friends |-> {}, mutual |-> {}, online |-> {}, joinable |-> {},
            outgoing |-> {}, incoming |-> {}]

At(p, place) == /\ poll[p] # None
                /\ poll[p].at = place
                /\ job[p] = None

pollUnchanged == <<dbVars, revisions, clock, draft, gone, known, untold,
                   countVars>>

Move(p, q) == poll' = [poll EXCEPT ![p] = q]

Ask(p) == /\ poll[p] = None
          /\ job[p] = None
          /\ Touch(p, p)
          /\ Move(p, [at |-> "subscribe", left |-> 0, revision |-> None,
                      since |-> IF known[p] = None THEN None
                                ELSE known[p].revision,
                      page |-> Nothing])
          /\ UNCHANGED <<pollUnchanged, unheard>>

(* MUTANT *)
SubscribeUncapped(p) ==
  /\ At(p, "subscribe")
  /\ \/ /\ poll[p].since = None
        /\ Move(p, [poll[p] EXCEPT !.at = "touch", !.revision = revision(p)])
        /\ UNCHANGED unheard
     \/ /\ poll[p].since # None
        /\ \E wait \in Waits :
             Move(p, [poll[p] EXCEPT !.at = "check", !.left = wait])
        /\ unheard' = unheard \ {p}
  /\ UNCHANGED <<pollUnchanged, seen, job>>

(* changed_since: without a revision to compare with it does not wait       *)
Subscribe(p) ==
  /\ At(p, "subscribe")
  /\ \/ /\ poll[p].since = None
        /\ Move(p, [poll[p] EXCEPT !.at = "touch", !.revision = revision(p)])
        /\ UNCHANGED unheard
     \/ /\ poll[p].since # None
        /\ \E wait \in Waits :
             Move(p, [poll[p] EXCEPT !.at = "check",
                         !.left = IF wait < MAX_WAIT THEN wait ELSE MAX_WAIT])
        /\ unheard' = unheard \ {p}
  /\ UNCHANGED <<pollUnchanged, seen, job>>

(* It returns with the revision it finds, and its receiver is dropped       *)
Return(p) ==
  /\ Move(p, [poll[p] EXCEPT !.at = "touch", !.left = 0,
                              !.revision = revision(p)])
  /\ unheard' = unheard \ {p}

Check(p) == /\ At(p, "check")
            /\ \/ revision(p) # poll[p].since /\ Return(p)
               \/ /\ revision(p) = poll[p].since
                  /\ Move(p, [poll[p] EXCEPT !.at = "wait"])
                  /\ UNCHANGED unheard
            /\ UNCHANGED <<pollUnchanged, seen, job>>

Hear(p) == /\ At(p, "wait")
           /\ p \in unheard
           /\ unheard' = unheard \ {p}
           /\ Move(p, [poll[p] EXCEPT !.at = "check"])
           /\ UNCHANGED <<pollUnchanged, seen, job>>

TimeOut(p) == /\ At(p, "wait")
              /\ poll[p].left = 0
              /\ Return(p)
              /\ UNCHANGED <<pollUnchanged, seen, job>>

(* The client hangs up: the request is dropped where it waits               *)
HangUp(p) == /\ At(p, "wait")
             /\ Move(p, None)
             /\ unheard' = unheard \ {p}
             /\ UNCHANGED <<pollUnchanged, seen, job>>

TouchAgain(p) == /\ At(p, "touch")
                 /\ Touch(p, p)
                 /\ Move(p, [poll[p] EXCEPT !.at = "friends"])
                 /\ UNCHANGED <<pollUnchanged, unheard>>

(* The page is put together from separate reads                             *)
Read(p, place, next, page) ==
  /\ At(p, place)
  /\ Move(p, [poll[p] EXCEPT !.at = next, !.page = page])
  /\ UNCHANGED <<pollUnchanged, seen, job, unheard>>

ReadPage(p) ==
  /\ poll[p] # None
  /\ LET page == poll[p].page IN
     \/ Read(p, "friends", "online", [page EXCEPT !.friends = FriendsOf(p),
                                                  !.mutual = Mutual(p)])
     \/ Read(p, "online", "joinable",
             [page EXCEPT !.online = {f \in page.mutual : Online(f)}])
     \/ Read(p, "joinable", "outgoing",
             [page EXCEPT !.joinable = {f \in page.online :
                                          activity[f] # None}])
     \/ Read(p, "outgoing", "incoming", [page EXCEPT !.outgoing = Outgoing(p)])
     \/ Read(p, "incoming", "invites", [page EXCEPT !.incoming = Incoming(p)])

(* MUTANT *)
AnswerWithNewest(p) ==
  /\ At(p, "invites")
  /\ \/ /\ known' = [known EXCEPT ![p] = [revision |-> revision(p),
                                          page |-> poll[p].page]]
        /\ Take(p, TRUE)
     \/ UNCHANGED known /\ Take(p, FALSE)
  /\ Move(p, None)
  /\ UNCHANGED <<friendVars, activity, seen, revisions, clock, job, draft,
                 gone, unheard, untold, countVars>>

(* The answer may not reach the client any more                             *)
Answer(p) ==
  /\ At(p, "invites")
  /\ \/ /\ known' = [known EXCEPT ![p] = [revision |-> poll[p].revision,
                                          page |-> poll[p].page]]
        /\ Take(p, TRUE)
     \/ UNCHANGED known /\ Take(p, FALSE)
  /\ Move(p, None)
  /\ UNCHANGED <<friendVars, activity, seen, revisions, clock, job, draft,
                 gone, unheard, untold, countVars>>

Poll(p) == \/ Ask(p) \/ Subscribe(p) \/ Check(p) \/ Hear(p) \/ TimeOut(p)
           \/ HangUp(p) \/ TouchAgain(p) \/ ReadPage(p) \/ Answer(p)

-----------------------------------------------------------------------------
(* Sweeper, time and restarts                                               *)

Expired == {u \in Users : seen[u] = ONLINE_FOR}

Sweep == /\ gone = {} /\ job["sweeper"] = None
         /\ Expired # {}
         /\ seen' = [u \in Users |-> IF u \in Expired THEN None ELSE seen[u]]
         /\ gone' = Expired
         /\ UNCHANGED <<dbVars, bumpVars, clock, job, draft, poll, known,
                        untold, countVars>>

TellOfGone == /\ job["sweeper"] = None
              /\ \E u \in gone : /\ Start("sweeper", Watchers(u))
                                 /\ gone' = gone \ {u}
              /\ UNCHANGED <<dbVars, seen, bumpVars, clock, draft, poll, known,
                             untold, countVars>>

Between == /\ \A t \in Threads : job[t] = None
           /\ \A h \in Handlers : draft[h] = None
           /\ gone = {}

(* A unit of time passes; a poll that is due or has been woken does not sleep on  *)
Tick ==
  /\ Between
  /\ ticks < MaxTicks
  /\ events + ticks < MaxBoth
  /\ ticks' = ticks + 1
  /\ \A p \in Pollers : poll[p] # None =>
       poll[p].at = "wait" /\ poll[p].left > 0 /\ p \notin unheard
  /\ seen' = [u \in Users |-> IF Online(u) THEN seen[u] + 1 ELSE seen[u]]
  /\ poll' = [p \in Pollers |-> IF poll[p] = None THEN None
                                ELSE [poll[p] EXCEPT !.left = @ - 1]]
  /\ UNCHANGED <<dbVars, bumpVars, clock, job, draft, gone, known, untold,
                 events>>

(* The tables survive; the epoch is later, by more milliseconds than there  *)
(* were SHIFTs of bumps. The server may stop in the middle of an operation. *)
Restart ==
  /\ Count(1)
  /\ \A u \in Users : revision(u) < (clock + 1) * SHIFT
  /\ clock' = clock + 1
  /\ revisions' = [u \in Users |-> None]
  /\ seen' = [u \in Users |-> None]
  /\ job' = [t \in Threads |-> None]
  /\ draft' = [h \in Handlers |-> None]
  /\ poll' = [p \in Pollers |-> None]
  /\ gone' = {} /\ unheard' = {} /\ untold' = {}
  /\ \/ UNCHANGED friendVars
     \/ \E user, other \in Users : BreakOff(user, other)
  /\ UNCHANGED <<activity, invite, handed, known, ticks>>

-----------------------------------------------------------------------------
(* The tables may hold friendships and a request from before this server    *)
(* was started                                                              *)
WatchInit == /\ \/ Init
                \/ \E a, b \in Users :
                     /\ a # b
                     /\ \/ friend = Both(a, b) /\ request = {}
                        \/ friend = {} /\ request = {<<a, b>>}
                     /\ asked = friend \cup request
                     /\ broken = {} /\ stuck = {}
             /\ activity = [u \in Users |-> None]
             /\ invite = [u \in Users |-> {}]
             /\ handed = [u \in Users |-> {}]
             /\ seen = [u \in Users |-> None]
             /\ revisions = [u \in Users |-> None]
             /\ clock = 1
             /\ job = [t \in Threads |-> None]
             /\ draft = [h \in Handlers |-> None]
             /\ gone = {} /\ unheard = {} /\ untold = {}
             /\ poll = [p \in Pollers |-> None]
             /\ known = [p \in Pollers |-> None]
             /\ events = 0 /\ ticks = 0

WatchNext == \/ \E t \in Threads : Collect(t) \/ Bump(t) \/ Wake(t)
             \/ \E h \in Handlers : Handle(h)
             \/ \E p \in Pollers : Poll(p)
             \/ Sweep \/ TellOfGone \/ Tick \/ Restart

WatchSpec == WatchInit /\ [][WatchNext]_watchVars

-----------------------------------------------------------------------------
(* Rows and jobs name users, ages end at ONLINE_FOR and revisions count up.  *)
WatchTypeOK ==
  /\ TypeOK
  /\ activity \in [Users -> Sessions \cup {None}]
  /\ invite \in [Users -> SUBSET Users]
  /\ handed \in [Users -> SUBSET Users]
  /\ seen \in [Users -> 0..ONLINE_FOR \cup {None}]
  /\ revisions \in [Users -> Nat \cup {None}]
  /\ clock \in Nat
  /\ job \in [Threads -> Jobs \cup {None}]
  /\ draft \in [Handlers -> Drafts \cup {None}]
  /\ poll \in [Pollers -> Polls \cup {None}]
  /\ known \in [Pollers -> Answers \cup {None}]
  /\ gone \subseteq Users /\ unheard \subseteq Pollers
  /\ untold \subseteq Users

Waiting(u) == invite[u] \ handed[u]

(* Once all handlers are done and the sweeper has told of everybody who went *)
(* offline, a client whose last answer carries the revision that is still    *)
(* current has been shown what there is to show, and has got every invite    *)
(* that still waits for it in some answer: whatever crossed its reads, a     *)
(* later poll that waits for a change does not wait for one already made.    *)
(* Also across restarts, when revisions start over, and though any write may *)
(* fail unnoticed.  What was untold is excepted.                             *)
QuietMeansCurrent ==
  Between /\ Expired = {} =>
    \A p \in Pollers :
      p \notin untold /\ known[p] # None /\ known[p].revision = revision(p) =>
        LET page == known[p].page IN
        /\ [page EXCEPT !.joinable = @ \ untold]
             = [Page(p) EXCEPT !.joinable = @ \ untold]
        /\ Waiting(p) = {}

(* A poll sleeps only while its revision is unchanged, or it has a TICK to  *)
(* wake up to, or somebody is about to send one: changes made between its   *)
(* look at the revision and its sleep are not slept over.                   *)
NoMissedWakeUp ==
  \A p \in Pollers :
    /\ poll[p] # None
    /\ poll[p].at = "wait"
    /\ \A t \in Threads : job[t] # None => job[t].at # "tick"
    => revision(p) = poll[p].since \/ p \in unheard

(* A client that does nothing but wait for an answer is shown online to its *)
(* friends all the while.                                                   *)
WaitingMeansOnline ==
  \A p \in Pollers :
    poll[p] # None /\ poll[p].at \in {"check", "wait"} => Online(p)
=============================================================================
