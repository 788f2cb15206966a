# A verification project for the Open BitDemon Emulator

The repository holds a library, `libbitdemon`, and a server built on it,
`dw-server`.  The server gives older games the services of their publisher's
back end: login tickets, match-making, group counts, messages between players,
rich presence, file storage, and a friends page for a companion client over
HTTP.  These modules model what the server keeps and how its threads change
it.  TLC checks the models on small instances, and TLAPS proves the most
important results for every instance.

In the tables, `lib/` stands for `src/libbitdemon/src/` and `dw/` for
`src/dw-server/src/`.  `PROJECT.json` maps every definition to its source lines.

## 1. The system

### Threads and shared state

`lobby/` and `auth/` serve each TCP connection on a thread of its own
(`lib/networking/bd_socket.rs`).  Such a thread reads a message, handles it,
writes the reply and reads the next one, so the calls of one connection follow
each other.  Everything else interleaves.  The axum HTTP server adds tasks for
`/auth` and for the friends page, and a sweeper thread looks every few seconds
for users who went offline.

Threads meet only in maps behind mutexes (`RwLock`s in the counters) and in
SQLite connections behind mutexes.  Most services have more than one of these,
and most handlers take more than one section to do their work.  What may happen
between two sections of one handler is the main subject of the models.

When a connection's loop ends, in whatever way, a guard runs the *unregister
callbacks*, in the order of their registration: group service, match-making
registry, message router, rich presence.  Each takes its own lock, and other
threads run between them.

### Components

| Component | State it keeps | Operations | What is hard | What makes it correct | Module |
|---|---|---|---|---|---|
| Match-making registry (`lib/lobby/matchmaking/session.rs`, `handler.rs`) | lobbies by id, the id and secret of each connection's lobby | create, update, delete, disconnect | two maps kept inverse over any sequence of calls | maps inverse, identities told to a client stay good, one lobby per connection | `SessionRegistry`, `LobbyDirectory` |
| Session search, population (`session.rs`, `dw/population.rs`) | none | list, population | a `HashMap`'s order, several lobbies at one address, a limit | answers list only what can be joined, and miss no address while there is room | `SessionSearch` |
| Group service (`dw/lobby/group/service.rs`) | each connection's groups, members of each group | set groups, counts, disconnect | list and counts change in separate sections | counts agree with the lists | `GroupService` |
| Message router (`lib/lobby/messaging/router.rs`) | each user's newest signed-in connection, next message id | register, unregister, online, deliver | one user on several connections that end in any order | a user's newest sign-in is reached, nobody else is | `MessageRouter` |
| Connection writers (`lib/networking/bd_session.rs`, `lib/messaging/bd_response.rs`) | a writer mutex per connection | reply, push | blocking writes under two mutexes, write timeouts, peers that stall | frames stay whole, nobody waits for ever | `PushDelivery` |
| Rich presence (`dw/lobby/rich_presence/service.rs`) | a blob of each user and the connection it came from | set, get, disconnect | an old connection ends after a new one set its presence | a presence lasts exactly as long as its connection | `RichPresence` |
| Connection life cycle, dispatch (`bd_socket.rs`, `session_manager.rs`, `lib/lobby/mod.rs`, `lsg.rs`, `dw/lobby/mod.rs`) | registered sessions, their authentication | accept, sign in, dispatch, unregister | callbacks interleave with other threads, registration may panic | nothing outlives its connection | `LobbyServer` |
| Key store, tickets (`lib/auth/key_store.rs`, `auth_proof.rs`, `auth_handler/steam.rs`, `dw/auth/mod.rs`) | a ring of keys and the times they end | current key, valid keys, seal, open | clocks read before locks, ring of computed size | no key is overwritten that a ticket needs, no good ticket is refused | `KeyStore` |
| Friends (`dw/social/friends.rs`) | tables `friend`, `friend_request` | request, accept, remove | statements that commit one by one | friendships are mutual and agreed | `Friendships` |
| Friends page (`dw/social/watch.rs`, `activity.rs`, `routes.rs`) | revisions, who was seen when, activities, invites | long poll, change something, sweep | a change between a poll's look and its sleep, restarts | no change is slept over | `SocialWatch` |
| Content streaming (`dw/lobby/content_streaming/`) | streams, tags, data, metadata; tokens handed out in urls | request upload, upload and delete over HTTP, finish, list | slots counted and taken in separate sections, urls that outlive rows | urls change their owners' streams only, what is published stays, tags go with their stream | `ContentStreams` |
| Publisher streams (`dw/lobby/content_streaming/publisher_file.rs`) | a list of streams for each title, under a `RwLock` | list, find by id, refresh from the directory | two looks at the age of the list, refreshes while files come and go, panics under the write lock | ids stay with their files, what lies there long enough is found | `PublisherStreams` |
| User and publisher storage (`lib/lobby/storage/`, `dw/lobby/storage/`) | a table of users' files; the operator's directories | create, update, get by id, list | no unique index on names, ids of two kinds, directories that change while they are read | one file per name, an id means one file, files are their owners', lists miss nothing | `UserStorage` |
| Calls and replies (`lib/lobby/mod.rs`, the handlers of groups, content streaming, profiles, leagues; `lib/lobby/response/`) | a thread's transaction id | decode, serve, answer | the mode of a message is chosen before its handler reads it | a call does what its service says | `LobbyCalls` |
| Bit and byte streams (`lib/messaging/bd_reader.rs`, `bd_writer.rs`, `bd_data_type.rs`) | a buffer, the bits of an unfinished byte, a type looked up before | typed reads and writes in two modes | bits across bytes, a list's end in the padding | what is written reads back, and as nothing else | `BitStream` |
| Counters, recording, bandwidth test, cryptography, plumbing | see section 7 | | | not modelled | |

## 2. The modules

```
LobbyDirectory  <--refines--  SessionRegistry  <--EXTENDS--  SessionSearch  <--EXTENDS--  SessionRegistryProofs
                                   ^
MessageRouter   <--refines--  PushDelivery     <--EXTENDS--  PushDeliveryProofs
      ^
      +------ LobbyServer ------> SessionRegistry, RichPresence, GroupService
                   ^
           LobbyServerProofs ------> SessionRegistryProofs
KeyStore          <--EXTENDS--  KeyStoreProofs
Friendships       <--EXTENDS--  SocialWatch  <--EXTENDS--  SocialWatchProofs
ContentStreams, PublisherStreams  <--EXTENDS--  ContentStreamsProofs
UserStorage       <--EXTENDS--  UserStorageProofs
BitStream         <--EXTENDS--  BitStreamProofs
LobbyCalls
```

A module named `MC...` adds what only TLC needs: symmetry, and constants too
large for a `.cfg`.

Throughout, an action is one critical section of the code (or one thread's
step between two), its guard the conditions and early returns of that section,
and its name the function's.  Unlike the code, a model may reuse a connection's
name once all of its traces are gone; the modules say where.  Variables marked
*history* record what happened for the sake of a property.  They guard nothing.

Definitions preceded by `(* MUTANT *)` belong to no specification.  Each is the
definition it stands before, with a mistake one could make in that code: a
dropped filter, an off-by-one, a notification left out.  Put in its place, TLC
finds the property of the pair in `PROJECT.json` violated.  That keeps the
properties honest.

### LobbyDirectory, SessionRegistry, SessionSearch

`SessionRegistry` has `sessions` and `by_host` as in `RegistryState`, under one
mutex, so each method is one action: `Create`, `Update`, `Delete` and
`RemoveConnection`.  `Forget`, `Remember` and `Mint` are the operators the
methods of the same names are: `Mint` offers every id not in use, as `mint`'s
loop does.  `LobbyDirectory` is what the registry promises without
its index: every connection has at most one lobby, no two share an id, and only
their owners open, change or close them.  The refinement mapping is `sessions`.

`SessionSearch` extends the registry with `ListFor`, a function of an
iteration order (a permutation of the lobbies), and `Population`.  Its
property `AnswersAreExact` is evaluated in every reachable registry for every
order and query.  It is a conjunction: `SearchListsOnlyJoinable`,
`SearchMissesNoAddress` and `PopulationAddsUp`.

### GroupService

`SetGroups` swaps the connection's list under the first mutex and leaves what
it saw in `pending`; `AdjustCounts` works it off under the second.
`RemoveAllGroups` is the disconnect callback's first section.  A list is how
often each group occurs in it, as the code treats repeats unlike sets do.  No client
can reach `set_groups` at this commit (see `LobbyCalls`): the module is about the
service, whatever calls it.

### MessageRouter, PushDelivery

`MessageRouter` is the router as its callers may see it: `SignIn`, `End`,
`TakeId` and `Push` as atomic actions.  `PushDelivery` is the code: each thread's
program counter, the recipients mutex (`router`), each connection's `writer`
mutex, frames begun and not finished (`partial`), and peers that read, stall or
vanish.  `BeginPush` needs the recipient's writer while its thread holds
`router`.  `FinishPush` and `FailPush` end both.  A write that fails after part of
a frame went out leaves the stream `torn`.  Refinement: `DeliversAtOnce` is
`MessageRouter`'s specification over the same variables.

### RichPresence, LobbyServer

`LobbyServer` composes registry, groups, router and presence.  Its own state is
the `phase` of each connection: accepted, open, ending, in each of the
unregister callbacks, and closed or panicked.  Callbacks run under the mutex
`unregister_cb`, so only one connection's run at a time.  A connection that is
in the middle of `set_groups` (it has something `pending`) takes up nothing else.
`Serves` is the dispatch's check that the session is authenticated where the
service asks for it.  `RegisterPanics` is
the `unwrap` of `peer_addr` while the id counter's mutex is held: it poisons
the counter, and no later connection registers.

### KeyStore

The ring `keys` with `key_index`, one `issuing` record for each auth thread and
one `login` record for each lobby thread.  Clock readings are steps of their own
(`ReadClock`, `StartTicket`, `StartLogin`), because the code reads the clock
before it waits for the lock.  `UseCurrentKey` and `RotateKey` are the two
outcomes of `get_current_key`; `TryKeys` is `get_valid_keys` with the attempt to
open the ticket; `FinishLogin` reads the clock again and judges the expiry.

### Friendships, SocialWatch

In `Friendships` an operation is one action, since it holds the database's
mutex throughout, and `done` says which of its writes succeeded.  `BreakOff` is
a stop of the server inside an operation, which leaves a prefix of its writes.

`SocialWatch` has every change in the steps the code makes: the change itself,
the three queries that collect whom to tell, `Bump` under the lock on the
revisions, and `Wake`, which sends the tick.  A poll subscribes, checks its revision,
sleeps, and puts its page together from separate reads, while all the others
go on.  `known` is the last answer a client received.  `Restart` clears what is in
memory; `Answer` may be lost.  `activity.rs` goes on whatever becomes of its writes,
so each may fail unnoticed: `SetActivity` and `Invite` tell their users even then,
`ClearActivity` nobody, and after a DELETE that fails in `Take` (`take_invites`) the invites
wait although the client has them, which `handed` remembers.  The module extends `Friendships`: all changes to
the friendship tables are that module's actions, so what is
proved of `Friendships` holds here too (`ServedFriendsStayAgreed`), and the run checks both modules' properties.

### ContentStreams

The tables `user_stream` and `user_stream_tag` outlive restarts, `urls` does not:
a url is what its token says (title, id, operation) and, as history, who it was
handed to and for which request.  `CheckSlot` and `CreateStream` are the two
sections of `request_stream_upload`, with `checked` between them.  `Upload` and
`Delete` are the HTTP handlers, which take any url whose token is valid, any
number of times; `Grants` is their check.  `FinishUpload` asks only that the row
has no metadata yet.  `IsNext` is how SQLite chooses an id for a table without
`AUTOINCREMENT`, so the id of a deleted row may come back.

Here too it is the service and its HTTP handlers that are modelled; `LobbyCalls`
says which of a client's calls arrive at them.

Whether a row is ever deleted depends on the SQLite linked: the statement is
`DELETE FROM user_stream u WHERE ...`, with an alias and no `AS`, which SQLite's
documented grammar does not have.  If it is refused, the handler answers 400 and
nothing changes.  `Delete` is a step that may be taken and need not be, so the
properties hold either way.

### PublisherStreams

The index of a title is made by whoever asks first, under the write lock, from the
title's directory; a request that finds it older than `STATE_REFRESH_SECONDS` reads
the directory again.  A request is `Look` (under the read lock), `TakeWriteLock` with
its second look, one `HandleEntry` for each entry, `Refreshed`, and `ReadAgain` under
a new read lock; between any two the operator may `Change` the directory, and other
requests go on.  Read locks are held for a single step, so the state has the
`writer` only.  The draft that is being made is in the request of the writer.  A
refresh does not set `last_refresh`, so an index that is a minute old is refreshed at every
request from then on; files that have gone stay listed.  A file that vanishes
between its entry and its metadata, or whose name is not UTF-8, panics under the write
lock, which is `poisoned` from then on, and all later requests panic, until a restart.

### UserStorage

`rows` is the table `user_file`, with rowids for ids; `published` the directories.  What
runs under the mutex of the `Db` is one step, so `Save` and `MayUpdate` are whole
transactions.  A get by id goes from the table to the directory and reads an entry,
its file, its metadata (`FindPublished`, `ReadPublished`, `InfoOfPublished`); a list of
published files goes entry by entry (`NextEntry`).  An answer waits in `request`
until `Send`, and the server or the client may stop before that.

### LobbyCalls

A message is one step.  `RequestMode` is the choice `handle_message` makes before
a handler reads: only bandwidth tests are read in bytes.  Arrays and "the rest of
the message" exist in bytes only, so a call that needs them is a `Break`: the error
ends the connection and runs its callbacks.  The calls of four handlers are
here with what they read, keep and answer, also those that fail always.

### BitStream

Pure code, taken literally: a byte is the set of its bits, `PutChunk` and `GetChunk`
are one iteration of `write_bits` and `read_bits`, and the operators named after the
code's functions thread a writer or a reader record through them.  The state machine
writes a message by any calls and then reads it, with the calls that wrote it, with
others, and with looks at the next type between them.  `ItemsAssumption` says what the
writer's functions can be given.

## 3. Properties and runs

Every module with more than operators has one type invariant, `TypeOK`
(`WatchTypeOK` in `SocialWatch`).  A run checks it where a plausible mistake in the code would break it; elsewhere it
is either proved (section 4) or left to the other properties, which would fail
with it.

| Run | Module | Instance | Shows |
|---|---|---|---|
| `matchmaking` | `MCSessionSearch` | 4 connections, 5 ids, 4 advertisements behind 3 addresses, 12 queries | `ToldIdentityHolds`, `ImplementsDirectory`; and of searches `AnswersAreExact` |
| `push_delivery` | `MCPushDelivery` | 3 connections, 2 users, 4 requests | `TypeOK`, `FramesStayWhole`, `LatestSignInReachable`, `DeliversAtOnce` |
| `push_delivery_progress` | `PushDelivery` | 2 connections, 2 users, 3 requests to up to 2 recipients | `ThreadsComeBack` |
| `lobby_server` | `MCLobbyServer` | 2 connections, 2 users, 1 group repeated up to 2 times, 2 blobs of which 1 fits | `TypeOK`, `OnlySignedInSessionsLeaveTraces`, `ListedHostsAreReachable`, `CountsNeverOverstate`, `CountsExactWithoutRepeats`, `PresenceEndsWithItsOwner` |
| `lobby_server_progress` | `LobbyServer` | 2 connections, 1 user | `EndingsComplete` |
| `key_store` | `MCKeyStore` | lifespan 3, timeout 1, tickets of 1, 2 issuers, 1 login, 7 units of time | `ShortTicketsKeepTheirKey`, `ShortTicketsAreHonoured`, `NoValidKeyOverwritten` |
| `social_watch` | `MCSocialWatch` | 2 users of whom 1 polls, 2 handlers, 1 connection string | `FriendsAgreed`, `OneSidedOnlyAfterBreak`, `NoCrossedRequests`, `QuietMeansCurrent`, `NoMissedWakeUp`, `WaitingMeansOnline` |
| `content_streams` | `MCContentStreams` | 2 accounts, 3 connections, 3 slots of which 1 is allowed, 3 ids, 4 requests | `SlotsOverrunOnlyByCrossing`, `TagsGoWithTheirStream`, `StreamsAreTheirOwners`, `PublishedUntilReplaced` |
| `publisher_streams` | `MCPublisherStreams` | 2 threads, 1 title, 3 names of which 1 is illegible, 3 units of time, 2 changes | `PublisherTypeOK`, `IdsStayWithTheirFile`, `PublishedFilesAreFound` |
| `user_storage` | `MCUserStorage` | 2 connections, 2 users, 2 titles, 2 rows, 2 published files of equal hashes, 2 changes | `OneFilePerName`, `AnIdMeansOneFile`, `OthersSeeNothing`, `PublisherListMissesNothing`, `FilesChangeOnlyForTheirOwner` |
| `bit_stream` | `MCBitStream` | every sequence of up to 3 of 13 values, in both modes, with and without type checks | `WriterKeepsBits`, `ReadsWhatWasWritten`, `OtherTypesAreRefused`, `ListsEndWhereTheyEnd` |
| `array_calls` | `LobbyCalls` | 2 connections, 1 group | **violated**: `SettersAreMembers` |

Runs take from 5 to 60 seconds with two workers.

### What the code does against its own word

* **Arrays.**  `handle_message` puts the reader of every message but a bandwidth test's
  into bit mode, where `read_u32_array` and its kin are refused.  So a client that sets its groups, asks for
  group counts, posts a finished upload, lists files of several owners or makes one of
  six league calls is disconnected, and so is one that sets a profile (`remaining_bytes`)
  and one whose answer has a `StreamInfo` (its tags are an array).  The run `array_calls`
  shows it for the groups: `SettersAreMembers` is what the service's documentation says.
  Everything a deployed client sends to those services' other calls works.

Three more were found while modelling and are noted here without a run:

* `set_groups` filters the groups to count down by the *new* groups instead of
  the groups asked for (`group/service.rs:63`), so a group that a client keeps is counted down, and its
  disconnect finds the counter at zero: the service then logs that its counts
  "appear to be wrong!".  The counts err only downwards
  (`CountsNeverOverstate`), and only for clients that keep or repeat a group
  (`CountsExactWithoutRepeats`, which also says that the alarm never goes otherwise).
* An upload to a slot that has a stream is said to replace it
  (`content_streaming/db.rs:310`).  The row gets a
  new name, no metadata and no data, but keeps the tags of the old stream, and the
  new upload's tags are added to them.  `TagsGoWithTheirStream` speaks of the rows.
* A ticket of the Steam handler is issued for 300000 seconds (`steam.rs:25`), by the look of
  the constant meant as milliseconds.  The key it is sealed with is gone after a
  quarter of an hour, and the login is refused long before the ticket's own
  expiry.  Tickets of `/auth`, which live five minutes and so less than
  the key's timeout, are always honoured (`ShortTicketsAreHonoured`).

Smaller things a reader of the code may want to know, which no property states:

* `DELETE FROM user_profile u WHERE ...` has an alias without `AS`, which SQLite's grammar
  does not have; the result is expected, so the call panics (`LobbyCalls`, `DeleteProfile`).
* The private profiles are answered under the task id of the public ones.
* `next_is_u64` at the end of a bit-mode message is false only if at least the five bits of
  a type are left in its padding, and an error otherwise (`profile/handler.rs:66`).  In byte mode a string without
  its terminator loses its last character.
* An `update` of a lobby nobody created makes one, with an id and a secret that no
  reply carries (`session.rs:217`).
* A file is said to be bound to the title it was created for (`storage/service.rs:62`), but its owner gets
  it by id in any title.  Names of published files that hash alike are one id; one that is not
  UTF-8 panics in every list.  Filters of names are `LIKE` patterns, so `%` and `_` in them match more.
  Lists go by the time of creation, so an update does not bring a file up.
* A `StreamInfo` asked for by id before its data have arrived panics its thread: `length(data)` is `NULL`
  (`content_streaming/db.rs:88`).

### Exceptions in properties

Some properties except what a history variable names.  Each exception is a
behaviour the code has and nothing in the repository excludes; without it the
property would be false, and with it all else is still checked.

| Variable | Excepts | From |
|---|---|---|
| `torn` (`PushDelivery`) | streams on which a push failed half-way; `deliver` only warns | `FramesStayWhole` |
| `switched` (`RichPresence`) | connections that signed in as a second user; the callback then looks under the wrong one | `OnlySignedInSessionsLeaveTraces` |
| `repeated` (`GroupService`) | runs in which some client kept or repeated a group | `CountsExactWithoutRepeats` |
| `broken` (`Friendships`) | pairs whose last accept broke off between its two INSERTs | `OneSidedOnlyAfterBreak` |
| `stuck` (`Friendships`) | pairs for whom the code ignored a failed DELETE | `FriendsAgreed` |
| `reused` (`ContentStreams`) | streams that were given the id of a deleted one to which another account still had a url: the token names no account, so for the rest of its five minutes that url reaches the new stream | `StreamsAreTheirOwners` |
| `handed` (`SocialWatch`) | waiting invites that have reached their client and whose DELETE failed: they are delivered again with the next answer, and nothing announces that | `QuietMeansCurrent` |
| `untold` (`SocialWatch`) | users whose accept failed half-way, or whose activity changed between another handler's look and write | `QuietMeansCurrent` |

### Bounds, and why they are enough

* **Connections, users, handlers.**  The properties relate at most two
  connections, or two connections and the thread that acts between their
  steps.  Three connections (two where four services are composed) give every
  pair and a bystander.
  Searches have four connections: two lobbies behind one address, a third behind
  another, and the client that searches with a limit of two.
* **`Ids`** exceeds the number of connections, so `mint` always finds a free one,
  as it does among 64-bit ids.
* **`MaxRepeat`** 2: twice is as good as often for code that subtracts one by one
  (`lobby_server`; the liveness run has 1).
* **`MaxRequests`, `MaxMessages`, `MaxRecipients`** bound what all clients
  together ask for.  Each exchange ends where the next begins, with the locks
  free; four suffice for two deliveries that cross, with two sign-ins.
* **`LIFESPAN`, `TIMEOUT`.**  The code has 15 and 14 minutes (a comment says 6),
  and a ring of 16 slots, one more than keys can be valid at a time.  The run has
  3 and 1: the ring has two slots, again one to spare, and `MaxTime` lets it go
  round, so that the third key overwrites the first.  Tickets of length 1 are the
  longest whose key must be kept.
  `MaxTickets` bounds the tickets held at a time.  What is proved needs none of
  these bounds.
* **`MaxEvents`, `MaxTicks`.**  `SocialWatch` starts from empty tables, from a
  friendship or from a request, so two changes and three units of time are enough for a change that
  crosses a poll or another change, a user who goes offline and comes back, and
  a restart in between: a change costs one event, a request that fails to write a friendship two,
  and together with the ticks there are at most `MaxBoth` (3).
  `ONLINE_FOR` is 2 and `MAX_WAIT` 1 unit, in the code's order; a client asks for 0 or 2,
  the second of which is capped.  Time
  passes only when no handler or sweeper is between two of its steps.
* **`MaxId`, `MaxRequests`** (`ContentStreams`).  With one slot allowed, two
  connections of one account cross each other's check and leave it two streams, one of
  which its connections explain.  A third would be one too many, and three slots and ids have
  room for it: a check that admits one more slot than it should is found with either account.
  An account of the same title meets the first in a reused id; one of another
  title is left to the proofs.  Four requests are a stream, its deletion, and two more; uploads,
  deletions and finishes are not counted.  What is proved needs none of these bounds.
* **`MaxFiles`, `MaxChanges`, `MaxBoth`** (`UserStorage`, `PublisherStreams`).  Two rows are a file and
  another of another name, owner or title; two changes are a file that comes and goes, or
  one for each of two entries.  `HIGH_BIT` is 8, above every rowid as 2^63 is above SQLite's, and the
  hashes are equal and small, so that ids without the highest bit would be rowids.
  `STATE_REFRESH_SECONDS` is 1 of 3 units.  What is proved needs none of these bounds.
* **`Items`, `MaxCalls`** (`BitStream`).  The values have every width the code has, one to eight
  bytes, empty and non-empty strings, blobs and arrays, with ones at both ends of their bytes.  Three
  in a row put each at every bit offset that five-bit types and single bits lead to.  What is proved needs none of these bounds.
* **`SHIFT`** keeps the code's value: an epoch is in milliseconds shifted by 16
  bits, and a restart takes longer than a millisecond.

`CHECK_DEADLOCK FALSE` stands in `social_watch` and `bit_stream`, where the model ends by design
when events and time are used up, or when the message has been read.  Elsewhere a state without a successor would be an
error; specifications whose connections all close say so with a stuttering
action.

### Fairness

`ThreadsComeBack` and `EndingsComplete` assume weak fairness of each thread's
own steps: the operating system runs every thread that can run, and a blocked
write ends after `WRITE_TIMEOUT` (30 s), which `bd_socket.rs` sets on every
stream.  Clients promise nothing: they need not read, send or close.  A Rust
mutex is not fair.  Weak fairness of a thread's step that waits for one is
justified nevertheless, as requests are bounded in the model and every holder
comes to an end.  That a thread could be passed over at a lock for the rest of
time, by an endless stream of others, is what the code does not exclude and the
model does.  The
timeout is one of each `write`, so a peer that takes a few bytes every half minute
delays a frame for long; in the model it is a peer that reads.

## 4. What is proved

TLAPS checks eight modules of proofs.  All hold for every value of the
constants that satisfies the named assumptions.

**`SessionRegistryProofs`.**  The inductive invariant is the conjunction of the
three invariants of the run: types, `IndexInverse`, `ToldIdentityHolds`.  The lemmas
on `Forget` and `Remember` say how each moves one connection's lobby and its
index entry and nothing else; every action is one or both of them, so each case
of the step lemma cites these.  `Update` forgets a lobby and remembers one under
the same id, which is safe because, by `IndexInverse`, no other connection holds
that id.  From the invariant follow `RegistryTypeOK`,
`RegistryIndexInverse`, `RegistryToldIdentityHolds`, and step by step that the
registry implements the directory (`RegistryImplementsDirectory`).  Assumption:
`None` is no connection, no lobby and no identity.

`SearchesAnswerExactly` is about `list_for` and `population`, which are folds over a sequence and
over a set.  An induction theorem with an operator for its parameter cannot be used here, so the
induction is made with sets: the set of the lengths up to which a fold is right has 0 and the
successor of each of its members (`SetInduction`), and a set of finite sets that has the empty one
and grows by any element has all subsets (`SubsetInduction`).  A fold's result is a `CHOOSE` of a
function that calls itself, whose existence is the first thing to prove (`FoldExists`).  Then: the
candidates are the lobbies that can be joined, each address keeps its first candidate, a
search cut off at its limit has as many as were asked for, and the population of a playlist is a sum over
its lobbies, none of which is counted twice.  That the sums are over
finite sets is an invariant of its own (`FiniteLobbies`: only `Create` and `Update` add a lobby, one at a time), so
the number of connections may be infinite.  Assumptions: `AdsAssumption`, that slot sums fit an `i32` (see
section 6), and `QueriesAssumption`, both checked by TLC of the run's constants.

**`KeyStoreProofs`.**  `RingSpaced` says that, going back from the current slot,
each key ends more than `LIFESPAN - TIMEOUT` earlier than the one after it; hence
a slot reached again after `MAX_CONCURRENTLY_VALID_KEYS + 1` rotations holds a
key that has ended (`RingIsLargeEnough`), whatever the lifespan and the timeout.
`ClocksPast` says that whatever a thread has read of the clock is not
in the future, and `LoginsKept` carries a ticket's promise over a login in progress.
From these: `ShortTicketsNeverOutliveTheirKey` and `NoShortTicketIsTurnedAway`.
Assumptions: `KeyStoreAssumption` (`TIMEOUT < LIFESPAN`, naturals), that `None` is
no value of the types, and, in the model, that the clock does not run backwards.

**`SocialWatchProofs`.**  *Tables.*  `FriendsHaveAgreed` is not inductive: an accept needs
to know that the request it meets was made.  `RequestsAsked`, that the sender of
every request has asked, closes the gap.  `FriendshipsAreMutual` and
`RequestsNeverCross` are inductive with the types.  These hold of `friends.rs` by itself
for any users, and of the tables as the server has them (`ServedFriendsStayAgreed`), since
each of its steps is one of `Friendships` or none (`StepOfFriends`).
*Waiting.*  `PollsAreFresh` adds up how long ago a poller was heard of and how long it
may still wait: at most `MAX_WAIT`, hence `WaitersAreOnline`.  `SleepersAreWoken` has a job at
its tick wherever a poll sleeps over a new revision, which is `NoPollSleepsThrough` once no
job is there.
*What clients know.*  A user is `Noted` while a job is on its way to bump it, or a friend's
going offline waits for the sweeper, and `Settled` while it is neither noted nor `untold`.  All
that `CurrentMeansShown` needs of the other threads is in one lemma, `Announced`: a step
that leaves a user's revision alone, and after which the user is settled, found it settled and
changed nothing it sees.  Its proof goes handler by handler: a change starts the job that notes whom it concerns, a
job that has begun keeps whom it is to tell (`NotesLast`), and a write that tells nobody
wrote what was there (`DraftsAreRight`) or added to `untold`.  Hence
what a poll reads after it took its revision is right while that is still the revision
(`ReadIsRight`), so the answer is (`KnownIsRight`), and in the quiet everybody is settled.
Of invites an answer promises that those which still wait have reached the client (`Waiting`):
only `Invite` adds one that has not, and that is a change like the others.  A
restart ends all promises by a revision above all that were (`RestartRevisions`).
Assumption: `WatchAssumption`: pollers are users, `MAX_WAIT < ONLINE_FOR`, handlers,
pollers and the sweeper are different threads, and `None` is nothing else.  The proof uses none
of the bounds.

**`ContentStreamsProofs`.**  The type invariant includes that no account has two
streams in one slot, as the unique index has it.  `BornBeforeMade` says that a
row's last upload is no older than its first, which is what new tags need for
`TagsStayWithTheirStream`.  `UrlsNameOwners`, that a url's account is that of the
row it names unless the id was reused, is what comparing no more than the id
leaves of ownership.  `RowOutcomes` lists what a step may do to a row: keep,
replace, finish, upload, delete.  `StreamsStayTheirOwners` and `PublishedStays`
follow from it case by case.  `SlotsOverrunOnlyWhenCrossed` is not inductive in the streams
alone, as a deletion makes room for all who had found its slot taken: `RoomFor` counts the
slots that are awaited with those that are taken, and a connection in the middle of a request
awaits one slot.  Assumptions: `StreamsAssumption` (finitely many connections, each with an
account, and every account with a title) and that `None` is no row and no slot.

The same module has the publisher's streams.  What is told of the index must survive its replacement
by a draft, so the invariant says of the draft what it says of the index: each id and each name is
one stream's, the draft has all the index has, and each file old enough is in it or left to be
looked at.  `UpToDateIsFresh` turns the age of an index into what a request may expect of
it.  From these: `StreamIdsStay`, `LyingFilesAreFound`.  Assumption: `PublisherAssumption`.

**`LobbyServerProofs`.**  *Groups.*  `CountsAreNeverOverstated` rests on an account of each group: its counter
is at most the number of its `Members`, which takes the pending adjustments into
account, and equal to it while nobody has repeated a group
(`CountsAreExactWithoutRepeats`).  The lemmas say what each of the three sections does to both
sides.
*The server.*  To each of its four services every step of the server is one of the service's
own or none (`ServerRunsItsServices`: `Spec` implies the four specifications), so what is proved
of a service alone holds in the server: `ServerTypeOK`, `ServerCountsNeverOverstate`,
`ServerCountsExact`, `ServerPresencesEnd`.  What relates services to threads needs an invariant of
the server's own: `NothingUnsigned`, that a connection which never signed in has nothing anywhere,
and `CallbacksCleanUp`, that a connection that is past a callback has nothing left in that
callback's service.  `OnlySignedInLeaveTraces` follows, and so does `ListedHostsReachable`, as the
match-making callback comes before the router's.  Assumption: `LobbyAssumption`, which
is those of the services: finitely many connections, and `None` is nothing else.

**`PushDeliveryProofs`.**  The invariant says what a thread holds wherever it is: the
recipients mutex from its lookup to the end of its push (`Locks`), so that its target stays the
connection its recipient is registered on (`Targets`); one writer while it
writes, so that a frame that is begun is being written or broke off (`Frames`); and the id of
a message that no other thread and no inbox has (`Messages`).  From these:
`StreamsHoldWholeFrames`, `NewestSignInIsReached`, and that every step is one of
`MessageRouter` or leaves its variables alone (`RouterImplemented`).  Assumptions:
`BoundsAssumption` and that `None` is no connection and no user.

**`BitStreamProofs`.**  The invariant, `Follower`, keeps the writers as they were after each call
and says where the reader is among them.  It rests on three notions:

* A writer is `Sound` when the byte at each place, and the one held back, are those of the bits given
  so far, all of which come before the end.  The lemmas go from bits
  (`ByteFilled`, `ByteBegun`: what shifting a chunk to both sides does to the byte that is unfinished and
  to the next) to one iteration of `write_bits` in its five cases (`ChunkKeeps`), to the
  loops over a value's bytes and an array's elements, to every call.
* A later writer has the bits of an earlier one and more after them, so the finished
  buffer holds the message of each of the writers (`Holds`).
* A reader `Follows` a writer when it stands where that writer stood, in the same mode and with the same
  type checks.  Each call of the writer, made to a reader that follows the writer
  before it, returns what was written and makes the reader follow the writer after it; between two calls the
  reader may have a type in hand (`AtItem`, `AtLast`).  A call for another
  type finds a type that is not its own, also in the padding, where no type is found (`EndSeen`).

The loops of the model are recursive functions over an interval; that such a function exists and stays
in a set is proved by induction on the rounds (`LoopRuns`, `LoopStays`), which takes the set of the rounds
that go well and the least number outside it (`Least`).  From these: `WriterKeepsAllBits`,
`MessagesComeBack`, `OthersAreRefused`, `ListsEnd` and `TypesHold`, for values of any length
and any number of calls.

Assumptions: `ItemsAssumption`, that values are what the writer's functions can be given (integers and
floats of their type's width, arrays of integers or of strings, as it writes no others, lengths that
fit the `u32` they are written as), and that strings hold no character 0.  The code does not check that
last one: to the reader a string with a 0 inside would end there, and what follows it would be misread.
`NoneAssumption` says that `None` is nothing else.

**`UserStorageProofs`.**  The properties speak of answers on their way, so the
invariant adds what the stages before an answer remember: the row of a created file, the
highest bit of what was found in the directory, and for each entry that is steady that it is
still to be looked at, taken, or too old (`ListHolds`).  That every step keeps the rows but
for their data (`RowsKept`) is what all others cite.  Assumption: `StorageAssumption`, of which
`HIGH_BIT > MaxFiles` is the one that matters.

Every safety property of the runs that pass is proved.  Only model-checked are liveness
(`ThreadsComeBack`, `EndingsComplete`) and enabledness, which the prover does not reason about: it was
not asked whether the runs' specifications can always go on, and TLC checks deadlock.

## 5. Hazards

`PROJECT.json` lists what in this code is hard to test, at its line, with the
properties that would fail.  Where none would, a note says why: mostly because
the repository promises nothing that could fail (the order of message ids, an
invite lost with its answer or delivered again after a DELETE that failed, a lobby created
by `update` whose id nobody is told), or because the code does it wrong and no document says
otherwise (an activity whose change is untold).

## 6. What is left out inside the models

* Reads of the database are assumed to succeed.  A write that fails is modelled where
  the code goes on after it, in the friend tables, activities and invites.  Elsewhere
  the code expects its writes to succeed: one that fails changes nothing and panics.
* Handlers are assumed not to panic, with the one exception modelled
  (`RegisterPanics`).  An overflow of the `i32` slot sums, which panics in the
  debug build that `run.bash` makes, is excluded by `SessionSearch`'s
  assumption on advertisements.
* Names of known users, the recent-people page and the resolution of names.
* Of content streaming: filters, offsets and order of lists, and limits on sizes (only the
  size a client claims is checked, not that of the data it sends).
* Of the storage: deletion, access by name and public files, which the service has and no
  task reaches; the times of users' files.
* Of the bit streams: dates, 64-bit arithmetic within a number, and characters that are
  not ASCII.  Switching a writer from bits back to bytes, which no caller does, would
  put bytes before bits that are held back.
* What a message says, and what a reply says beyond having been written.
* Sealing and opening tickets is perfect: a key opens what it sealed, and no
  other does.

## 7. What is not modelled

* **Counters** (`dw/lobby/counter/service.rs`).  Each call is one section under one `RwLock`; a sum is
  a plain `i64` addition.  In the debug build an overflow panics in the middle of a list of
  increments, with those before it added, and poisons the lock.
* **Recording** (`dw/recording.rs`).  Every upload writes a file with a random name of its own, renames it when it is complete
  and removes it when it is not; uploads share nothing.  What is left is compression, and
  a comparison of sizes.
* **Bandwidth test** (`lib/lobby/bandwidth/`).  Datagrams are counted by address under one mutex, and a
  client's counts are taken once.  Nothing depends on the numbers; clients behind one
  address share them, and counts nobody takes stay.
* **Cryptography**: algorithms of libraries.  `KeyStore` takes sealing to be perfect.
* **Known users** (`dw/social/friends.rs`: `note_user`, `lookup_ids`, search): a table of names that no
  property here depends on.
* **The HTTP endpoint's parsing** of requests and identities; its tickets are in `KeyStore`.
* **`db.rs`, start-up, configuration, logging**: run once, before any connection.
* **Stateless services** (anti-cheat, DML, event log, key archive, performance, title utilities,
  twitch, vote rank, youtube) answer from constants: in `PushDelivery` they are requests
  that only reply.  The league's are in `LobbyCalls`.

## 8. Running it

From this directory: `tlc -workers 2 -config <run>.cfg <Module>` for a run of the
table in section 3, and `tlapm <Module>Proofs.tla` for the proofs.  No run takes more than
a minute, and no module's proofs more than a few.
