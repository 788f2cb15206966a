-------------------------- MODULE PublisherStreams --------------------------
(***************************************************************************)
(* The index of the streams an operator publishes (dw-server                *)
(* content_streaming/publisher_file.rs): a list for each title, made when   *)
(* it is first asked for, read again from the title's directory when it is  *)
(* older than a minute, and shared by the lobby's connections and the HTTP  *)
(* server under a RwLock.                                                   *)
(*                                                                         *)
(* A request reads the index under the read lock; if it is missing or old   *)
(* it takes the write lock instead, looks again, and reads the directory    *)
(* entry by entry, while the operator may change it; then it reads the      *)
(* index under a new read lock.  A panic under the write lock poisons it,   *)
(* and whoever takes it afterwards panics too.  Read locks are held for a   *)
(* single step, so only the writer is in the state.                         *)
(*                                                                         *)
(* A lobby connection that has found streams cannot send them: their tags   *)
(* are an array, which BdWriter refuses in bit mode (LobbyCalls); the HTTP  *)
(* server goes on to open the file.                                         *)
(*                                                                         *)
(* Definitions marked MUTANT are plausible bugs; see SessionRegistry.       *)
(***************************************************************************)
EXTENDS Naturals, Sequences, FiniteSets

CONSTANTS
  Threads,  \* of connections and of the HTTP server
  PublisherTitles, Names,
  Illegible, \* those names that are not UTF-8
  STATE_REFRESH_SECONDS,
  MaxTime, MaxChanges,  \* bounds: time, changes of a directory
  Absent

VARIABLES
  dir,        \* title -> name -> when the file was last put there, or Absent
  index,      \* publisher_streams: title -> its state, or Absent
  writer,     \* the thread that holds the write lock, or Absent
  poisoned,   \* whether the lock is
  request,    \* thread -> where its request is
  now, changes,
  told        \* history: the streams answers have named since the start

publisherVars == <<dir, index, writer, poisoned, request, now, changes, told>>

Time == 0..MaxTime
PublishedStream == [id : Nat \ {0}, filename : Names]
State == [last_refresh : Time, next_id : Nat \ {0}, streams : Seq(PublishedStream)]

ASSUME PublisherAssumption ==
  /\ {STATE_REFRESH_SECONDS, MaxTime, MaxChanges} \subseteq Nat
  /\ Illegible \subseteq Names
  /\ Absent \notin Threads /\ Absent \notin Time /\ Absent \notin State

-----------------------------------------------------------------------------
Nothing == [stage |-> "nothing"]
At(r, stage) == request[r].stage = stage

There(title) == {n \in Names : dir[title][n] # Absent}

PublisherInit == /\ dir \in [PublisherTitles -> [Names -> {Absent, 0}]]
                 /\ index = [t \in PublisherTitles |-> Absent]
                 /\ writer = Absent
                 /\ poisoned = FALSE
                 /\ request = [r \in Threads |-> Nothing]
                 /\ now = 0
                 /\ changes = 0
                 /\ told = {}

Goes(r, to) == request' = [request EXCEPT ![r] = to]

(* A list, or a stream by its id                                            *)
Ask(r, title) ==
  /\ At(r, "nothing")
  /\ Goes(r, [stage |-> "look", title |-> title, asked |-> now])
  /\ UNCHANGED <<dir, index, writer, poisoned, now, changes, told>>

(* A panic, which is the end of the request                                 *)
Panics(r) == /\ Goes(r, Nothing)
             /\ UNCHANGED <<dir, index, now, changes, told>>

(* MUTANT *)
NecessaryLater(state) == now - state.last_refresh > 2 * STATE_REFRESH_SECONDS

(* refresh_necessary; refreshing does not set last_refresh                  *)
Necessary(state) == now - state.last_refresh > STATE_REFRESH_SECONDS

UpToDate(title) == index[title] # Absent /\ ~Necessary(index[title])

Streams(title) == {index[title].streams[i] : i \in DOMAIN index[title].streams}

(* What the request finds; what it does with it is its own business         *)
Answered(r) ==
  LET title == request[r].title
  IN  /\ Goes(r, [stage |-> "answered", title |-> title, asked |-> request[r].asked,
                  found |-> {s.filename : s \in Streams(title)}])
      /\ told' = told \cup {[title |-> title, id |-> s.id, filename |-> s.filename]
                             : s \in Streams(title)}
      /\ UNCHANGED <<dir, index, writer, poisoned, now, changes>>

(* read_publisher_streams                                                   *)
Look(r) ==
  /\ At(r, "look") /\ writer = Absent
  /\ IF poisoned THEN Panics(r) /\ UNCHANGED <<writer, poisoned>>
     ELSE IF UpToDate(request[r].title) THEN Answered(r)
     ELSE /\ Goes(r, [request[r] EXCEPT !.stage = "write"])
          /\ UNCHANGED <<dir, index, writer, poisoned, now, changes, told>>

(* MUTANT *)
DraftAnew(title) == [last_refresh |-> now, next_id |-> 1, streams |-> <<>>]

(* create_and_initialize's state, or the one to be refreshed                *)
Draft(title) == IF index[title] # Absent THEN index[title]
                ELSE [last_refresh |-> now, next_id |-> 1, streams |-> <<>>]

(* Another request may have made the index in the meantime.  No directory   *)
(* is as good as an empty one                                               *)
TakeWriteLock(r) ==
  LET title == request[r].title
  IN  /\ At(r, "write") /\ writer = Absent
      /\ IF poisoned THEN Panics(r) /\ UNCHANGED <<writer, poisoned>>
         ELSE /\ IF UpToDate(title)
                 THEN /\ Goes(r, [request[r] EXCEPT !.stage = "read"])
                      /\ UNCHANGED writer
                 ELSE /\ Goes(r, [stage |-> "refresh", title |-> title,
                                  asked |-> request[r].asked,
                                  draft |-> Draft(title), left |-> There(title)])
                      /\ writer' = r
              /\ UNCHANGED <<dir, index, poisoned, now, changes, told>>

IndexOf(state, name) == {i \in DOMAIN state.streams : state.streams[i].filename = name}

Listed(state, name) == \E i \in DOMAIN state.streams : state.streams[i].filename = name

(* A file that is known keeps its id and gets a new size and date; one that *)
(* is gone stays in the list                                                *)
WithEntry(state, name) ==
  IF Listed(state, name) THEN state
  ELSE [state EXCEPT !.next_id = @ + 1,
          !.streams = Append(@, [id |-> state.next_id, filename |-> name])]

(* handle_entry: panics if the file has gone since the directory was opened,*)
(* or has no name a String can hold; the entries come in any order          *)
HandleEntry(r) ==
  LET title == request[r].title
  IN  /\ At(r, "refresh")
      /\ \E n \in request[r].left :
           IF dir[title][n] = Absent \/ n \in Illegible
           THEN Panics(r) /\ writer' = Absent /\ poisoned' = TRUE
           ELSE /\ Goes(r, [request[r] EXCEPT
                              !.left = @ \ {n},
                              !.draft = WithEntry(@, n)])
                /\ UNCHANGED <<dir, index, writer, poisoned, now, changes, told>>

(* MUTANT *)
RefreshedKeepingLock(r) ==
  LET title == request[r].title
  IN  /\ At(r, "refresh") /\ request[r].left = {}
      /\ index' = [index EXCEPT ![title] = request[r].draft]
      /\ Goes(r, [stage |-> "read", title |-> title, asked |-> request[r].asked])
      /\ UNCHANGED <<dir, writer, poisoned, now, changes, told>>

(* The write lock is gone before the index is read                          *)
Refreshed(r) ==
  LET title == request[r].title
  IN  /\ At(r, "refresh") /\ request[r].left = {}
      /\ index' = [index EXCEPT ![title] = request[r].draft]
      /\ writer' = Absent
      /\ Goes(r, [stage |-> "read", title |-> title, asked |-> request[r].asked])
      /\ UNCHANGED <<dir, poisoned, now, changes, told>>

ReadAgain(r) ==
  /\ At(r, "read") /\ writer = Absent
  /\ IF poisoned THEN Panics(r) /\ UNCHANGED <<writer, poisoned>> ELSE Answered(r)

Leaves(r) == /\ At(r, "answered")
             /\ Goes(r, Nothing)
             /\ UNCHANGED <<dir, index, writer, poisoned, now, changes, told>>

(* The operator puts a file there, replaces or removes it                   *)
Change(title, name, to) ==
  /\ changes < MaxChanges /\ dir[title][name] # to
  /\ changes' = changes + 1
  /\ dir' = [dir EXCEPT ![title][name] = to]
  /\ UNCHANGED <<index, writer, poisoned, request, now, told>>

Tick == /\ now < MaxTime
        /\ now' = now + 1
        /\ UNCHANGED <<dir, index, writer, poisoned, request, changes, told>>

(* The index is not saved: ids are given anew                               *)
PublisherRestart == /\ index' = [t \in PublisherTitles |-> Absent]
                    /\ writer' = Absent
                    /\ poisoned' = FALSE
                    /\ request' = [r \in Threads |-> Nothing]
                    /\ told' = {}
                    /\ UNCHANGED <<dir, now, changes>>

PublisherNext == \/ \E r \in Threads :
                      \/ \E title \in PublisherTitles : Ask(r, title)
                      \/ Look(r) \/ TakeWriteLock(r) \/ HandleEntry(r) \/ Refreshed(r)
                      \/ ReadAgain(r) \/ Leaves(r)
                 \/ \E title \in PublisherTitles, name \in Names, to \in {Absent, now} :
                      Change(title, name, to)
                 \/ Tick \/ PublisherRestart

PublisherSpec == PublisherInit /\ [][PublisherNext]_publisherVars

-----------------------------------------------------------------------------
(* The index holds streams, the lock's holder is the one who refreshes, and *)
(* nobody refreshes under a poisoned lock.                                  *)
PublisherTypeOK ==
  /\ dir \in [PublisherTitles -> [Names -> Time \cup {Absent}]]
  /\ index \in [PublisherTitles -> State \cup {Absent}]
  /\ \A r \in Threads : At(r, "refresh") <=> writer = r
  /\ poisoned => writer = Absent
  /\ \A r \in Threads : At(r, "read") => index[request[r].title] # Absent

(* A stream's id stays its own until the server stops: no other file ever   *)
(* has it, and no file two, though the index is made by whoever comes first,*)
(* read anew while files come and go, and left half read by panics.         *)
IdsStayWithTheirFile ==
  /\ \A t \in told :
       /\ index[t.title] # Absent
       /\ [id |-> t.id, filename |-> t.filename] \in Streams(t.title)
  /\ \A s, t \in told : s.title = t.title => (s.id = t.id <=> s.filename = t.filename)

(* A file that was put there more than STATE_REFRESH_SECONDS before a       *)
(* request, and was not touched since, is found by it: the index is never   *)
(* staler than that, however requests cross while it is refreshed.          *)
PublishedFilesAreFound ==
  \A r \in Threads :
    At(r, "answered") =>
      \A n \in There(request[r].title) :
        dir[request[r].title][n] + STATE_REFRESH_SECONDS < request[r].asked =>
          n \in request[r].found
=============================================================================
