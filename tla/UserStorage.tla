---------------------------- MODULE UserStorage ----------------------------
(***************************************************************************)
(* The storage service: the files users save (dw-server                    *)
(* lobby/storage/user_file.rs, a table in SQLite) and the files the         *)
(* operator publishes for a title (publisher_file.rs, a directory), behind   *)
(* the tasks of libbitdemon lobby/storage/handler.rs.                       *)
(*                                                                         *)
(* Every connection has its thread.  A query or transaction runs under the  *)
(* mutex of the Db, so it is one step.  The directory has no lock: reading  *)
(* it, an entry's file and an entry's metadata are steps of their own, and   *)
(* the operator may change it between them.  An answer that has more than   *)
(* an error code is on its way until it is sent; the server may stop first. *)
(*                                                                         *)
(* No task reaches the service's deletion, its access by name or its public *)
(* visibility, so they are left out, as are the times of users' files, that *)
(* are only shown and filtered by.                                          *)
(* No file is removed from the table, so its rowids count up from 1.        *)
(*                                                                         *)
(* Definitions marked MUTANT are plausible bugs; see SessionRegistry.       *)
(***************************************************************************)
EXTENDS Naturals, Sequences, FiniteSets

CONSTANTS
  Connections, Users, Titles,
  Names,          \* of users' files
  TooLong,        \* those longer than MAX_FILENAME_LENGTH
  Contents,       \* of users' files
  TooLarge,       \* those larger than MAX_USER_FILE_SIZE
  PublishedNames, \* of the operator's files
  Directories,    \* the titles there is a directory for
  Hash,           \* FNV-1a of these, without the highest bit
  HIGH_BIT,       \* 2^63
  Limits,         \* max_num_results, as clients send it
  MaxFiles, MaxTime, MaxChanges,  \* bounds: rows, times, changes of the directory
  MaxBoth,        \* bound: rows and changes together
  None

VARIABLES
  rows,      \* user_file, by id
  published, \* the directory of a title: when its files were created
  session,   \* user and title of a connection that has signed in, or None
  request,   \* where a connection's request is
  told,      \* history: ids clients got for the files they created
  changes    \* the changes of the directory so far

vars == <<rows, published, session, request, told, changes>>

ASSUME StorageAssumption ==
  /\ MaxFiles \in Nat /\ MaxTime \in Nat /\ MaxChanges \in Nat /\ MaxBoth \in Nat
  /\ HIGH_BIT \in Nat /\ HIGH_BIT > MaxFiles  \* SQLite's rowids are less
  /\ Hash \in [PublishedNames -> 0..HIGH_BIT - 1]
  /\ Limits \subseteq Nat
  /\ Directories \subseteq Titles
  /\ None \notin [user : Users, title : Titles]

-----------------------------------------------------------------------------
Time == 0..MaxTime
Session == [user : Users, title : Titles]
Row == [filename : Names, title : Titles, owner : Users, data : Contents]

(* MUTANT *)
FileIdLow(name) == Hash[name]

(* DwPublisherStorageService::file_id                                       *)
FileId(name) == HIGH_BIT + Hash[name]

Ids == 1..MaxFiles \cup {FileId(name) : name \in PublishedNames}

Nothing == [stage |-> "nothing"]

(* Answers with nothing but an error code, or none, leave at once           *)
Answer(code) == Nothing
FileOf(id, name) == [stage |-> "answer", kind |-> "published", id |-> id, name |-> name]

-----------------------------------------------------------------------------
Init == /\ rows = <<>>
        /\ published = [t \in Titles |-> [n \in PublishedNames |-> None]]
        /\ session = [c \in Connections |-> None]
        /\ request = [c \in Connections |-> Nothing]
        /\ told = {}
        /\ changes = 0

There(title) == {n \in PublishedNames : published[title][n] # None}

Idle(c) == session[c] # None /\ request[c] = Nothing

Goes(c, to) == /\ request' = [request EXCEPT ![c] = to]
               /\ UNCHANGED <<published, session, told, changes>>

-----------------------------------------------------------------------------
(* Saving                                                                   *)

(* MUTANT *)
ExistingSwapped(name, s) ==
  {i \in DOMAIN rows : /\ rows[i].filename = name
                       /\ rows[i].title = s.user /\ rows[i].owner = s.title}

Existing(name, s) ==
  {i \in DOMAIN rows : /\ rows[i].filename = name
                       /\ rows[i].title = s.title /\ rows[i].owner = s.user}

Refusal(name, data) == IF name \in TooLong THEN "FilenameMaxLengthExceeded"
                       ELSE IF data \in TooLarge THEN "FileSizeLimitExceeded"
                       ELSE "NoError"

Overwrite(id, data) == [rows EXCEPT ![id].data = data]

(* create_storage_file: a file of the same name is overwritten              *)
Save(s, name, data, id) ==
  \/ /\ id \in Existing(name, s)
     /\ rows' = Overwrite(id, data)
  \/ /\ Existing(name, s) = {} /\ id = Len(rows) + 1
     /\ Len(rows) < MaxFiles /\ Len(rows) + changes < MaxBoth
     /\ rows' = Append(rows, [filename |-> name, title |-> s.title,
                              owner |-> s.user, data |-> data])

CreateFile(c, name, data) ==
  LET refusal == Refusal(name, data)
  IN  /\ Idle(c)
      /\ IF refusal # "NoError" THEN Goes(c, Answer(refusal)) /\ UNCHANGED rows
         ELSE \E id \in 1..Len(rows) + 1 :
                /\ Save(session[c], name, data, id)
                /\ Goes(c, [stage |-> "answer", kind |-> "created",
                            id |-> id, name |-> name])

(* MUTANT *)
MayUpdateAnyTitle(id, s) ==
  IF id \notin DOMAIN rows THEN "NoFile"
  ELSE IF rows[id].owner # s.user THEN "PermissionDenied" ELSE "NoError"

MayUpdate(id, s) ==
  IF id \notin DOMAIN rows \/ rows[id].title # s.title THEN "NoFile"
  ELSE IF rows[id].owner # s.user THEN "PermissionDenied" ELSE "NoError"

(* update_file_by_id                                                        *)
UpdateFileById(c, id, data) ==
  LET may == IF data \in TooLarge THEN "FileSizeLimitExceeded"
             ELSE MayUpdate(id, session[c])
  IN  /\ Idle(c)
      /\ rows' = IF may = "NoError" THEN Overwrite(id, data) ELSE rows
      /\ Goes(c, Answer(may))

-----------------------------------------------------------------------------
(* Getting a file: an own one, or else a published one                      *)

(* The user's file whatever its title; a published file's id is no rowid    *)
Own(id, user) == id \in DOMAIN rows /\ rows[id].owner = user

GetFileById(c, id) ==
  /\ Idle(c)
  /\ Goes(c, IF Own(id, session[c].user)
             THEN [stage |-> "answer", kind |-> "own", ids |-> {id}]
             ELSE [stage |-> "find", id |-> id])
  /\ UNCHANGED rows

(* get_publisher_file_data_by_id; no directory is as good as an empty one   *)
FindPublished(c) ==
  LET id == request[c].id
      found == {n \in There(session[c].title) : FileId(n) = id}
  IN  /\ request[c].stage = "find"
      /\ \/ found = {} /\ Goes(c, Answer("NoFile"))
         \/ \E n \in found : Goes(c, [stage |-> "read", id |-> id, name |-> n])
      /\ UNCHANGED rows

ReadPublished(c) ==
  /\ request[c].stage = "read"
  /\ Goes(c, IF request[c].name \in There(session[c].title)
             THEN [request[c] EXCEPT !.stage = "info"]
             ELSE Answer("NoFile"))
  /\ UNCHANGED rows

(* map_info_info: metadata of a file that has gone makes it panic, and that *)
(* ends the connection                                                      *)
Panic(c) == /\ request' = [request EXCEPT ![c] = Nothing]
            /\ session' = [session EXCEPT ![c] = None]
            /\ UNCHANGED <<published, told, changes>>

InfoOfPublished(c) ==
  /\ request[c].stage = "info"
  /\ IF request[c].name \in There(session[c].title)
     THEN Goes(c, FileOf(request[c].id, request[c].name))
     ELSE Panic(c)
  /\ UNCHANGED rows

-----------------------------------------------------------------------------
(* Lists                                                                    *)

(* MUTANT *)
VisibleToAll(owner, s) == {i \in DOMAIN rows : rows[i].owner = owner}

(* Files are private, and only the owner may see these                      *)
Visible(owner, s) == {i \in DOMAIN rows : rows[i].owner = owner /\ owner = s.user}

(* list_files_by_owner: the first of the owner's files of the title that    *)
(* were created late enough (an update does not count) and whose names      *)
(* match the filter; which do is left open                                  *)
ListFilesByOwner(c, owner, limit, matching) ==
  LET s == session[c]
      all == {i \in Visible(owner, s) \cap matching : rows[i].title = s.title}
  IN  /\ Idle(c)
      /\ Goes(c, [stage |-> "answer", kind |-> "own",
                  ids |-> {i \in all : Cardinality({j \in all : j < i}) < limit}])
      /\ UNCHANGED rows

(* list_publisher_files: the entries that match the filter, in any order.   *)
(* steady is history: those that have not changed since                     *)
ListPublisherFiles(c, since, limit, matching) ==
  LET entries == There(session[c].title) \cap matching
  IN  /\ Idle(c)
      /\ Goes(c, [stage |-> "list", left |-> entries, since |-> since,
                  limit |-> limit, files |-> {}, passed |-> {}, steady |-> entries])
      /\ UNCHANGED rows

(* MUTANT *)
EnoughLookedAt(r) == Cardinality(r.files \cup r.passed) >= r.limit

(* take(item_count), after the files that are too old have been passed over *)
Enough(r) == Cardinality(r.files) >= r.limit

Listing(c) == request[c].stage = "list"

NextEntry(c) ==
  LET r == request[c]
      At(n) == published[session[c].title][n]
  IN  /\ Listing(c) /\ ~Enough(r)
      /\ \E n \in r.left :
           IF At(n) = None THEN Panic(c)
           ELSE IF At(n) >= r.since
           THEN Goes(c, [r EXCEPT !.left = @ \ {n}, !.files = @ \cup {n}])
           ELSE Goes(c, [r EXCEPT !.left = @ \ {n}, !.passed = @ \cup {n}])
      /\ UNCHANGED rows

(* An empty list is answered with NoFile, if there is a directory           *)
ListComplete(c) ==
  /\ Listing(c) /\ (request[c].left = {} \/ Enough(request[c]))
  /\ Goes(c, [request[c] EXCEPT !.stage = "listed"])
  /\ UNCHANGED rows

-----------------------------------------------------------------------------
(* The answer leaves                                                        *)
Send(c) ==
  LET s == session[c]
      r == request[c]
  IN  /\ r.stage \in {"answer", "listed"}
      /\ request' = [request EXCEPT ![c] = Nothing]
      /\ told' = IF r.stage = "answer" /\ r.kind = "created"
                 THEN told \cup {[id |-> r.id, filename |-> r.name,
                                  title |-> s.title, owner |-> s.user]}
                 ELSE told
      /\ UNCHANGED <<rows, published, session, changes>>

-----------------------------------------------------------------------------
(* The rest of the world                                                    *)

SignIn(c, user, title) ==
  /\ session[c] = None
  /\ session' = [session EXCEPT ![c] = [user |-> user, title |-> title]]
  /\ UNCHANGED <<rows, published, request, told, changes>>

(* Its thread notices when it has nothing more to do but send               *)
Leave(c) ==
  /\ session[c] # None
  /\ request[c].stage \in {"nothing", "answer", "listed"}
  /\ session' = [session EXCEPT ![c] = None]
  /\ request' = [request EXCEPT ![c] = Nothing]
  /\ UNCHANGED <<rows, published, told, changes>>

(* The server stops at any time, and is started again                       *)
Restart ==
  /\ session' = [c \in Connections |-> None]
  /\ request' = [c \in Connections |-> Nothing]
  /\ UNCHANGED <<rows, published, told, changes>>

(* The operator adds, replaces or removes a file; the clock need not go on   *)
Change(title, name, to) ==
  /\ changes < MaxChanges /\ Len(rows) + changes < MaxBoth
  /\ published[title][name] # to
  /\ changes' = changes + 1
  /\ published' = [published EXCEPT ![title][name] = to]
  /\ request' = [c \in Connections |->
                   IF /\ request[c].stage \in {"list", "listed"}
                      /\ session[c].title = title
                   THEN [request[c] EXCEPT !.steady = @ \ {name}] ELSE request[c]]
  /\ UNCHANGED <<rows, session, told>>

Next ==
  \/ \E c \in Connections :
       \/ \E user \in Users, title \in Titles : SignIn(c, user, title)
       \/ \E name \in Names, data \in Contents : CreateFile(c, name, data)
       \/ \E id \in Ids : GetFileById(c, id)
       \/ \E id \in Ids, data \in Contents : UpdateFileById(c, id, data)
       \/ \E owner \in Users, limit \in Limits, matching \in SUBSET DOMAIN rows :
            ListFilesByOwner(c, owner, limit, matching)
       \/ \E since \in Time, limit \in Limits, matching \in SUBSET PublishedNames :
            ListPublisherFiles(c, since, limit, matching)
       \/ FindPublished(c) \/ ReadPublished(c) \/ InfoOfPublished(c)
       \/ NextEntry(c) \/ ListComplete(c)
       \/ Send(c) \/ Leave(c)
  \/ \E title \in Directories, name \in PublishedNames, to \in Time \cup {None} : Change(title, name, to)
  \/ Restart

Spec == Init /\ [][Next]_vars

-----------------------------------------------------------------------------
(* Rows, the directory and the sessions hold what they should, and only a   *)
(* connection that has signed in has a request.                             *)
TypeOK ==
  /\ rows \in Seq(Row) /\ Len(rows) <= MaxFiles
  /\ published \in [Titles -> [PublishedNames -> Time \cup {None}]]
  /\ changes \in 0..MaxChanges
  /\ session \in [Connections -> Session \cup {None}]
  /\ \A c \in Connections : request[c] # Nothing => session[c] # None
  /\ told \subseteq [id : 1..MaxFiles, filename : Names, title : Titles, owner : Users]

(* A user's files of a title have different names, also when a create is    *)
(* repeated because its answer was lost or two connections save at once     *)
(* (the table has no unique index).                                         *)
OneFilePerName ==
  \A i, j \in DOMAIN rows :
    /\ rows[i].filename = rows[j].filename
    /\ rows[i].title = rows[j].title
    /\ rows[i].owner = rows[j].owner
    => i = j

(* An id a client got for a file it created stays the id of that file, of   *)
(* that owner and title, through updates and restarts, and no answer takes  *)
(* it for the id of a published file, also when the owner's query failed.   *)
AnIdMeansOneFile ==
  /\ \A t \in told :
       /\ t.id \in DOMAIN rows
       /\ rows[t.id].filename = t.filename
       /\ rows[t.id].title = t.title
       /\ rows[t.id].owner = t.owner
  /\ \A c \in Connections :
       request[c].stage = "answer" /\ request[c].kind = "published" =>
         request[c].id \notin {t.id : t \in told}

(* Whoever asks and however, users' files go to their owners only.          *)
OthersSeeNothing ==
  \A c \in Connections :
    request[c].stage = "answer" /\ request[c].kind = "own" =>
      \A i \in request[c].ids : rows[i].owner = session[c].user

(* A list of published files with fewer than were asked for has every file  *)
(* that was there all the time, matched and is new enough, whatever the     *)
(* operator did to the directory meanwhile and however many older files     *)
(* were passed over.                                                        *)
PublisherListMissesNothing ==
  \A c \in Connections :
    LET r == request[c]
    IN  r.stage = "listed" /\ Cardinality(r.files) < r.limit =>
          \A n \in r.steady : published[session[c].title][n] >= r.since => n \in r.files

(* A saved file never disappears and keeps all but its data, and those      *)
(* change only at a request of its owner, signed in for the file's title.   *)
FilesChangeOnlyForTheirOwner ==
  [][\A i \in DOMAIN rows :
       /\ i \in DOMAIN rows'
       /\ rows'[i] # rows[i] =>
            /\ rows'[i] = [rows[i] EXCEPT !.data = rows'[i].data]
            /\ \E c \in Connections :
                 /\ Idle(c)
                 /\ session[c] = [user |-> rows[i].owner, title |-> rows[i].title]]_vars
=============================================================================
