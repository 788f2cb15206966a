--------------------------- MODULE ContentStreams ---------------------------
(***************************************************************************)
(* The streams users upload (content_streaming/user_file.rs, db.rs and      *)
(* http.rs of dw-server): lobby connections ask for urls, and whoever has a *)
(* url uses it over HTTP, as often and as late as it likes while its token  *)
(* is valid.  The row of a stream is made before its data arrives, and may  *)
(* be replaced or deleted by then.                                          *)
(*                                                                         *)
(* Each function of db.rs is one critical section of CONTENT_STREAMING_DB   *)
(* and one step.  A token is checked without the database, so checking and  *)
(* using it are one step too.  Urls to read a stream, its name, category    *)
(* and times, the names of owners, and requests that are refused for their  *)
(* size change nothing else and are left out.                               *)
(*                                                                         *)
(* made numbers the upload requests; data and tags are modelled by the      *)
(* number of the request whose url, or whose stream, they came to.  The     *)
(* service is modelled for any caller; LobbyCalls shows which of its calls  *)
(* no client reaches today.                                                 *)
(***************************************************************************)
EXTENDS Integers, FiniteSets

CONSTANTS
  Accounts,      \* a user in a title: owner_id and title
  Titles,
  TitleOf,       \* account -> its title
  Connections,   \* one call of each at a time
  AccountOf,     \* connection -> the account it signed in as
  Slots,
  MAX_SLOT_COUNT,
  MaxId,         \* bound: highest row id
  MaxRequests,   \* bound: requests for an upload or a deletion
  None

ASSUME StreamsAssumption ==
  /\ {MAX_SLOT_COUNT, MaxId, MaxRequests} \subseteq Nat
  /\ TitleOf \in [Accounts -> Titles]
  /\ AccountOf \in [Connections -> Accounts]
  /\ IsFiniteSet(Connections)

Ids == 1..MaxId

(* A row of user_stream: born is the upload request that inserted it, made  *)
(* the one that replaced it last                                            *)
Stream == [account : Accounts, slot : Slots, born : Nat, made : Nat,
           data : Nat \cup {None}, metadata : BOOLEAN]

ASSUME NoneAssumption == None \notin Stream \cup Slots

VARIABLES
  user_stream,      \* id -> row, or None
  user_stream_tag,  \* id -> the uploads whose tags refer to it
  urls,       \* those whose token is valid
  checked,    \* connection -> slot it may make a stream in, or None
  made,       \* number of the last upload request
  requests,   \* counted against MaxRequests
  reused      \* history: ids given to an account while another one still had
              \* a url to them

tables == <<user_stream, user_stream_tag>>
vars == <<tables, urls, checked, made, requests, reused>>

Used == {id \in Ids : user_stream[id] # None}
StreamsOf(a) == {id \in Used : user_stream[id].account = a}
InSlot(a, slot) == {id \in StreamsOf(a) : user_stream[id].slot = slot}

(* SQLite's choice for an INTEGER PRIMARY KEY: one more than the highest of *)
(* the rows that are there now                                              *)
IsNext(id) == /\ \A used \in Used : used < id
              /\ id = 1 \/ id - 1 \in Used

Url(a, operation, id, upload) ==
  [account |-> a, operation |-> operation, id |-> id, upload |-> upload]

Init == /\ user_stream = [id \in Ids |-> None]
        /\ user_stream_tag = [id \in Ids |-> {}]
        /\ urls = {}
        /\ checked = [c \in Connections |-> None]
        /\ made = 0 /\ requests = 0
        /\ reused = {}

-----------------------------------------------------------------------------
(* Lobby connections                                                        *)

Request == /\ requests < MaxRequests
           /\ requests' = requests + 1

(* MUTANT *)
SlotIsFreeInclusive(a, slot) ==
  InSlot(a, slot) # {} \/ Cardinality(StreamsOf(a)) <= MAX_SLOT_COUNT

(* The check of request_stream_upload                                       *)
SlotIsFree(a, slot) ==
  InSlot(a, slot) # {} \/ Cardinality(StreamsOf(a)) < MAX_SLOT_COUNT

(* request_stream_upload looks at the slots ...                             *)
CheckSlot(c, slot) ==
  /\ checked[c] = None
  /\ Request
  /\ SlotIsFree(AccountOf[c], slot)
  /\ checked' = [checked EXCEPT ![c] = slot]
  /\ UNCHANGED <<tables, urls, made, reused>>

(* The row of an upload; one that replaces another keeps its id             *)
Row(a, slot, born) == [account |-> a, slot |-> slot, born |-> born,
                       made |-> made + 1, data |-> None, metadata |-> FALSE]

Insert(a, slot, id) ==
  /\ IsNext(id)
  /\ user_stream' = [user_stream EXCEPT ![id] = Row(a, slot, made + 1)]
  /\ urls' = urls \cup {Url(a, "Create", id, made + 1)}
  /\ reused' = IF \E url \in urls : url.id = id /\ url.account # a
               THEN reused \cup {id} ELSE reused

Replace(a, id) ==
  /\ user_stream' = [user_stream EXCEPT ![id] =
       Row(a, user_stream[id].slot, user_stream[id].born)]
  /\ urls' = urls \cup {Url(a, "Create", id, made + 1)}
  /\ UNCHANGED reused

(* ... and makes the stream later, whatever the slots are like by then      *)
CreateStream(c) ==
  LET a == AccountOf[c] IN
  /\ checked[c] # None
  /\ made' = made + 1
  /\ \/ \E id \in InSlot(a, checked[c]) : Replace(a, id)
     \/ /\ InSlot(a, checked[c]) = {}
        /\ \E id \in Ids : Insert(a, checked[c], id)
  /\ checked' = [checked EXCEPT ![c] = None]
  /\ UNCHANGED <<user_stream_tag, requests>>

(* MUTANT *)
FinishUploadAgain(c, slot, tagged) ==
  /\ checked[c] = None
  /\ \E id \in InSlot(AccountOf[c], slot) :
       /\ user_stream' = [user_stream EXCEPT ![id].metadata = TRUE]
       /\ user_stream_tag' =
            IF tagged
            THEN [user_stream_tag EXCEPT ![id] = @ \cup {user_stream[id].made}]
            ELSE user_stream_tag
  /\ UNCHANGED <<urls, checked, made, requests, reused>>

(* finish_stream_upload: metadata is set once, with its tags; whether there *)
(* are data plays no part                                                   *)
FinishUpload(c, slot, tagged) ==
  /\ checked[c] = None
  /\ \E id \in InSlot(AccountOf[c], slot) :
       /\ ~user_stream[id].metadata
       /\ user_stream' = [user_stream EXCEPT ![id].metadata = TRUE]
       /\ user_stream_tag' =
            IF tagged
            THEN [user_stream_tag EXCEPT ![id] = @ \cup {user_stream[id].made}]
            ELSE user_stream_tag
  /\ UNCHANGED <<urls, checked, made, requests, reused>>

RequestDeletion(c, slot) ==
  /\ checked[c] = None
  /\ Request
  /\ \E id \in InSlot(AccountOf[c], slot) :
       urls' = urls \cup {Url(AccountOf[c], "Delete", id, None)}
  /\ UNCHANGED <<tables, checked, made, reused>>

-----------------------------------------------------------------------------
(* HTTP                                                                     *)

(* MUTANT *)
GrantsAnything(url, operation, id) ==
  /\ url.id = id
  /\ user_stream[id] # None
  /\ TitleOf[url.account] = TitleOf[user_stream[id].account]

(* validate_jwt, and the title and id of the queries that follow; nothing   *)
(* compares the account                                                     *)
Grants(url, operation, id) ==
  /\ url.operation = operation
  /\ url.id = id
  /\ user_stream[id] # None
  /\ TitleOf[url.account] = TitleOf[user_stream[id].account]

(* set_stream_data: once for each upload request                            *)
Upload(url, id) ==
  /\ Grants(url, "Create", id)
  /\ user_stream[id].data = None
  /\ user_stream' = [user_stream EXCEPT ![id].data = url.upload]
  /\ UNCHANGED <<user_stream_tag, urls, checked, made, requests, reused>>

(* MUTANT *)
DeleteRowOnly(url, id) ==
  /\ Grants(url, "Delete", id)
  /\ user_stream' = [user_stream EXCEPT ![id] = None]
  /\ UNCHANGED <<user_stream_tag, urls, checked, made, requests, reused>>

(* delete_db_stream: the tags go ON DELETE CASCADE.  Its statement names an *)
(* alias without AS; an SQLite that refuses that deletes nothing, and the   *)
(* step is never taken.                                                     *)
Delete(url, id) ==
  /\ Grants(url, "Delete", id)
  /\ user_stream' = [user_stream EXCEPT ![id] = None]
  /\ user_stream_tag' = [user_stream_tag EXCEPT ![id] = {}]
  /\ reused' = reused \ {id}
  /\ UNCHANGED <<urls, checked, made, requests>>

Expire(url) == /\ urls' = urls \ {url}
               /\ UNCHANGED <<tables, checked, made, requests, reused>>

(* The tables survive; tokens do not, as their secret is made anew          *)
Restart == /\ urls' = {}
           /\ checked' = [c \in Connections |-> None]
           /\ UNCHANGED <<tables, made, requests, reused>>

Next == \/ \E c \in Connections :
             \/ \E slot \in Slots :
                  \/ CheckSlot(c, slot) \/ RequestDeletion(c, slot)
                  \/ \E tagged \in BOOLEAN : FinishUpload(c, slot, tagged)
             \/ CreateStream(c)
        \/ \E url \in urls :
             \/ \E id \in Ids : Upload(url, id) \/ Delete(url, id)
             \/ Expire(url)
        \/ Restart

Spec == Init /\ [][Next]_vars

-----------------------------------------------------------------------------
(* Rows are made for requests, no account has two in a slot, and tags refer *)
(* to rows.                                                                 *)
TypeOK ==
  /\ user_stream \in [Ids -> Stream \cup {None}]
  /\ user_stream_tag \in [Ids -> SUBSET Nat]
  /\ urls \subseteq [account : Accounts, operation : {"Create", "Delete"},
                     id : Ids, upload : Nat \cup {None}]
  /\ checked \in [Connections -> Slots \cup {None}]
  /\ made \in Nat
  /\ reused \subseteq Used
  /\ \A id \in Used : InSlot(user_stream[id].account, user_stream[id].slot)
                         = {id}
  /\ \A id \in Ids \ Used : user_stream_tag[id] = {}

ConnectionsOf(a) == {c \in Connections : AccountOf[c] = a}

(* An account has no more than MAX_SLOT_COUNT streams; each connection it   *)
(* has besides the first can push it one further, by crossing the check of  *)
(* another, or the deletion of the stream whose slot it had found taken.    *)
SlotsOverrunOnlyByCrossing ==
  \A a \in Accounts : Cardinality(ConnectionsOf(a)) > 0 =>
    Cardinality(StreamsOf(a))
      <= MAX_SLOT_COUNT + Cardinality(ConnectionsOf(a)) - 1

(* Tags refer to the stream they were set for, or to one that replaced it,  *)
(* and never to another that was given the same id after a deletion.        *)
TagsGoWithTheirStream ==
  \A id \in Used : \A upload \in user_stream_tag[id] :
    user_stream[id].born <= upload

HasUrl(a, operation, id) ==
  \E url \in urls : /\ url.account = a
                    /\ url.operation = operation /\ url.id = id

(* A step that deletes the stream or gives it data uses a url its account   *)
(* was handed for just that                                                 *)
UsesOwnersUrl(id) ==
  LET a == user_stream[id].account IN
  IF user_stream'[id] = None THEN HasUrl(a, "Delete", id)
  ELSE user_stream'[id].data \notin {user_stream[id].data, None} =>
         HasUrl(a, "Create", id)

(* Nobody's stream is deleted or given data except with a url it was handed *)
(* for just that, however often urls are used and whatever became of the    *)
(* stream they were made for; unless its id was given away while another    *)
(* account still had a url to it.                                           *)
StreamsAreTheirOwners == [][\A id \in Used \ reused : UsesOwnersUrl(id)]_vars

(* What is published stays as it is until its owner asks to upload to the   *)
(* slot again: repeated or late uploads and finishes change neither the     *)
(* data nor the metadata nor the tags.                                      *)
PublishedUntilReplaced ==
  [][\A id \in Used :
       user_stream'[id] # None /\ user_stream'[id].made = user_stream[id].made =>
         /\ user_stream[id].data # None =>
              user_stream'[id].data = user_stream[id].data
         /\ user_stream[id].metadata =>
              /\ user_stream'[id].metadata
              /\ user_stream_tag'[id] = user_stream_tag[id]]_vars
=============================================================================
