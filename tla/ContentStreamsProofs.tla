------------------------ MODULE ContentStreamsProofs ------------------------
(***************************************************************************)
(* Proofs about the two kinds of streams.  The models have no variable in   *)
(* common, so this module extends both and each part speaks of one only.    *)
(*                                                                         *)
(* Streams users upload (ContentStreams), for every number of accounts,     *)
(* connections and slots, and however often and late urls are used.         *)
(* UrlsNameOwners says what comparing no more than the id leaves of         *)
(* ownership: a url to a row is its owner's unless the id was reused.       *)
(* BornBeforeMade is what new tags need: they carry the number of the       *)
(* request that last replaced the row.                                      *)
(*                                                                         *)
(* Streams an operator publishes (PublisherStreams), for any number of      *)
(* threads, titles and names, whatever the time between refreshes.          *)
(* What a client was told is about the index; the index is replaced by the  *)
(* draft of whoever holds the write lock.  So the inductive invariant says  *)
(* of the draft what it says of the index, that it has all the index has,   *)
(* and that each file old enough is in it or left to be looked at.          *)
(***************************************************************************)
EXTENDS ContentStreams, PublisherStreams, FiniteSetTheorems,
        SequenceTheorems, TLAPS

-----------------------------------------------------------------------------
(* ContentStreams                                                           *)

BornBeforeMade ==
  \A id \in Used : /\ user_stream[id].born <= user_stream[id].made
                    /\ user_stream[id].made <= made

UrlsNameOwners ==
  \A url \in urls : url.id \in Used \ reused =>
    url.account = user_stream[url.id].account

IInv == TypeOK /\ BornBeforeMade /\ TagsGoWithTheirStream /\ UrlsNameOwners

(* The empty tables satisfy the invariant.                                  *)
LEMMA InitIInv == Init => IInv
  BY NoneAssumption
     DEF Init, IInv, TypeOK, BornBeforeMade, TagsGoWithTheirStream,
         UrlsNameOwners, Used

(* A new row gets an id nothing refers to but urls, of which reused keeps   *)
(* track.                                                                   *)
LEMMA InsertStep ==
  ASSUME IInv, NEW a \in Accounts, NEW slot \in Slots, NEW id \in Ids,
         InSlot(a, slot) = {}, Insert(a, slot, id),
         made' = made + 1, user_stream_tag' = user_stream_tag,
         checked' \in [Connections -> Slots \cup {None}]
  PROVE  IInv'
<1>1. id \notin Used /\ user_stream_tag[id] = {}
  BY DEF Insert, IsNext, Used, IInv, TypeOK, Ids
<1>2. Row(a, slot, made + 1) \in Stream
  BY DEF Row, Stream, IInv, TypeOK
<1>3. user_stream' = [user_stream EXCEPT ![id] = Row(a, slot, made + 1)]
  BY DEF Insert
<1>4. Used' = Used \cup {id}
  BY <1>2, <1>3, NoneAssumption DEF Used, IInv, TypeOK
<1>5. TypeOK'
  <2>1. urls' \subseteq [account : Accounts,
                         operation : {"Create", "Delete"}, id : Ids,
                         upload : Nat \cup {None}]
    BY DEF Insert, Url, IInv, TypeOK
  <2>2. reused' \subseteq Used'
    BY <1>4 DEF Insert, IInv, TypeOK
  <2>3. \A i \in Used' : InSlot(user_stream[i].account,
                                user_stream[i].slot)' = {i}
    BY <1>1, <1>2, <1>3, <1>4
       DEF InSlot, StreamsOf, Row, Used, IInv, TypeOK
  <2> QED
    BY <1>1, <1>2, <1>3, <1>4, <2>1, <2>2, <2>3 DEF IInv, TypeOK
<1>6. BornBeforeMade'
  BY <1>1, <1>3, <1>4 DEF BornBeforeMade, Row, Stream, IInv, TypeOK, Used
<1>7. TagsGoWithTheirStream'
  BY <1>1, <1>3, <1>4 DEF TagsGoWithTheirStream, IInv, TypeOK, Used
<1>8. UrlsNameOwners'
  <2> SUFFICES ASSUME NEW url \in urls', url.id \in Used' \ reused'
               PROVE  url.account = user_stream'[url.id].account
    BY DEF UrlsNameOwners
  <2>1. CASE url.id = id
    <3>1. user_stream'[id].account = a
      BY <1>3 DEF Row, IInv, TypeOK
    <3>2. CASE url \in urls
      BY <2>1, <3>1, <3>2 DEF Insert
    <3>3. CASE url \notin urls
      BY <3>1, <3>3, <2>1 DEF Insert, Url
    <3> QED  BY <3>2, <3>3
  <2>2. CASE url.id # id
    <3>1. url \in urls /\ url.id \in Used \ reused
      BY <2>2, <1>4 DEF Insert, Url
    <3> QED  BY <2>2, <3>1, <1>3 DEF UrlsNameOwners, IInv, TypeOK, Used
  <2> QED  BY <2>1, <2>2
<1> QED  BY <1>5, <1>6, <1>7, <1>8 DEF IInv

(* A row that changes without changing hands, slot or birth, and was not    *)
(* made before it was born, keeps the invariant; so do tags of that row, and *)
(* urls to it handed to its owner.                                          *)
LEMMA RowStep ==
  ASSUME IInv, NEW id \in Used, NEW row \in Stream,
         row.account = user_stream[id].account,
         row.slot = user_stream[id].slot,
         row.born = user_stream[id].born,
         row.born <= row.made, row.made <= made', made <= made',
         user_stream' = [user_stream EXCEPT ![id] = row],
         NEW tags \in SUBSET {row.made},
         user_stream_tag' = [user_stream_tag EXCEPT ![id] = @ \cup tags],
         NEW new \in SUBSET [account : {row.account},
                             operation : {"Create", "Delete"},
                             id : {id}, upload : Nat \cup {None}],
         urls' = urls \cup new,
         checked' \in [Connections -> Slots \cup {None}],
         made' \in Nat, reused' = reused
  PROVE  IInv'
<1>1. Used' = Used /\ id \in Ids
  BY NoneAssumption DEF Used, IInv, TypeOK
<1>2. TypeOK'
  <2>1. \A i \in Used' : InSlot(user_stream[i].account,
                                user_stream[i].slot)' = {i}
    BY <1>1 DEF InSlot, StreamsOf, Used, IInv, TypeOK
  <2>2. user_stream_tag' \in [Ids -> SUBSET Nat]
    BY <1>1 DEF IInv, TypeOK, Stream
  <2>3. urls' \subseteq [account : Accounts,
                         operation : {"Create", "Delete"}, id : Ids,
                         upload : Nat \cup {None}]
    BY <1>1 DEF IInv, TypeOK, Stream
  <2> QED  BY <1>1, <2>1, <2>2, <2>3 DEF IInv, TypeOK
<1>3. BornBeforeMade'
  BY <1>1 DEF BornBeforeMade, Stream, IInv, TypeOK, Used
<1>4. TagsGoWithTheirStream'
  BY <1>1 DEF TagsGoWithTheirStream, IInv, TypeOK, Used
<1>5. UrlsNameOwners'
  BY <1>1 DEF UrlsNameOwners, IInv, TypeOK, Used
<1> QED  BY <1>2, <1>3, <1>4, <1>5 DEF IInv

(* Making a stream inserts a row or replaces one.                           *)
LEMMA CreateStreamStep ==
  ASSUME IInv, NEW c \in Connections, CreateStream(c)
  PROVE  IInv'
<1> DEFINE a == AccountOf[c]
<1>1. a \in Accounts /\ checked[c] \in Slots
  BY StreamsAssumption DEF CreateStream, IInv, TypeOK
<1>2. /\ checked' \in [Connections -> Slots \cup {None}]
      /\ made' = made + 1 /\ made' \in Nat
      /\ user_stream_tag' = user_stream_tag
  BY DEF CreateStream, IInv, TypeOK
<1>3. CASE InSlot(a, checked[c]) = {}
  <2>1. PICK id \in Ids : Insert(a, checked[c], id)
    BY <1>3 DEF CreateStream
  <2> QED  BY <1>1, <1>2, <1>3, <2>1, InsertStep
<1>4. ASSUME NEW id \in InSlot(a, checked[c]), Replace(a, id)
      PROVE  IInv'
  <2> DEFINE row == Row(a, user_stream[id].slot, user_stream[id].born)
  <2>1. id \in Used /\ id \in Ids /\ user_stream[id] \in Stream
    BY <1>4 DEF InSlot, StreamsOf, Used, IInv, TypeOK
  <2>2. row \in Stream
    BY <1>1, <1>2, <2>1 DEF Row, Stream, IInv, TypeOK
  <2>3. /\ row.account = user_stream[id].account
        /\ row.slot = user_stream[id].slot
        /\ row.born = user_stream[id].born
        /\ row.made = made + 1
    BY <1>4 DEF Row, InSlot, StreamsOf
  <2>4. row.born <= row.made
    <3>1. /\ user_stream[id].born <= user_stream[id].made
          /\ user_stream[id].made <= made
      BY <2>1 DEF IInv, BornBeforeMade
    <3> QED  BY <2>1, <2>3, <3>1 DEF Stream, IInv, TypeOK
  <2>5. user_stream' = [user_stream EXCEPT ![id] = row]
    BY <1>4 DEF Replace
  <2> DEFINE new == {Url(a, "Create", id, made + 1)}
  <2>6. /\ urls' = urls \cup new
        /\ new \in SUBSET [account : {row.account},
                           operation : {"Create", "Delete"},
                           id : {id}, upload : Nat \cup {None}]
    BY <1>2, <1>4 DEF Replace, Url, Row
  <2>7. reused' = reused
    BY <1>4 DEF Replace
  <2>8. /\ user_stream_tag' = [user_stream_tag EXCEPT ![id] = @ \cup {}]
        /\ {} \in SUBSET {row.made}
    BY <1>2 DEF IInv, TypeOK
  <2>9. row.made <= made' /\ made <= made'
    BY <1>2, <2>3 DEF IInv, TypeOK
  <2> HIDE DEF row, new
  <2> QED
    BY <1>2, <2>1, <2>2, <2>3, <2>4, <2>5, <2>6, <2>7, <2>8, <2>9, RowStep
<1> QED  BY <1>3, <1>4 DEF CreateStream

(* Metadata and tags come to a row that stays where it is.                  *)
LEMMA FinishUploadStep ==
  ASSUME IInv, NEW c \in Connections, NEW slot \in Slots,
         NEW tagged \in BOOLEAN, FinishUpload(c, slot, tagged)
  PROVE  IInv'
<1>1. PICK id \in InSlot(AccountOf[c], slot) :
        /\ user_stream' = [user_stream EXCEPT ![id].metadata = TRUE]
        /\ user_stream_tag' =
             IF tagged THEN [user_stream_tag EXCEPT
                               ![id] = @ \cup {user_stream[id].made}]
             ELSE user_stream_tag
  BY DEF FinishUpload
<1> DEFINE row == [user_stream[id] EXCEPT !.metadata = TRUE]
           tags == IF tagged THEN {row.made} ELSE {}
<1>2. id \in Used /\ user_stream[id] \in Stream
  BY <1>1 DEF InSlot, StreamsOf, Used, IInv, TypeOK
<1>3. /\ row \in Stream
      /\ row.account = user_stream[id].account
      /\ row.slot = user_stream[id].slot
      /\ row.born = user_stream[id].born
      /\ row.made = user_stream[id].made
  BY <1>2 DEF Stream
<1>4. row.born <= row.made /\ row.made <= made' /\ made <= made'
        /\ made' \in Nat
  BY <1>2, <1>3 DEF FinishUpload, BornBeforeMade, IInv, TypeOK
<1>5. user_stream' = [user_stream EXCEPT ![id] = row]
  BY <1>1, <1>2
<1>6. /\ tags \in SUBSET {row.made}
      /\ user_stream_tag' = [user_stream_tag EXCEPT ![id] = @ \cup tags]
  BY <1>1, <1>2, <1>3 DEF IInv, TypeOK
<1>7. /\ urls' = urls \cup {} /\ reused' = reused
      /\ checked' \in [Connections -> Slots \cup {None}]
  BY DEF FinishUpload, IInv, TypeOK
<1> HIDE DEF row, tags
<1> QED  BY <1>2, <1>3, <1>4, <1>5, <1>6, <1>7, RowStep

(* Data come to a row that stays where it is.                               *)
LEMMA UploadStep ==
  ASSUME IInv, NEW url \in urls, NEW id \in Ids, Upload(url, id)
  PROVE  IInv'
<1> DEFINE row == [user_stream[id] EXCEPT !.data = url.upload]
<1>1. id \in Used /\ user_stream[id] \in Stream
  BY DEF Upload, Grants, Used, IInv, TypeOK
<1>2. /\ row \in Stream
      /\ row.account = user_stream[id].account
      /\ row.slot = user_stream[id].slot
      /\ row.born = user_stream[id].born
      /\ row.made = user_stream[id].made
  BY <1>1 DEF Stream, IInv, TypeOK
<1>3. row.born <= row.made /\ row.made <= made' /\ made <= made'
        /\ made' \in Nat
  BY <1>1, <1>2 DEF Upload, BornBeforeMade, IInv, TypeOK
<1>4. user_stream' = [user_stream EXCEPT ![id] = row]
  BY <1>1 DEF Upload
<1>5. /\ {} \in SUBSET {row.made}
      /\ user_stream_tag' = [user_stream_tag EXCEPT ![id] = @ \cup {}]
      /\ urls' = urls \cup {} /\ reused' = reused
      /\ checked' \in [Connections -> Slots \cup {None}]
  BY DEF Upload, IInv, TypeOK
<1> HIDE DEF row
<1> QED  BY <1>1, <1>2, <1>3, <1>4, <1>5, RowStep

(* A row goes with its tags.                                                *)
LEMMA DeleteStep ==
  ASSUME IInv, NEW url \in urls, NEW id \in Ids, Delete(url, id)
  PROVE  IInv'
<1>1. Used' = Used \ {id}
  BY DEF Delete, Used, IInv, TypeOK
<1>2. TypeOK'
  <2>1. \A i \in Used' : InSlot(user_stream[i].account,
                                user_stream[i].slot)' = {i}
    BY <1>1 DEF Delete, InSlot, StreamsOf, Used, IInv, TypeOK
  <2>2. /\ user_stream' \in [Ids -> Stream \cup {None}]
        /\ user_stream_tag' \in [Ids -> SUBSET Nat]
        /\ \A i \in Ids \ Used' : user_stream_tag'[i] = {}
    BY <1>1 DEF Delete, IInv, TypeOK
  <2> QED  BY <1>1, <2>1, <2>2 DEF Delete, IInv, TypeOK
<1>3. BornBeforeMade'
  BY <1>1 DEF Delete, BornBeforeMade, IInv, TypeOK, Used
<1>4. TagsGoWithTheirStream'
  BY <1>1 DEF Delete, TagsGoWithTheirStream, IInv, TypeOK, Used
<1>5. UrlsNameOwners'
  BY <1>1 DEF Delete, UrlsNameOwners, IInv, TypeOK, Used
<1> QED  BY <1>2, <1>3, <1>4, <1>5 DEF IInv

(* The remaining steps leave the tables alone; urls go, or one to an own    *)
(* stream is handed out.                                                    *)
LEMMA TablesUnchangedStep ==
  ASSUME IInv, UNCHANGED <<tables, made, reused>>,
         urls' \subseteq [account : Accounts,
                          operation : {"Create", "Delete"}, id : Ids,
                          upload : Nat \cup {None}],
         \A url \in urls' \ urls : url.account = user_stream[url.id].account,
         checked' \in [Connections -> Slots \cup {None}]
  PROVE  IInv'
<1>1. Used' = Used
  BY DEF Used, tables
<1>2. TypeOK'
  BY <1>1 DEF TypeOK, IInv, InSlot, StreamsOf, tables
<1>3. BornBeforeMade' /\ TagsGoWithTheirStream'
  BY <1>1 DEF BornBeforeMade, TagsGoWithTheirStream, IInv, tables
<1>4. UrlsNameOwners'
  BY <1>1 DEF UrlsNameOwners, IInv, tables
<1> QED  BY <1>2, <1>3, <1>4 DEF IInv

(* Every step keeps the invariant.                                          *)
LEMMA NextIInv == IInv /\ [Next]_vars => IInv'
<1> SUFFICES ASSUME IInv, [Next]_vars PROVE IInv'
  OBVIOUS
<1>1. ASSUME NEW c \in Connections, NEW slot \in Slots, CheckSlot(c, slot)
      PROVE  IInv'
  BY <1>1, TablesUnchangedStep DEF CheckSlot, IInv, TypeOK
<1>2. ASSUME NEW c \in Connections, NEW slot \in Slots,
             RequestDeletion(c, slot)
      PROVE  IInv'
  <2>1. PICK id \in InSlot(AccountOf[c], slot) :
          urls' = urls \cup {Url(AccountOf[c], "Delete", id, None)}
    BY <1>2 DEF RequestDeletion
  <2>2. /\ id \in Ids /\ AccountOf[c] \in Accounts
        /\ user_stream[id].account = AccountOf[c]
    BY StreamsAssumption DEF InSlot, StreamsOf, Used
  <2>3. urls' \subseteq [account : Accounts,
                         operation : {"Create", "Delete"}, id : Ids,
                         upload : Nat \cup {None}]
    BY <2>1, <2>2 DEF Url, IInv, TypeOK
  <2>4. \A url \in urls' \ urls :
          url.account = user_stream[url.id].account
    BY <2>1, <2>2 DEF Url
  <2>5. /\ UNCHANGED <<tables, made, reused>>
        /\ checked' \in [Connections -> Slots \cup {None}]
    BY <1>2 DEF RequestDeletion, IInv, TypeOK
  <2> QED  BY <2>3, <2>4, <2>5, TablesUnchangedStep
<1>3. ASSUME NEW url \in urls, Expire(url)
      PROVE  IInv'
  BY <1>3, TablesUnchangedStep DEF Expire, IInv, TypeOK
<1>4. CASE Restart
  BY <1>4, TablesUnchangedStep DEF Restart, IInv, TypeOK
<1>5. CASE UNCHANGED vars
  BY <1>5, TablesUnchangedStep DEF vars, IInv, TypeOK
<1> QED
  BY <1>1, <1>2, <1>3, <1>4, <1>5, CreateStreamStep, FinishUploadStep,
     UploadStep, DeleteStep
     DEF Next

-----------------------------------------------------------------------------
(* What one step may do to a row. A step that is not about its row leaves   *)
(* it alone; the four that are say what they leave.                         *)
Kept(id) == /\ user_stream'[id] = user_stream[id]
            /\ user_stream_tag'[id] = user_stream_tag[id]

Replaced(id) == /\ user_stream'[id] # None
                /\ user_stream'[id].made = made + 1
                /\ user_stream'[id].data = None

Finished(id) == /\ user_stream'[id] # None
                /\ user_stream'[id].data = user_stream[id].data
                /\ ~user_stream[id].metadata

Uploaded(id) == /\ user_stream'[id] # None
                /\ user_stream'[id].metadata = user_stream[id].metadata
                /\ user_stream_tag'[id] = user_stream_tag[id]
                /\ user_stream[id].data = None
                /\ \E url \in urls : url.operation = "Create" /\ url.id = id

Deleted(id) == /\ user_stream'[id] = None
               /\ \E url \in urls : url.operation = "Delete" /\ url.id = id

(* Every step does one of these to every row.                               *)
LEMMA RowOutcomes ==
  ASSUME IInv, [Next]_vars, NEW id \in Used
  PROVE  Kept(id) \/ Replaced(id) \/ Finished(id) \/ Uploaded(id) \/ Deleted(id)
<1>1. id \in Ids /\ user_stream[id] \in Stream
  BY DEF Used, IInv, TypeOK
<1>2. CASE UNCHANGED tables
  BY <1>2 DEF tables, Kept
<1>3. ASSUME NEW c \in Connections, CreateStream(c)
      PROVE  Kept(id) \/ Replaced(id)
  <2>1. AccountOf[c] \in Accounts
    BY StreamsAssumption
  <2>2. ASSUME NEW i \in Ids, NEW slot, Insert(AccountOf[c], slot, i)
        PROVE  Kept(id)
    <3>1. i # id
      BY <1>1, <2>2 DEF Insert, IsNext, Ids
    <3> QED  BY <1>1, <1>3, <2>2, <3>1
                DEF Insert, CreateStream, Kept, IInv, TypeOK
  <2>3. ASSUME NEW i \in StreamsOf(AccountOf[c]), Replace(AccountOf[c], i)
        PROVE  Kept(id) \/ Replaced(id)
    <3>1. CASE i # id
      BY <1>1, <1>3, <2>3, <3>1 DEF Replace, CreateStream, Kept, IInv, TypeOK
    <3>2. CASE i = id
      <4> DEFINE row == Row(AccountOf[c], user_stream[id].slot,
                            user_stream[id].born)
      <4>1. row \in Stream
        BY <1>1, <2>1 DEF Row, Stream, IInv, TypeOK
      <4>2. user_stream'[id] = row
        BY <1>1, <2>3, <3>2 DEF Replace, IInv, TypeOK
      <4>3. row.made = made + 1 /\ row.data = None
        BY DEF Row
      <4> HIDE DEF row
      <4> QED  BY <4>1, <4>2, <4>3, NoneAssumption DEF Replaced
    <3> QED  BY <3>1, <3>2
  <2> QED  BY <1>3, <2>2, <2>3 DEF CreateStream, InSlot
<1>4. ASSUME NEW c \in Connections, NEW slot \in Slots,
             NEW tagged \in BOOLEAN, FinishUpload(c, slot, tagged)
      PROVE  Kept(id) \/ Finished(id)
  <2>1. PICK i \in InSlot(AccountOf[c], slot) :
          /\ ~user_stream[i].metadata
          /\ user_stream' = [user_stream EXCEPT ![i].metadata = TRUE]
          /\ \A j \in Ids \ {i} : user_stream_tag'[j] = user_stream_tag[j]
    BY <1>4 DEF FinishUpload, IInv, TypeOK
  <2>2. [user_stream[id] EXCEPT !.metadata = TRUE] \in Stream
    BY <1>1 DEF Stream
  <2> QED
    BY <1>1, <2>1, <2>2, NoneAssumption DEF Kept, Finished, Stream, IInv, TypeOK
<1>5. ASSUME NEW url \in urls, NEW i \in Ids, Upload(url, i)
      PROVE  Kept(id) \/ Uploaded(id)
  <2>1. url.upload \in Nat \cup {None}
    BY DEF IInv, TypeOK
  <2>2. [user_stream[id] EXCEPT !.data = url.upload] \in Stream
    BY <1>1, <2>1 DEF Stream
  <2> QED
    BY <1>1, <1>5, <2>2, NoneAssumption
       DEF Upload, Grants, Kept, Uploaded, Stream, IInv, TypeOK
<1>6. ASSUME NEW url \in urls, NEW i \in Ids, Delete(url, i)
      PROVE  Kept(id) \/ Deleted(id)
  BY <1>1, <1>6 DEF Delete, Grants, Kept, Deleted, IInv, TypeOK
<1> QED
  BY <1>2, <1>3, <1>4, <1>5, <1>6
     DEF Next, vars, CheckSlot, RequestDeletion, Expire, Restart

(* Of a row that was not reused, the urls are its owner's.                  *)
LEMMA OwnersStep ==
  IInv /\ [Next]_vars => [\A id \in Used \ reused : UsesOwnersUrl(id)]_vars
<1> SUFFICES ASSUME IInv, [Next]_vars, NEW id \in Used \ reused
             PROVE  UsesOwnersUrl(id)
  OBVIOUS
<1>1. \A url \in urls : url.id = id => url.account = user_stream[id].account
  BY DEF IInv, UrlsNameOwners
<1>2. user_stream[id] # None
  BY DEF Used
<1> QED
  BY <1>1, <1>2, RowOutcomes
     DEF UsesOwnersUrl, HasUrl, Kept, Replaced, Finished, Uploaded, Deleted

PublishedKept(id) ==
  user_stream'[id] # None /\ user_stream'[id].made = user_stream[id].made =>
    /\ user_stream[id].data # None =>
         user_stream'[id].data = user_stream[id].data
    /\ user_stream[id].metadata =>
         /\ user_stream'[id].metadata
         /\ user_stream_tag'[id] = user_stream_tag[id]

(* What is there is replaced only together with the row's number.           *)
LEMMA PublishedStep ==
  IInv /\ [Next]_vars => [\A id \in Used : PublishedKept(id)]_vars
<1> SUFFICES ASSUME IInv, [Next]_vars, NEW id \in Used
             PROVE  PublishedKept(id)
  OBVIOUS
<1>1. /\ user_stream[id].made <= made
      /\ user_stream[id].made \in Nat /\ made \in Nat
      /\ user_stream[id].metadata \in BOOLEAN
  BY DEF IInv, BornBeforeMade, TypeOK, Used, Stream
<1>2. CASE Replaced(id)
  BY <1>1, <1>2 DEF Replaced, PublishedKept
<1>3. CASE Kept(id) \/ Finished(id) \/ Uploaded(id) \/ Deleted(id)
  BY <1>1, <1>3 DEF PublishedKept, Kept, Finished, Uploaded, Deleted
<1> QED  BY <1>2, <1>3, RowOutcomes

-----------------------------------------------------------------------------
(* How many streams an account may come to have                             *)

(* The empty slots in which some connection of a, having checked them, may  *)
(* still make a stream.  Several connections may await the same slot, but   *)
(* only the first of them makes a stream more.                              *)
Awaited(a) == {slot \in Slots : /\ InSlot(a, slot) = {}
                                /\ \E c \in ConnectionsOf(a) : checked[c] = slot}

(* Not the streams alone: deleting one may make room for all who found its  *)
(* slot taken, so what they await is counted before they make it.           *)
RoomFor(a) ==
  Cardinality(ConnectionsOf(a)) > 0 =>
    Cardinality(StreamsOf(a)) + Cardinality(Awaited(a))
      <= MAX_SLOT_COUNT + Cardinality(ConnectionsOf(a)) - 1

Room == \A a \in Accounts : RoomFor(a)

(* A set that the connections of an account are mapped onto is no larger    *)
(* than theirs; stated for any map, as it is needed of checked and checked'.*)
LEMMA NoMoreThanConnections ==
  ASSUME NEW a, NEW f, NEW S, \A x \in S : \E c \in ConnectionsOf(a) : f[c] = x
  PROVE  /\ IsFiniteSet(S) /\ Cardinality(S) \in Nat
         /\ Cardinality(ConnectionsOf(a)) \in Nat
         /\ Cardinality(S) <= Cardinality(ConnectionsOf(a))
<1>1. /\ IsFiniteSet(ConnectionsOf(a))
      /\ Cardinality(ConnectionsOf(a)) \in Nat
  <2>1. ConnectionsOf(a) \in SUBSET Connections
    BY DEF ConnectionsOf
  <2> QED  BY <2>1, FS_Subset, FS_CardinalityType, StreamsAssumption
<1> DEFINE waiting == {c \in ConnectionsOf(a) : f[c] \in S}
           g == [c \in waiting |-> f[c]]
<1>2. IsFiniteSet(waiting) /\ Cardinality(waiting) <= Cardinality(ConnectionsOf(a))
  <2>1. waiting \in SUBSET ConnectionsOf(a)
    OBVIOUS
  <2> QED  BY <2>1, <1>1, FS_Subset
<1>3. g \in Surjection(waiting, S)
  BY DEF Surjection
<1>4. IsFiniteSet(S) /\ Cardinality(S) <= Cardinality(waiting)
  <2> HIDE DEF waiting, g
  <2> QED  BY <1>2, <1>3, FS_Surjection
<1>5. Cardinality(S) \in Nat /\ Cardinality(waiting) \in Nat
  BY <1>2, <1>4, FS_CardinalityType
<1> QED  BY <1>1, <1>2, <1>4, <1>5

(* Both counts are numbers.                                                 *)
LEMMA RoomCounts ==
  ASSUME NEW a
  PROVE  /\ IsFiniteSet(StreamsOf(a)) /\ IsFiniteSet(Awaited(a))
         /\ Cardinality(StreamsOf(a)) \in Nat /\ Cardinality(Awaited(a)) \in Nat
         /\ Cardinality(ConnectionsOf(a)) \in Nat
<1>1. IsFiniteSet(StreamsOf(a))
  <2>1. StreamsOf(a) \in SUBSET (1..MaxId)
    BY DEF StreamsOf, Used, Ids
  <2>2. IsFiniteSet(1..MaxId)
    BY FS_Interval, StreamsAssumption
  <2> QED  BY <2>1, <2>2, FS_Subset
<1>2. \A slot \in Awaited(a) : \E c \in ConnectionsOf(a) : checked[c] = slot
  BY DEF Awaited
<1> QED
  BY <1>1, <1>2, NoMoreThanConnections, FS_CardinalityType

(* A step after which the account has the streams it had, and awaits no     *)
(* slot more                                                                *)
LEMMA RoomKept ==
  ASSUME NEW a \in Accounts, RoomFor(a),
         StreamsOf(a)' = StreamsOf(a), Awaited(a)' \subseteq Awaited(a)
  PROVE  RoomFor(a)'
<1>1. /\ IsFiniteSet(Awaited(a)')
      /\ Cardinality(Awaited(a)') <= Cardinality(Awaited(a))
  BY RoomCounts, FS_Subset
<1>2. /\ Cardinality(StreamsOf(a)) \in Nat
      /\ Cardinality(Awaited(a)) \in Nat /\ Cardinality(Awaited(a)') \in Nat
      /\ Cardinality(ConnectionsOf(a)) \in Nat
  BY <1>1, RoomCounts, FS_CardinalityType
<1> QED
  BY <1>1, <1>2, StreamsAssumption DEF RoomFor, ConnectionsOf

(* A step that leaves account and slot of every row as they are             *)
RowsStay == \A id \in Ids :
  /\ user_stream'[id] = None <=> user_stream[id] = None
  /\ user_stream[id] # None =>
       /\ user_stream'[id].account = user_stream[id].account
       /\ user_stream'[id].slot = user_stream[id].slot

LEMMA RowsStaySlots ==
  ASSUME RowsStay, NEW a
  PROVE  /\ StreamsOf(a)' = StreamsOf(a)
         /\ \A slot \in Slots : InSlot(a, slot)' = InSlot(a, slot)
  BY DEF RowsStay, StreamsOf, InSlot, Used

LEMMA RoomRowsStay ==
  ASSUME Room, RowsStay,
         \A c \in Connections : checked'[c] \in {checked[c], None}
  PROVE  Room'
<1> SUFFICES ASSUME NEW a \in Accounts PROVE RoomFor(a)'
  BY DEF Room
<1>1. /\ StreamsOf(a)' = StreamsOf(a)
      /\ \A slot \in Slots : InSlot(a, slot)' = InSlot(a, slot)
  BY RowsStaySlots
<1>2. Awaited(a)' \subseteq Awaited(a)
  BY <1>1, NoneAssumption DEF Awaited, ConnectionsOf
<1> QED  BY <1>1, <1>2, RoomKept DEF Room

(* The check: with a slot of its own found taken nothing changes; otherwise *)
(* the streams are fewer than MAX_SLOT_COUNT, and the connections that      *)
(* await a slot cannot be more than all.                                    *)
LEMMA RoomCheckSlot ==
  ASSUME TypeOK, Room, NEW c \in Connections, NEW slot \in Slots,
         CheckSlot(c, slot)
  PROVE  Room'
<1> SUFFICES ASSUME NEW a \in Accounts PROVE RoomFor(a)'
  BY DEF Room
<1>1. /\ checked' = [checked EXCEPT ![c] = slot]
      /\ SlotIsFree(AccountOf[c], slot)
      /\ UNCHANGED user_stream
  BY DEF CheckSlot, tables
<1>2. RowsStay
  BY <1>1 DEF RowsStay
<1>3. /\ StreamsOf(a)' = StreamsOf(a)
      /\ \A s \in Slots : InSlot(a, s)' = InSlot(a, s)
  BY <1>2, RowsStaySlots
<1>4. CASE AccountOf[c] # a \/ InSlot(a, slot) # {}
  <2>1. Awaited(a)' \subseteq Awaited(a)
    BY <1>1, <1>3, <1>4 DEF Awaited, ConnectionsOf, TypeOK
  <2> QED  BY <2>1, <1>3, RoomKept DEF Room
<1>5. CASE AccountOf[c] = a /\ InSlot(a, slot) = {}
  <2>1. Cardinality(StreamsOf(a)) < MAX_SLOT_COUNT
    BY <1>1, <1>5 DEF SlotIsFree
  <2>2. \A s \in Awaited(a)' : \E d \in ConnectionsOf(a) : checked'[d] = s
    BY DEF Awaited, ConnectionsOf
  <2>3. /\ Cardinality(Awaited(a)') \in Nat
        /\ Cardinality(Awaited(a)') <= Cardinality(ConnectionsOf(a))
    BY <2>2, NoMoreThanConnections
  <2> QED
    BY <2>1, <2>3, <1>3, RoomCounts, StreamsAssumption DEF RoomFor, ConnectionsOf
<1> QED  BY <1>4, <1>5

(* Making the stream: one that replaces another takes no room, and one that *)
(* does not takes the room its slot was awaited with.                       *)
LEMMA RoomCreateStream ==
  ASSUME TypeOK, Room, NEW c \in Connections, CreateStream(c)
  PROVE  Room'
<1> DEFINE b == AccountOf[c]
           slot == checked[c]
<1>1. b \in Accounts /\ slot \in Slots /\ c \in ConnectionsOf(b)
  BY StreamsAssumption DEF CreateStream, TypeOK, ConnectionsOf
<1>2. /\ checked' = [checked EXCEPT ![c] = None]
      /\ \A d \in Connections : checked'[d] \in {checked[d], None}
  BY DEF CreateStream, TypeOK
<1>3. ASSUME NEW id \in InSlot(b, slot), Replace(b, id)
      PROVE  Room'
  <2>1. /\ id \in Ids /\ user_stream[id] \in Stream
        /\ user_stream[id].account = b
    BY DEF InSlot, StreamsOf, Used, TypeOK
  <2> DEFINE row == Row(b, user_stream[id].slot, user_stream[id].born)
  <2>2. row \in Stream
    BY <2>1, <1>1 DEF Row, Stream, TypeOK
  <2>3. row.account = b /\ row.slot = user_stream[id].slot
    BY DEF Row
  <2>4. user_stream' = [user_stream EXCEPT ![id] = row]
    BY <1>3 DEF Replace
  <2> HIDE DEF row
  <2>5. RowsStay
    BY <2>1, <2>2, <2>3, <2>4, NoneAssumption DEF RowsStay, TypeOK
  <2> QED  BY <2>5, <1>2, RoomRowsStay
<1>4. ASSUME InSlot(b, slot) = {}, NEW id \in Ids, Insert(b, slot, id)
      PROVE  Room'
  <2>1. Row(b, slot, made + 1) \in Stream
    BY <1>1 DEF Row, Stream, TypeOK
  <2> DEFINE row == Row(b, slot, made + 1)
  <2>2. row \in Stream /\ row.account = b /\ row.slot = slot
    BY <2>1 DEF Row
  <2>3. user_stream' = [user_stream EXCEPT ![id] = row] /\ id \notin Used
    BY <1>4 DEF Insert, IsNext, Ids, Used
  <2> HIDE DEF row
  <2> SUFFICES ASSUME NEW a \in Accounts PROVE RoomFor(a)'
    BY DEF Room
  <2>4. CASE a # b
    <3>1. /\ StreamsOf(a)' = StreamsOf(a)
          /\ \A s \in Slots : InSlot(a, s)' = InSlot(a, s)
      BY <2>2, <2>3, <2>4, NoneAssumption DEF StreamsOf, InSlot, Used, TypeOK
    <3>2. Awaited(a)' \subseteq Awaited(a)
      BY <3>1, <1>2, NoneAssumption DEF Awaited, ConnectionsOf
    <3> QED  BY <3>1, <3>2, RoomKept DEF Room
  <2>5. CASE a = b
    <3>1. /\ StreamsOf(a)' = StreamsOf(a) \cup {id} /\ id \notin StreamsOf(a)
          /\ \A s \in Slots :
               InSlot(a, s)' = IF s = slot THEN {id} ELSE InSlot(a, s)
      BY <2>2, <2>3, <2>5, <1>4, NoneAssumption
         DEF StreamsOf, InSlot, Used, TypeOK
    <3>2. slot \in Awaited(a)
      BY <2>5, <1>1, <1>4 DEF Awaited
    <3>3. Awaited(a)' \in SUBSET (Awaited(a) \ {slot})
      BY <3>1, <1>2, NoneAssumption DEF Awaited, ConnectionsOf
    <3>4. Cardinality(StreamsOf(a)') = Cardinality(StreamsOf(a)) + 1
      BY <3>1, RoomCounts, FS_AddElement
    <3>5. /\ IsFiniteSet(Awaited(a) \ {slot})
          /\ Cardinality(Awaited(a) \ {slot}) = Cardinality(Awaited(a)) - 1
      BY <3>2, RoomCounts, FS_RemoveElement
    <3>6. /\ Cardinality(Awaited(a)') <= Cardinality(Awaited(a)) - 1
          /\ Cardinality(Awaited(a)') \in Nat
      BY <3>3, <3>5, FS_Subset, FS_CardinalityType
    <3>7. RoomFor(a)
      BY DEF Room
    <3> QED
      BY <3>4, <3>6, <3>7, RoomCounts, StreamsAssumption
         DEF RoomFor, ConnectionsOf
  <2> QED  BY <2>4, <2>5
<1> QED  BY <1>3, <1>4 DEF CreateStream

(* A stream less, and perhaps one slot more that is empty and awaited       *)
LEMMA RoomDelete ==
  ASSUME TypeOK, Room, NEW url \in urls, NEW id \in Ids, Delete(url, id)
  PROVE  Room'
<1> DEFINE b == user_stream[id].account
           slot == user_stream[id].slot
<1>1. /\ user_stream' = [user_stream EXCEPT ![id] = None]
      /\ user_stream[id] # None /\ UNCHANGED checked
  BY DEF Delete, Grants
<1> SUFFICES ASSUME NEW a \in Accounts PROVE RoomFor(a)'
  BY DEF Room
<1>2. CASE a # b
  <2>1. /\ StreamsOf(a)' = StreamsOf(a)
        /\ \A s \in Slots : InSlot(a, s)' = InSlot(a, s)
    BY <1>1, <1>2 DEF StreamsOf, InSlot, Used, TypeOK
  <2>2. Awaited(a)' \subseteq Awaited(a)
    BY <2>1, <1>1 DEF Awaited, ConnectionsOf
  <2> QED  BY <2>1, <2>2, RoomKept DEF Room
<1>3. CASE a = b
  <2>1. /\ id \in StreamsOf(a) /\ StreamsOf(a)' = StreamsOf(a) \ {id}
        /\ \A s \in Slots \ {slot} : InSlot(a, s)' = InSlot(a, s)
    BY <1>1, <1>3 DEF StreamsOf, InSlot, Used, TypeOK
  <2>2. Awaited(a)' \in SUBSET (Awaited(a) \cup {slot})
    BY <2>1, <1>1 DEF Awaited, ConnectionsOf
  <2>3. Cardinality(StreamsOf(a)') = Cardinality(StreamsOf(a)) - 1
    BY <2>1, RoomCounts, FS_RemoveElement
  <2>4. /\ IsFiniteSet(Awaited(a) \cup {slot})
        /\ Cardinality(Awaited(a) \cup {slot}) \in
             {Cardinality(Awaited(a)), Cardinality(Awaited(a)) + 1}
    BY RoomCounts, FS_AddElement
  <2>5. /\ Cardinality(Awaited(a)') <= Cardinality(Awaited(a) \cup {slot})
        /\ Cardinality(Awaited(a)') \in Nat
    BY <2>2, <2>4, FS_Subset, FS_CardinalityType
  <2>6. RoomFor(a)
    BY DEF Room
  <2> QED
    BY <2>3, <2>4, <2>5, <2>6, RoomCounts, StreamsAssumption
       DEF RoomFor, ConnectionsOf
<1> QED  BY <1>2, <1>3

LEMMA RoomStep == TypeOK /\ Room /\ [Next]_vars => Room'
<1> SUFFICES ASSUME TypeOK, Room, [Next]_vars PROVE Room'
  OBVIOUS
<1>1. ASSUME UNCHANGED user_stream,
             \A c \in Connections : checked'[c] \in {checked[c], None}
      PROVE  Room'
  <2>1. RowsStay
    BY <1>1 DEF RowsStay
  <2> QED  BY <1>1, <2>1, RoomRowsStay
<1>2. ASSUME NEW c \in Connections, NEW slot \in Slots, NEW tagged \in BOOLEAN,
             FinishUpload(c, slot, tagged)
      PROVE  Room'
  <2>1. PICK id \in InSlot(AccountOf[c], slot) :
          user_stream' = [user_stream EXCEPT ![id].metadata = TRUE]
    BY <1>2 DEF FinishUpload
  <2>2. id \in Ids /\ user_stream[id] \in Stream
    BY DEF InSlot, StreamsOf, Used, TypeOK
  <2>3. [user_stream[id] EXCEPT !.metadata = TRUE] \in Stream
    BY <2>2 DEF Stream
  <2>4. RowsStay
    BY <2>1, <2>2, <2>3, NoneAssumption DEF RowsStay, Stream, TypeOK
  <2> QED  BY <1>2, <2>4, RoomRowsStay DEF FinishUpload
<1>3. ASSUME NEW url \in urls, NEW id \in Ids, Upload(url, id)
      PROVE  Room'
  <2>1. user_stream[id] \in Stream /\ url.upload \in Nat \cup {None}
    BY <1>3 DEF Upload, Grants, TypeOK
  <2>2. [user_stream[id] EXCEPT !.data = url.upload] \in Stream
    BY <2>1 DEF Stream
  <2>3. RowsStay
    BY <1>3, <2>1, <2>2, NoneAssumption DEF Upload, RowsStay, Stream, TypeOK
  <2> QED  BY <1>3, <2>3, RoomRowsStay DEF Upload
<1>4. ASSUME NEW c \in Connections, NEW slot \in Slots, RequestDeletion(c, slot)
      PROVE  Room'
  BY <1>1, <1>4 DEF RequestDeletion, tables
<1>5. ASSUME NEW url \in urls, Expire(url)
      PROVE  Room'
  BY <1>1, <1>5 DEF Expire, tables
<1>6. CASE Restart
  BY <1>1, <1>6 DEF Restart, tables
<1>7. CASE UNCHANGED vars
  BY <1>1, <1>7 DEF vars, tables
<1> QED
  BY <1>2, <1>3, <1>4, <1>5, <1>6, <1>7, RoomCheckSlot, RoomCreateStream,
     RoomDelete
     DEF Next

-----------------------------------------------------------------------------
(* The invariant holds in every reachable state.                            *)
LEMMA AlwaysIInv == Spec => []IInv
  BY InitIInv, NextIInv, PTL DEF Spec

(* Rows are made for requests of accounts, no account has two in a slot,    *)
(* and tags refer to rows.                                                  *)
THEOREM StreamsTypeOK == Spec => []TypeOK
  BY AlwaysIInv, PTL DEF IInv

(* A stream that is given the id of a deleted one never has its tags.       *)
THEOREM TagsStayWithTheirStream == Spec => []TagsGoWithTheirStream
  BY AlwaysIInv, PTL DEF IInv

(* Nobody's stream is deleted or given data except with a url its owner was *)
(* handed for that, unless its id was reused.                               *)
THEOREM StreamsStayTheirOwners == Spec => StreamsAreTheirOwners
<1>1. IInv /\ [Next]_vars => [\A id \in Used \ reused : UsesOwnersUrl(id)]_vars
  BY OwnersStep
<1> QED  BY <1>1, AlwaysIInv, PTL DEF Spec, StreamsAreTheirOwners

(* The check of request_stream_upload and the making of the stream may be   *)
(* crossed by uploads to, and deletions of, any of the account's slots: all *)
(* that comes of it is one stream for every connection but one.             *)
THEOREM SlotsOverrunOnlyWhenCrossed == Spec => []SlotsOverrunOnlyByCrossing
<1>1. Init => Room
  <2> SUFFICES ASSUME Init, NEW a \in Accounts PROVE RoomFor(a)
    BY DEF Room
  <2>1. StreamsOf(a) = {} /\ Awaited(a) = {}
    BY NoneAssumption DEF Init, StreamsOf, Used, Awaited, ConnectionsOf
  <2> QED  BY <2>1, FS_EmptySet, RoomCounts, StreamsAssumption DEF RoomFor
<1>2. IInv /\ Room /\ [Next]_vars => Room'
  BY RoomStep DEF IInv
<1>3. Room => SlotsOverrunOnlyByCrossing
  <2> SUFFICES ASSUME Room, NEW a \in Accounts,
                      Cardinality(ConnectionsOf(a)) > 0
               PROVE  Cardinality(StreamsOf(a))
                        <= MAX_SLOT_COUNT + Cardinality(ConnectionsOf(a)) - 1
    BY DEF SlotsOverrunOnlyByCrossing
  <2> QED  BY RoomCounts, StreamsAssumption DEF Room, RoomFor
<1> QED  BY <1>1, <1>2, <1>3, AlwaysIInv, PTL DEF Spec

(* What is published stays until its owner asks to upload to the slot again.*)
THEOREM PublishedStays == Spec => PublishedUntilReplaced
<1>1. IInv /\ [Next]_vars => [\A id \in Used : PublishedKept(id)]_vars
  BY PublishedStep
<1> QED
  BY <1>1, AlwaysIInv, PTL DEF Spec, PublishedUntilReplaced, PublishedKept

-----------------------------------------------------------------------------
(* PublisherStreams                                                         *)

Published(state) == {state.streams[i] : i \in DOMAIN state.streams}

NamesOf(state) == {s.filename : s \in Published(state)}

(* Ids and names are given to one stream each, and next_id to none          *)
StateHolds(state) ==
  /\ state \in State
  /\ \A s \in Published(state) : s.id < state.next_id
  /\ \A s, t \in Published(state) : s.id = t.id <=> s.filename = t.filename

(* All files of the title that were put there before the time are among     *)
(* the names                                                                *)
Covers(names, title, time) ==
  \A n \in There(title) : dir[title][n] < time => n \in names

(* The same, of those a request has a right to see                          *)
Fresh(names, r) ==
  \A n \in There(request[r].title) :
    dir[request[r].title][n] + STATE_REFRESH_SECONDS < request[r].asked => n \in names

Asked == [stage : {"look", "write", "read"}, title : PublisherTitles, asked : Time]
Refresh == [stage : {"refresh"}, title : PublisherTitles, asked : Time, draft : State,
            left : SUBSET Names]
Found == [stage : {"answered"}, title : PublisherTitles, asked : Time, found : SUBSET Names]

DraftHolds(r) ==
  LET title == request[r].title
      draft == request[r].draft
  IN  /\ StateHolds(draft) /\ draft.last_refresh <= now
      /\ index[title] # Absent => Published(index[title]) \subseteq Published(draft)
      /\ Covers(request[r].left \cup NamesOf(draft), title, draft.last_refresh)
      /\ Fresh(request[r].left \cup NamesOf(draft), r)

RequestHolds(r) ==
  /\ request[r] \in {Nothing} \cup Asked \cup Refresh \cup Found
  /\ ~At(r, "nothing") => request[r].asked <= now
  /\ At(r, "refresh") => DraftHolds(r)
  /\ At(r, "read") => /\ index[request[r].title] # Absent
                      /\ Fresh(NamesOf(index[request[r].title]), r)
  /\ At(r, "answered") => Fresh(request[r].found, r)

IndexHolds(title) ==
  index[title] # Absent =>
    /\ StateHolds(index[title])
    /\ index[title].last_refresh <= now
    /\ Covers(NamesOf(index[title]), title, index[title].last_refresh)

ToldHolds ==
  \A t \in told : /\ t \in [title : PublisherTitles, id : Nat \ {0}, filename : Names]
                  /\ index[t.title] # Absent
                  /\ [id |-> t.id, filename |-> t.filename] \in Published(index[t.title])

Types == /\ dir \in [PublisherTitles -> [Names -> Time \cup {Absent}]]
         /\ index \in [PublisherTitles -> State \cup {Absent}]
         /\ DOMAIN request = Threads
         /\ now \in Time
         /\ poisoned => writer = Absent
         /\ \A r \in Threads : At(r, "refresh") <=> writer = r

PublisherIInv == /\ Types
                 /\ ToldHolds
                 /\ \A title \in PublisherTitles : IndexHolds(title)
                 /\ \A r \in Threads : RequestHolds(r)

-----------------------------------------------------------------------------
(* handle_entry lists the entry, loses nothing, and gives no id twice.      *)
LEMMA WithEntryHolds ==
  ASSUME NEW state, StateHolds(state), NEW name \in Names,
         NEW new, new = WithEntry(state, name)
  PROVE  /\ StateHolds(new) /\ new.last_refresh = state.last_refresh
         /\ Published(state) \subseteq Published(new)
         /\ NamesOf(new) = NamesOf(state) \cup {name}
<1>1. CASE Listed(state, name)
  BY <1>1 DEF Listed, WithEntry, Published, NamesOf
<1>2. CASE ~Listed(state, name)
  <2> DEFINE e == [id |-> state.next_id, filename |-> name]
  <2>1. state \in State /\ state.next_id \in Nat \ {0} /\ state.streams \in Seq(PublishedStream)
    BY DEF StateHolds, State
  <2>2. e \in PublishedStream
    BY <2>1 DEF PublishedStream
  <2>3. /\ new \in State /\ new.next_id = state.next_id + 1
        /\ new.last_refresh = state.last_refresh
        /\ new.streams = Append(state.streams, e)
    <3> DEFINE streams == Append(state.streams, e)
               id == state.next_id + 1
    <3>1. streams \in Seq(PublishedStream) /\ id \in Nat \ {0}
      BY <2>1, <2>2
    <3>2. new = [state EXCEPT !.next_id = id, !.streams = streams]
      BY <1>2 DEF WithEntry
    <3>3. ASSUME NEW i \in Nat \ {0}, NEW q \in Seq(PublishedStream),
                 new = [state EXCEPT !.next_id = i, !.streams = q]
          PROVE  /\ new \in State /\ new.next_id = i /\ new.streams = q
                 /\ new.last_refresh = state.last_refresh
      BY <2>1, <3>3 DEF State
    <3> QED BY <3>1, <3>2, <3>3
  <2>4. Published(new) = Published(state) \cup {e}
    <3>1. /\ DOMAIN new.streams = 1..Len(state.streams) + 1
          /\ DOMAIN state.streams = 1..Len(state.streams)
          /\ Len(state.streams) \in Nat
          /\ new.streams[Len(state.streams) + 1] = e
          /\ \A i \in DOMAIN state.streams : new.streams[i] = state.streams[i]
      BY <2>1, <2>2, <2>3
    <3>2. DOMAIN new.streams = DOMAIN state.streams \cup {Len(state.streams) + 1}
      BY <3>1
    <3> HIDE DEF e
    <3> QED BY <3>1, <3>2 DEF Published
  <2>5. \A s \in Published(state) : s \in PublishedStream /\ s.id < state.next_id /\ s.filename # name
    <3>1. \A s \in Published(state) : s \in PublishedStream
      BY <2>1 DEF Published
    <3> QED BY <1>2, <3>1 DEF Listed, Published, StateHolds
  <2>6. \A s \in Published(new) : s.id < new.next_id
    BY <2>1, <2>3, <2>4, <2>5 DEF PublishedStream
  <2>7. \A s, t \in Published(new) : s.id = t.id <=> s.filename = t.filename
    BY <2>1, <2>4, <2>5 DEF StateHolds, PublishedStream
  <2> QED BY <2>3, <2>4, <2>6, <2>7 DEF StateHolds, NamesOf
<1> QED BY <1>1, <1>2

(* What a step does to the world of the other threads: files get the        *)
(* current time or go, the index loses nothing, time does not run back.     *)
Moves ==
  /\ dir' \in [PublisherTitles -> [Names -> Time \cup {Absent}]]
  /\ \A title \in PublisherTitles : \A n \in Names :
       dir'[title][n] \in {dir[title][n], Absent, now}
  /\ \A title \in PublisherTitles :
       index[title] # Absent =>
         index'[title] # Absent /\ Published(index[title]) \subseteq Published(index'[title])
  /\ now' \in Time /\ now <= now'

(* A file that is there with an early time was there with it before.        *)
LEMMA StillThere ==
  ASSUME Types, Moves, NEW title \in PublisherTitles, NEW n \in There(title)', NEW time \in Nat,
         dir'[title][n] < time, time <= now
  PROVE  n \in There(title) /\ dir'[title][n] = dir[title][n]
<1>1. n \in Names /\ dir'[title][n] # Absent
  BY DEF There
<1>2. dir'[title][n] # now
  BY DEF Types, Time
<1> QED BY <1>1, <1>2 DEF Moves, There

(* So a request that no step touches goes on to hold.                       *)
LEMMA Untouched ==
  ASSUME Types, Moves, NEW r \in Threads, RequestHolds(r), request'[r] = request[r],
         At(r, "refresh") => index'[request[r].title] = index[request[r].title]
  PROVE  RequestHolds(r)'
<1>1. CASE At(r, "nothing")
  BY <1>1 DEF RequestHolds, At
<1>2. CASE ~At(r, "nothing")
  <2> DEFINE title == request[r].title
  <2>1. /\ title \in PublisherTitles /\ request[r].asked \in Time /\ request[r].asked <= now
        /\ request[r] \in Asked \cup Refresh \cup Found
    BY <1>2 DEF RequestHolds, At, Nothing, Asked, Refresh, Found
  <2>2. request'[r].asked <= now'
    BY <2>1 DEF Moves, Types, Time
  <2>3. ASSUME NEW names, Fresh(names, r) PROVE Fresh(names, r)'
    <3> SUFFICES ASSUME NEW n \in There(title)',
                        dir'[title][n] + STATE_REFRESH_SECONDS < request[r].asked
                 PROVE  n \in names
      BY DEF Fresh
    <3>1. dir'[title][n] \in Nat
      BY <2>1 DEF There, Moves, Time
    <3>2. dir'[title][n] < request[r].asked
      BY <2>1, <3>1, PublisherAssumption DEF Time
    <3>3. n \in There(title) /\ dir'[title][n] = dir[title][n]
      BY <2>1, <3>2, StillThere DEF Time
    <3> QED BY <2>3, <3>3 DEF Fresh
  <2>4. CASE At(r, "refresh")
    <3> DEFINE draft == request[r].draft
               names == request[r].left \cup NamesOf(draft)
    <3>1. DraftHolds(r) /\ request[r] \in Refresh
      BY <2>1, <2>4 DEF RequestHolds, At, Asked, Found
    <3>2. draft.last_refresh \in Time /\ draft.last_refresh <= now
      BY <3>1 DEF DraftHolds, Refresh, State
    <3>3. Covers(names, title, draft.last_refresh)'
      BY <2>1, <3>1, <3>2, StillThere DEF Covers, DraftHolds, Time
    <3>4. Fresh(names, r)'
      BY <2>3, <3>1 DEF DraftHolds
    <3>5. draft.last_refresh <= now'
      BY <3>2 DEF Moves, Types, Time
    <3>6. DraftHolds(r)'
      BY <2>4, <3>1, <3>3, <3>4, <3>5 DEF DraftHolds
    <3> QED BY <2>1, <2>2, <2>4, <3>6 DEF RequestHolds, At
  <2>5. CASE At(r, "read")
    <3>1. index[title] # Absent /\ Fresh(NamesOf(index[title]), r)
      BY <2>5 DEF RequestHolds
    <3>2. index'[title] # Absent /\ NamesOf(index[title]) \subseteq NamesOf(index'[title])
      BY <2>1, <3>1 DEF Moves, NamesOf
    <3>3. Fresh(NamesOf(index[title]), r)'
      <4> DEFINE names == NamesOf(index[title])
      <4>1. \A n \in There(title)' :
              dir'[title][n] + STATE_REFRESH_SECONDS < request[r].asked => n \in names
        <5> SUFFICES ASSUME NEW n \in There(title)',
                            dir'[title][n] + STATE_REFRESH_SECONDS < request[r].asked
                     PROVE  n \in names
          OBVIOUS
        <5>1. dir'[title][n] \in Nat
          BY <2>1 DEF There, Moves, Time
        <5>2. dir'[title][n] < request[r].asked
          BY <2>1, <5>1, PublisherAssumption DEF Time
        <5>3. n \in There(title) /\ dir'[title][n] = dir[title][n]
          BY <2>1, <5>2, StillThere DEF Time
        <5> QED BY <3>1, <5>3 DEF Fresh
      <4> QED BY <3>2, <4>1 DEF Fresh
    <3> QED BY <2>1, <2>2, <2>5, <3>2, <3>3 DEF RequestHolds, At, Fresh
  <2>6. CASE At(r, "answered")
    BY <2>1, <2>2, <2>3, <2>6 DEF RequestHolds, At
  <2>7. CASE ~At(r, "refresh") /\ ~At(r, "read") /\ ~At(r, "answered")
    BY <2>1, <2>2, <2>7 DEF RequestHolds, At
  <2> QED BY <2>4, <2>5, <2>6, <2>7
<1> QED BY <1>1, <1>2

(* A step that touches one thread's request at most, and the write lock and *)
(* the index only if that thread held the lock, leaves the others' alone.   *)
LEMMA OneMoves ==
  ASSUME PublisherIInv, Moves, NEW r \in Threads, NEW to, Goes(r, to),
         index' # index => writer = r,
         RequestHolds(r)'
  PROVE  /\ \A q \in Threads : RequestHolds(q)'
         /\ DOMAIN request' = Threads /\ request'[r] = to
         /\ \A q \in Threads \ {r} : request'[q] = request[q]
<1>1. /\ DOMAIN request' = Threads /\ request'[r] = to
      /\ \A q \in Threads \ {r} : request'[q] = request[q]
  BY DEF PublisherIInv, Types, Goes
<1>2. ASSUME NEW q \in Threads \ {r} PROVE RequestHolds(q)'
  <2>1. At(q, "refresh") => index'[request[q].title] = index[request[q].title]
    BY DEF PublisherIInv, Types
  <2> QED BY <1>1, <2>1, Untouched DEF PublisherIInv
<1> QED BY <1>1, <1>2

(* Where no file, index or clock changes                                    *)
Still == UNCHANGED <<dir, index, now>>

(* The world does not move then, and what was told and indexed holds on.    *)
LEMMA StillHolds ==
  ASSUME PublisherIInv, Still
  PROVE  /\ Moves
         /\ \A title \in PublisherTitles : IndexHolds(title)'
         /\ told' = told => ToldHolds'
<1>1. Moves
  <2>1. \A title \in PublisherTitles : \A n \in Names :
          dir'[title][n] \in {dir[title][n], Absent, now}
    BY DEF Still
  <2> QED BY <2>1 DEF PublisherIInv, Types, Still, Moves, Time
<1>2. \A title \in PublisherTitles : IndexHolds(title)'
  BY DEF PublisherIInv, IndexHolds, Covers, There, Still
<1>3. told' = told => ToldHolds'
  BY DEF PublisherIInv, ToldHolds, Still
<1> QED BY <1>1, <1>2, <1>3

(* A thread's step that leaves index, directory and lock.                   *)
LEMMA QuietStep ==
  ASSUME PublisherIInv, Still, UNCHANGED <<writer, poisoned>>, NEW r \in Threads, NEW to,
         Goes(r, to), to.stage # "refresh", ~At(r, "refresh"),
         RequestHolds(r)', ToldHolds'
  PROVE  PublisherIInv'
<1>1. Moves /\ \A title \in PublisherTitles : IndexHolds(title)'
  BY StillHolds
<1>2. /\ \A q \in Threads : RequestHolds(q)'
      /\ DOMAIN request' = Threads /\ request'[r] = to
      /\ \A q \in Threads \ {r} : request'[q] = request[q]
  BY <1>1, OneMoves DEF Still
<1>3. Types'
  <2>1. ASSUME NEW q \in Threads PROVE At(q, "refresh")' <=> writer' = q
    BY <1>2 DEF PublisherIInv, Types, At
  <2> QED BY <1>2, <2>1 DEF PublisherIInv, Types, Still
<1> QED BY <1>1, <1>2, <1>3 DEF PublisherIInv

-----------------------------------------------------------------------------
(* There is nothing to hold at first.                                       *)
LEMMA InitHolds == PublisherInit => PublisherIInv
<1> SUFFICES ASSUME PublisherInit PROVE PublisherIInv
  OBVIOUS
<1>1. 0 \in Time
  BY PublisherAssumption DEF Time
<1>2. Types
  BY <1>1, PublisherAssumption DEF PublisherInit, Types, At, Nothing
<1>3. \A r \in Threads : RequestHolds(r)
  BY DEF PublisherInit, RequestHolds, At, Nothing
<1> QED BY <1>2, <1>3 DEF PublisherIInv, PublisherInit, ToldHolds, IndexHolds

(* A request that ends, or has none, holds nothing.                         *)
LEMMA Idling ==
  ASSUME NEW r \in Threads, request'[r] = Nothing
  PROVE  RequestHolds(r)'
BY DEF RequestHolds, At, Nothing

(* Where a thread is tells what its request is.                             *)
LEMMA Stages ==
  ASSUME PublisherIInv, NEW r \in Threads
  PROVE  /\ At(r, "look") \/ At(r, "write") \/ At(r, "read") => request[r] \in Asked
         /\ At(r, "refresh") => request[r] \in Refresh
         /\ At(r, "answered") => request[r] \in Found
BY DEF PublisherIInv, RequestHolds, At, Asked, Refresh, Found, Nothing

(* An up-to-date index has every file the request has a right to see.       *)
LEMMA UpToDateIsFresh ==
  ASSUME PublisherIInv, NEW r \in Threads, request[r] \in Asked, UpToDate(request[r].title)
  PROVE  /\ index[request[r].title] # Absent
         /\ Fresh(NamesOf(index[request[r].title]), r)
<1> DEFINE title == request[r].title
           state == index[title]
<1>1. title \in PublisherTitles /\ state # Absent /\ request[r].asked \in Time
  BY DEF Asked, UpToDate
<1>2. IndexHolds(title) /\ ~Necessary(state) /\ request[r].asked <= now
  BY <1>1 DEF PublisherIInv, RequestHolds, UpToDate, At, Asked
<1>3. state.last_refresh \in Time /\ now \in Time
  BY <1>1, <1>2 DEF IndexHolds, StateHolds, State, PublisherIInv, Types
<1>4. SUFFICES ASSUME NEW n \in There(title),
                      dir[title][n] + STATE_REFRESH_SECONDS < request[r].asked
               PROVE  n \in NamesOf(state)
  BY <1>1 DEF Fresh
<1>5. dir[title][n] \in Time
  BY <1>1 DEF There, PublisherIInv, Types
<1>6. dir[title][n] < state.last_refresh
  BY <1>1, <1>2, <1>3, <1>4, <1>5, PublisherAssumption DEF Necessary, Time
<1> QED BY <1>1, <1>2, <1>6 DEF IndexHolds, Covers

(* An answer that is taken from an index as fresh as it must be holds, and  *)
(* so does what it tells.                                                   *)
LEMMA AnsweredHolds ==
  ASSUME PublisherIInv, NEW r \in Threads, request[r] \in Asked, Answered(r),
         index[request[r].title] # Absent,
         Fresh(NamesOf(index[request[r].title]), r)
  PROVE  PublisherIInv'
<1> DEFINE title == request[r].title
           names == {s.filename : s \in Streams(title)}
           to == [stage |-> "answered", title |-> title, asked |-> request[r].asked,
                  found |-> names]
<1>1. Streams(title) = Published(index[title]) /\ names = NamesOf(index[title])
  BY DEF Streams, Published, NamesOf
<1>2. title \in PublisherTitles /\ request[r].asked \in Time
  BY DEF Asked
<1>3. ASSUME NEW s \in Published(index[title]) PROVE s \in PublishedStream
  BY <1>2 DEF Published, PublisherIInv, Types, State
<1>4. names \subseteq Names
  BY <1>1, <1>3 DEF NamesOf, PublishedStream
<1>5. Goes(r, to) /\ request'[r] = to
  BY DEF Answered, Goes, PublisherIInv, Types
<1>6. RequestHolds(r)'
  <2>1. to \in Found
    BY <1>2, <1>4 DEF Found
  <2>2. \A n \in Names :
          /\ dir'[to.title][n] # Absent
          /\ dir'[to.title][n] + STATE_REFRESH_SECONDS < to.asked
          => n \in to.found
    BY <1>1 DEF Fresh, There, Answered
  <2>3. to.asked <= now' /\ to.stage = "answered" /\ to.title = title
    BY DEF PublisherIInv, RequestHolds, At, Asked, Answered
  <2> HIDE DEF to
  <2> QED BY <1>5, <2>1, <2>2, <2>3 DEF RequestHolds, At, Fresh, There
<1>7. ToldHolds'
  <2>1. ASSUME NEW s \in Published(index[title]),
               NEW t, t = [title |-> title, id |-> s.id, filename |-> s.filename]
        PROVE  /\ t \in [title : PublisherTitles, id : Nat \ {0}, filename : Names]
               /\ [id |-> t.id, filename |-> t.filename] = s
    BY <1>2, <1>3, <2>1 DEF PublishedStream
  <2>2. told' = told \cup {[title |-> title, id |-> s.id, filename |-> s.filename]
                           : s \in Published(index[title])}
    BY <1>1 DEF Answered
  <2>3. ASSUME NEW t \in told' \ told
        PROVE  /\ t \in [title : PublisherTitles, id : Nat \ {0}, filename : Names]
               /\ t.title = title
               /\ [id |-> t.id, filename |-> t.filename] \in Published(index[title])
    <3>1. PICK s \in Published(index[title]) :
            t = [title |-> title, id |-> s.id, filename |-> s.filename]
      BY <2>2
    <3> QED BY <2>1, <3>1
  <2> QED BY <2>3 DEF PublisherIInv, ToldHolds, Answered
<1> QED BY <1>5, <1>6, <1>7, QuietStep DEF Answered, Still, At, Asked

-----------------------------------------------------------------------------
(* A request begins with a time that has come.                              *)
LEMMA AskHolds ==
  ASSUME PublisherIInv, NEW r \in Threads, NEW title \in PublisherTitles, Ask(r, title)
  PROVE  PublisherIInv'
<1> DEFINE to == [stage |-> "look", title |-> title, asked |-> now]
<1>1. Goes(r, to) /\ request'[r] = to /\ to \in Asked
  BY DEF Ask, Goes, PublisherIInv, Types, Asked
<1>2. Still /\ ToldHolds'
  BY StillHolds DEF Ask, Still
<1>3. to.asked <= now' /\ to.stage = "look"
  BY DEF Ask, PublisherIInv, Types, Time
<1> HIDE DEF to
<1>4. RequestHolds(r)'
  BY <1>1, <1>3 DEF RequestHolds, At
<1> QED BY <1>1, <1>2, <1>3, <1>4, QuietStep DEF Ask, At

(* A panic while somebody looks at a poisoned lock, or the end of a request *)
LEMMA EndHolds ==
  ASSUME PublisherIInv, NEW r \in Threads, ~At(r, "refresh"), Goes(r, Nothing),
         UNCHANGED <<dir, index, writer, poisoned, now, told>>
  PROVE  PublisherIInv'
<1>1. Still /\ ToldHolds'
  BY StillHolds DEF Still
<1>2. RequestHolds(r)'
  BY Idling DEF Goes, PublisherIInv, Types
<1>3. Nothing.stage # "refresh"
  BY DEF Nothing
<1> QED BY <1>1, <1>2, <1>3, QuietStep

(* A look at an index that is missing or old leads to the write lock.       *)
LEMMA LookHolds ==
  ASSUME PublisherIInv, NEW r \in Threads, Look(r)
  PROVE  PublisherIInv'
<1>1. request[r] \in Asked /\ ~At(r, "refresh")
  BY Stages DEF Look, At
<1>2. CASE poisoned
  BY <1>1, <1>2, EndHolds DEF Look, Panics
<1>3. CASE ~poisoned /\ UpToDate(request[r].title)
  BY <1>1, <1>3, UpToDateIsFresh, AnsweredHolds DEF Look
<1>4. CASE ~poisoned /\ ~UpToDate(request[r].title)
  <2> DEFINE to == [request[r] EXCEPT !.stage = "write"]
  <2>1. Goes(r, to) /\ request'[r] = to /\ to \in Asked
        /\ to.asked = request[r].asked /\ to.stage = "write"
    BY <1>1, <1>4 DEF Look, Goes, PublisherIInv, Types, Asked
  <2>2. Still /\ ToldHolds'
    BY <1>4, StillHolds DEF Look, Still
  <2> HIDE DEF to
  <2>3. RequestHolds(r)'
    BY <1>1, <1>4, <2>1 DEF RequestHolds, At, Look, PublisherIInv, Asked
  <2> QED BY <1>1, <1>4, <2>1, <2>2, <2>3, QuietStep DEF Look
<1> QED BY <1>2, <1>3, <1>4

(* Whoever reads again finds what the refresh it waited for has left.       *)
LEMMA ReadAgainHolds ==
  ASSUME PublisherIInv, NEW r \in Threads, ReadAgain(r)
  PROVE  PublisherIInv'
<1>1. request[r] \in Asked /\ ~At(r, "refresh")
  BY Stages DEF ReadAgain, At
<1>2. CASE poisoned
  BY <1>1, <1>2, EndHolds DEF ReadAgain, Panics
<1>3. CASE ~poisoned
  <2>1. index[request[r].title] # Absent /\ Fresh(NamesOf(index[request[r].title]), r)
    BY DEF ReadAgain, PublisherIInv, RequestHolds
  <2> QED BY <1>1, <1>3, <2>1, AnsweredHolds DEF ReadAgain
<1> QED BY <1>2, <1>3

(* The holder of the write lock begins with a draft that has all the index  *)
(* has, and all files of the directory left to look at.                     *)
LEMMA TakeWriteLockHolds ==
  ASSUME PublisherIInv, NEW r \in Threads, TakeWriteLock(r)
  PROVE  PublisherIInv'
<1> DEFINE title == request[r].title
           draft == Draft(title)
<1>1. /\ request[r] \in Asked /\ ~At(r, "refresh") /\ writer = Absent
      /\ title \in PublisherTitles /\ request[r].asked \in Time /\ request[r].asked <= now
      /\ now \in Time
  BY Stages DEF TakeWriteLock, At, Asked, PublisherIInv, RequestHolds, Types
<1>2. CASE poisoned
  BY <1>1, <1>2, EndHolds DEF TakeWriteLock, Panics
<1>3. CASE ~poisoned /\ UpToDate(title)
  <2> DEFINE to == [request[r] EXCEPT !.stage = "read"]
  <2>1. /\ Goes(r, to) /\ request'[r] = to /\ to \in Asked /\ to.title = title
        /\ to.asked = request[r].asked /\ to.stage = "read"
    BY <1>1, <1>3 DEF TakeWriteLock, Goes, PublisherIInv, Types, Asked
  <2>2. Still /\ ToldHolds' /\ UNCHANGED <<writer, poisoned>>
    BY <1>3, StillHolds DEF TakeWriteLock, Still
  <2>3. index[title] # Absent /\ Fresh(NamesOf(index[title]), r)
    BY <1>1, <1>3, UpToDateIsFresh
  <2> HIDE DEF to
  <2>4. RequestHolds(r)'
    BY <1>1, <2>1, <2>2, <2>3 DEF RequestHolds, At, Still, Fresh, There, NamesOf, Published
  <2> QED BY <1>1, <2>1, <2>2, <2>4, QuietStep
<1>4. CASE ~poisoned /\ ~UpToDate(title)
  <2> DEFINE to == [stage |-> "refresh", title |-> title, asked |-> request[r].asked,
                    draft |-> draft, left |-> There(title)]
  <2>1. /\ Goes(r, to) /\ request'[r] = to /\ writer' = r
        /\ Still /\ UNCHANGED <<poisoned, told>>
    BY <1>4 DEF TakeWriteLock, Still, Goes, PublisherIInv, Types
  <2>2. /\ StateHolds(draft) /\ draft.last_refresh <= now
        /\ index[title] # Absent => draft = index[title]
    <3>1. CASE index[title] # Absent
      BY <1>1, <3>1 DEF Draft, PublisherIInv, IndexHolds
    <3>2. CASE index[title] = Absent
      <4>1. draft = [last_refresh |-> now, next_id |-> 1, streams |-> <<>>]
        BY <3>2 DEF Draft
      <4> HIDE DEF draft
      <4>2. draft \in State /\ Published(draft) = {}
        BY <1>1, <4>1 DEF State, Published
      <4> QED BY <1>1, <3>2, <4>1, <4>2 DEF StateHolds, Time
    <3> QED BY <3>1, <3>2
  <2>3. to \in Refresh
    <3>1. There(title) \subseteq Names /\ draft \in State
      BY <2>2 DEF There, StateHolds
    <3> HIDE DEF draft
    <3> QED BY <1>1, <3>1 DEF Refresh
  <2> HIDE DEF draft
  <2>4. /\ to.draft = draft /\ to.left = There(title) /\ to.title = title
        /\ to.stage = "refresh" /\ to.asked = request[r].asked
    OBVIOUS
  <2> HIDE DEF to
  <2>5. DraftHolds(r)'
    <3>1. StateHolds(to.draft) /\ to.draft.last_refresh <= now'
      BY <2>1, <2>2, <2>4 DEF Still
    <3>2. index'[to.title] # Absent => Published(index'[to.title]) \subseteq Published(to.draft)
      BY <2>1, <2>2, <2>4 DEF Still
    <3>3. \A n \in Names : dir'[to.title][n] # Absent => n \in to.left
      BY <2>1, <2>4 DEF Still, There
    <3> QED BY <2>1, <3>1, <3>2, <3>3 DEF DraftHolds, Covers, Fresh, There
  <2>6. RequestHolds(r)'
    BY <1>1, <2>1, <2>3, <2>4, <2>5 DEF RequestHolds, At, Still
  <2>7. Moves /\ (\A t \in PublisherTitles : IndexHolds(t)') /\ ToldHolds'
    BY <2>1, StillHolds
  <2>8. /\ \A q \in Threads : RequestHolds(q)'
        /\ DOMAIN request' = Threads
        /\ \A q \in Threads \ {r} : request'[q] = request[q]
    BY <2>1, <2>6, <2>7, OneMoves DEF Still
  <2>9. Types'
    <3>1. ASSUME NEW q \in Threads PROVE At(q, "refresh")' <=> writer' = q
      BY <1>1, <2>1, <2>4, <2>8, PublisherAssumption DEF PublisherIInv, Types, At
    <3> QED BY <1>4, <2>1, <2>8, <3>1 DEF PublisherIInv, Types, Still
  <2> QED BY <2>7, <2>8, <2>9 DEF PublisherIInv
<1> QED BY <1>2, <1>3, <1>4

(* A panic under the write lock poisons it; the index stays as it was.      *)
LEMMA PanicHolds ==
  ASSUME PublisherIInv, NEW r \in Threads, At(r, "refresh"), Panics(r),
         writer' = Absent, poisoned' = TRUE
  PROVE  PublisherIInv'
<1>1. Still /\ told' = told /\ Goes(r, Nothing)
  BY DEF Panics, Still
<1>2. Moves /\ (\A t \in PublisherTitles : IndexHolds(t)') /\ ToldHolds'
  BY <1>1, StillHolds
<1>3. RequestHolds(r)'
  BY <1>1, Idling DEF Goes, PublisherIInv, Types
<1>4. /\ \A q \in Threads : RequestHolds(q)'
      /\ DOMAIN request' = Threads /\ request'[r] = Nothing
      /\ \A q \in Threads \ {r} : request'[q] = request[q]
  BY <1>1, <1>2, <1>3, OneMoves DEF Still
<1>5. Types'
  <2>1. ASSUME NEW q \in Threads PROVE At(q, "refresh")' <=> writer' = q
    BY <1>4, PublisherAssumption DEF PublisherIInv, Types, At, Nothing
  <2> QED BY <1>1, <1>4, <2>1 DEF PublisherIInv, Types, Still
<1> QED BY <1>2, <1>4, <1>5 DEF PublisherIInv

(* An entry moves from what is left to the draft.                           *)
LEMMA HandleEntryHolds ==
  ASSUME PublisherIInv, NEW r \in Threads, HandleEntry(r)
  PROVE  PublisherIInv'
<1> DEFINE title == request[r].title
           draft == request[r].draft
<1>1. /\ At(r, "refresh") /\ request[r] \in Refresh /\ DraftHolds(r)
      /\ request[r].asked <= now
  BY Stages DEF HandleEntry, PublisherIInv, RequestHolds, At
<1>2. PICK n \in request[r].left :
        IF dir[title][n] = Absent \/ n \in Illegible
        THEN Panics(r) /\ writer' = Absent /\ poisoned' = TRUE
        ELSE /\ Goes(r, [request[r] EXCEPT !.left = @ \ {n},
                                          !.draft = WithEntry(@, n)])
             /\ UNCHANGED <<dir, index, writer, poisoned, now, changes, told>>
  BY DEF HandleEntry
<1>3. CASE dir[title][n] = Absent \/ n \in Illegible
  BY <1>1, <1>2, <1>3, PanicHolds
<1>4. CASE ~(dir[title][n] = Absent \/ n \in Illegible)
  <2> DEFINE new == WithEntry(draft, n)
             left == request[r].left \ {n}
             to == [request[r] EXCEPT !.left = left, !.draft = new]
  <2>1. /\ StateHolds(new) /\ new.last_refresh = draft.last_refresh
        /\ Published(draft) \subseteq Published(new)
        /\ NamesOf(new) = NamesOf(draft) \cup {n}
    BY <1>1, WithEntryHolds DEF DraftHolds, Refresh
  <2>2. new \in State /\ left \subseteq Names
    BY <1>1, <2>1 DEF StateHolds, Refresh
  <2>3. /\ Goes(r, to) /\ request'[r] = to
        /\ Still /\ UNCHANGED <<writer, poisoned, told>>
    BY <1>2, <1>4 DEF Still, Goes, PublisherIInv, Types
  <2> HIDE DEF new, left
  <2>4. /\ to \in Refresh /\ to.stage = "refresh" /\ to.title = title
        /\ to.asked = request[r].asked /\ to.draft = new /\ to.left = left
    BY <1>1, <2>2 DEF Refresh
  <2> HIDE DEF to
  <2>5. to.left \cup NamesOf(to.draft) = request[r].left \cup NamesOf(draft)
    BY <2>1, <2>4 DEF left
  <2>6. DraftHolds(r)'
    <3>1. StateHolds(to.draft) /\ to.draft.last_refresh <= now'
      BY <1>1, <2>1, <2>3, <2>4 DEF DraftHolds, Still
    <3>2. index'[to.title] # Absent => Published(index'[to.title]) \subseteq Published(to.draft)
      BY <1>1, <2>1, <2>3, <2>4 DEF DraftHolds, Still
    <3>3. \A m \in Names : dir'[to.title][m] # Absent =>
            /\ dir'[to.title][m] < to.draft.last_refresh =>
                 m \in to.left \cup NamesOf(to.draft)
            /\ dir'[to.title][m] + STATE_REFRESH_SECONDS < to.asked =>
                 m \in to.left \cup NamesOf(to.draft)
      BY <1>1, <2>1, <2>3, <2>4, <2>5 DEF DraftHolds, Covers, Fresh, There, Still
    <3> QED BY <2>3, <3>1, <3>2, <3>3 DEF DraftHolds, Covers, Fresh, There
  <2>7. RequestHolds(r)'
    BY <1>1, <2>3, <2>4, <2>6 DEF RequestHolds, At, Still
  <2>8. Moves /\ (\A t \in PublisherTitles : IndexHolds(t)') /\ ToldHolds'
    BY <2>3, StillHolds
  <2>9. /\ \A q \in Threads : RequestHolds(q)'
        /\ DOMAIN request' = Threads
        /\ \A q \in Threads \ {r} : request'[q] = request[q]
    BY <2>3, <2>7, <2>8, OneMoves DEF Still
  <2>10. Types'
    <3>1. ASSUME NEW q \in Threads PROVE At(q, "refresh")' <=> writer' = q
      BY <1>1, <2>3, <2>4, <2>9 DEF PublisherIInv, Types, At
    <3> QED BY <2>3, <2>9, <3>1 DEF PublisherIInv, Types, Still
  <2> QED BY <2>8, <2>9, <2>10 DEF PublisherIInv
<1> QED BY <1>3, <1>4

(* The draft becomes the index: it has what the index had, and every file   *)
(* the request has a right to see, as nothing is left.                      *)
LEMMA RefreshedHolds ==
  ASSUME PublisherIInv, NEW r \in Threads, Refreshed(r)
  PROVE  PublisherIInv'
<1> DEFINE title == request[r].title
           draft == request[r].draft
           to == [stage |-> "read", title |-> title, asked |-> request[r].asked]
<1>1. /\ At(r, "refresh") /\ request[r] \in Refresh /\ DraftHolds(r)
      /\ request[r].asked <= now /\ request[r].left = {} /\ writer = r /\ ~poisoned
  BY Stages, PublisherAssumption DEF Refreshed, PublisherIInv, RequestHolds, At, Types
<1>2. /\ title \in PublisherTitles /\ draft \in State /\ draft # Absent
      /\ request[r].asked \in Time /\ StateHolds(draft)
  BY <1>1, PublisherAssumption DEF Refresh, DraftHolds
<1>3. /\ Goes(r, to) /\ request'[r] = to /\ to \in Asked
      /\ writer' = Absent /\ UNCHANGED <<dir, poisoned, now, told>>
      /\ index' = [index EXCEPT ![title] = draft]
  BY <1>2 DEF Refreshed, Goes, PublisherIInv, Types, Asked
<1>4. to.stage = "read" /\ to.title = title /\ to.asked = request[r].asked
  OBVIOUS
<1> HIDE DEF to, draft
<1>5. /\ index'[title] = draft
      /\ \A t \in PublisherTitles \ {title} : index'[t] = index[t]
      /\ index' \in [PublisherTitles -> State \cup {Absent}]
  BY <1>2, <1>3 DEF PublisherIInv, Types
<1>6. Moves
  <2>1. \A t \in PublisherTitles : index[t] # Absent =>
          index'[t] # Absent /\ Published(index[t]) \subseteq Published(index'[t])
    BY <1>1, <1>2, <1>5 DEF DraftHolds, draft
  <2> QED BY <1>3, <2>1 DEF Moves, PublisherIInv, Types, Time
<1>7. ASSUME NEW t \in PublisherTitles PROVE IndexHolds(t)'
  <2>1. CASE t = title
    <3>1. draft.last_refresh <= now'
      BY <1>1, <1>3 DEF DraftHolds, draft
    <3>2. \A n \in Names : dir'[title][n] # Absent =>
            (dir'[title][n] < draft.last_refresh => n \in NamesOf(draft))
      BY <1>1, <1>3 DEF DraftHolds, Covers, There, draft
    <3> QED BY <1>2, <1>5, <2>1, <3>1, <3>2 DEF IndexHolds, Covers, There
  <2>2. CASE t # title
    BY <1>3, <1>5, <2>2 DEF PublisherIInv, IndexHolds, Covers, There
  <2> QED BY <2>1, <2>2
<1>8. ToldHolds'
  BY <1>3, <1>6 DEF PublisherIInv, ToldHolds, Moves
<1>9. RequestHolds(r)'
  <2>1. \A n \in Names :
          /\ dir'[title][n] # Absent
          /\ dir'[title][n] + STATE_REFRESH_SECONDS < to.asked
          => n \in NamesOf(index'[title])
    BY <1>1, <1>3, <1>4, <1>5 DEF DraftHolds, Fresh, There, draft
  <2> QED BY <1>1, <1>2, <1>3, <1>4, <1>5, <2>1 DEF RequestHolds, At, Fresh, There
<1>10. /\ \A q \in Threads : RequestHolds(q)'
       /\ DOMAIN request' = Threads
       /\ \A q \in Threads \ {r} : request'[q] = request[q]
  BY <1>1, <1>3, <1>6, <1>9, OneMoves
<1>11. Types'
  <2>1. ASSUME NEW q \in Threads PROVE At(q, "refresh")' <=> writer' = q
    BY <1>1, <1>3, <1>4, <1>10, PublisherAssumption DEF PublisherIInv, Types, At
  <2> QED BY <1>1, <1>3, <1>5, <1>10, <2>1 DEF PublisherIInv, Types
<1> QED BY <1>7, <1>8, <1>10, <1>11 DEF PublisherIInv

-----------------------------------------------------------------------------
(* The clock and the operator move the world, and nothing else.             *)
LEMMA WorldHolds ==
  ASSUME PublisherIInv,
         Tick \/ \E title \in PublisherTitles, name \in Names, to \in {Absent, now} :
                   Change(title, name, to)
  PROVE  PublisherIInv'
<1>1. UNCHANGED <<index, writer, poisoned, request, told>>
  BY DEF Tick, Change
<1>2. Moves
  <2>1. CASE Tick
    <3>1. now' \in Time /\ now <= now'
      BY <2>1, PublisherAssumption DEF Tick, PublisherIInv, Types, Time
    <3> QED BY <2>1, <3>1 DEF Tick, Moves, PublisherIInv, Types
  <2>2. CASE \E title \in PublisherTitles, name \in Names, to \in {Absent, now} :
               Change(title, name, to)
    <3>1. PICK title \in PublisherTitles, name \in Names, to \in {Absent, now} :
            Change(title, name, to)
      BY <2>2
    <3>2. now' = now /\ now <= now' /\ now' \in Time
      BY <3>1 DEF Change, PublisherIInv, Types, Time
    <3>3. /\ dir' \in [PublisherTitles -> [Names -> Time \cup {Absent}]]
          /\ \A t \in PublisherTitles : \A n \in Names : dir'[t][n] \in {dir[t][n], Absent, now}
      BY <3>1 DEF Change, PublisherIInv, Types
    <3> QED BY <1>1, <3>2, <3>3 DEF Moves
  <2> QED BY <2>1, <2>2
<1>3. ASSUME NEW t \in PublisherTitles PROVE IndexHolds(t)'
  <2> SUFFICES ASSUME index[t] # Absent PROVE IndexHolds(t)'
    BY <1>1 DEF IndexHolds
  <2>1. /\ StateHolds(index[t]) /\ index[t].last_refresh <= now
        /\ Covers(NamesOf(index[t]), t, index[t].last_refresh)
        /\ index[t].last_refresh \in Time
    BY DEF PublisherIInv, IndexHolds, StateHolds, State
  <2>2. \A n \in There(t)' : dir'[t][n] < index[t].last_refresh => n \in NamesOf(index[t])
    BY <1>2, <2>1, StillThere DEF Covers, PublisherIInv, Time
  <2>3. index[t].last_refresh <= now'
    BY <1>2, <2>1 DEF Moves, PublisherIInv, Types, Time
  <2> QED BY <1>1, <2>1, <2>2, <2>3 DEF IndexHolds, Covers
<1>4. \A r \in Threads : RequestHolds(r)'
  BY <1>1, <1>2, Untouched DEF PublisherIInv
<1>5. Types' /\ ToldHolds'
  BY <1>1, <1>2 DEF PublisherIInv, Types, ToldHolds, Moves, At
<1> QED BY <1>3, <1>4, <1>5 DEF PublisherIInv

(* A restart leaves the directory only.                                     *)
LEMMA RestartHolds == PublisherIInv /\ PublisherRestart => PublisherIInv'
<1> SUFFICES ASSUME PublisherIInv, PublisherRestart PROVE PublisherIInv'
  OBVIOUS
<1>1. Types'
  BY PublisherAssumption DEF PublisherIInv, Types, PublisherRestart, At, Nothing
<1>2. \A r \in Threads : RequestHolds(r)'
  BY Idling DEF PublisherRestart
<1>3. ToldHolds' /\ \A t \in PublisherTitles : IndexHolds(t)'
  BY DEF PublisherRestart, ToldHolds, IndexHolds
<1> QED BY <1>1, <1>2, <1>3 DEF PublisherIInv

(* IInv is inductive.                                                       *)
LEMMA StepHolds == PublisherIInv /\ [PublisherNext]_publisherVars => PublisherIInv'
<1> SUFFICES ASSUME PublisherIInv, [PublisherNext]_publisherVars PROVE PublisherIInv'
  OBVIOUS
<1>1. CASE UNCHANGED publisherVars
  <2>1. Moves /\ (\A t \in PublisherTitles : IndexHolds(t)') /\ ToldHolds'
    BY <1>1, StillHolds DEF publisherVars, Still
  <2>2. \A r \in Threads : RequestHolds(r)'
    BY <1>1, <2>1, Untouched DEF publisherVars, PublisherIInv
  <2>3. Types'
    BY <1>1 DEF publisherVars, PublisherIInv, Types, At
  <2> QED BY <2>1, <2>2, <2>3 DEF PublisherIInv
<1>2. ASSUME NEW r \in Threads, Leaves(r) PROVE PublisherIInv'
  BY <1>2, EndHolds DEF Leaves, At
<1> QED BY <1>1, <1>2, AskHolds, LookHolds, TakeWriteLockHolds, HandleEntryHolds,
           RefreshedHolds, ReadAgainHolds, WorldHolds, RestartHolds DEF PublisherNext

(* So it holds in every state that is reached.                              *)
LEMMA Inductive == PublisherSpec => []PublisherIInv
BY InitHolds, StepHolds, PTL DEF PublisherSpec

(* The write lock is held by the one thread that refreshes, a poisoned one  *)
(* by nobody, and whoever waited for a refresh finds an index (TypeOK).     *)
THEOREM PublisherIndexTypeOK == PublisherSpec => []PublisherTypeOK
<1>1. PublisherIInv => PublisherTypeOK
  BY DEF PublisherIInv, Types, RequestHolds, PublisherTypeOK
<1> QED BY <1>1, Inductive, PTL

(* Of the ids of publisher_streams, each is one file's until the server     *)
(* stops, through refreshes that cross, files that come and go, and panics. *)
THEOREM StreamIdsStay == PublisherSpec => []IdsStayWithTheirFile
<1>1. PublisherIInv => IdsStayWithTheirFile
  <2> SUFFICES ASSUME PublisherIInv PROVE IdsStayWithTheirFile
    OBVIOUS
  <2>1. \A title : Streams(title) = Published(index[title])
    BY DEF Streams, Published
  <2>2. ASSUME NEW s \in told, NEW t \in told, s.title = t.title
        PROVE  s.id = t.id <=> s.filename = t.filename
    <3>1. IndexHolds(t.title) /\ index[t.title] # Absent
      BY DEF PublisherIInv, ToldHolds
    <3>2. /\ [id |-> s.id, filename |-> s.filename] \in Published(index[t.title])
          /\ [id |-> t.id, filename |-> t.filename] \in Published(index[t.title])
      BY <2>2 DEF PublisherIInv, ToldHolds
    <3> QED BY <3>1, <3>2 DEF IndexHolds, StateHolds
  <2> QED BY <2>1, <2>2 DEF PublisherIInv, ToldHolds, IdsStayWithTheirFile
<1> QED BY <1>1, Inductive, PTL

(* No request misses a file that has lain there for STATE_REFRESH_SECONDS,  *)
(* though a refresh never updates last_refresh and may be another's.        *)
THEOREM LyingFilesAreFound == PublisherSpec => []PublishedFilesAreFound
<1>1. PublisherIInv => PublishedFilesAreFound
  BY DEF PublisherIInv, RequestHolds, Fresh, PublishedFilesAreFound
<1> QED BY <1>1, Inductive, PTL
=============================================================================
