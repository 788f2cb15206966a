------------------------- MODULE UserStorageProofs -------------------------
(***************************************************************************)
(* Proofs about UserStorage, for any number of connections, users, titles,  *)
(* names and published files, and for every bound.                          *)
(*                                                                         *)
(* The properties speak of answers on their way.  The inductive invariant   *)
(* IInv adds what the stages before an answer must remember: whose row a    *)
(* created file is, that what was found among the published files has the   *)
(* highest bit, and where each steady entry of a directory is while a list  *)
(* is put together.                                                         *)
(***************************************************************************)
EXTENDS UserStorage, FiniteSetTheorems, SequenceTheorems, TLAPS

(* An answer to a create names a row of the session's user and title        *)
CreatedHolds(c) ==
  request[c].stage = "answer" /\ request[c].kind = "created" =>
    /\ request[c].id \in DOMAIN rows
    /\ rows[request[c].id].filename = request[c].name
    /\ rows[request[c].id].title = session[c].title
    /\ rows[request[c].id].owner = session[c].user

OwnHolds(c) ==
  request[c].stage = "answer" /\ request[c].kind = "own" =>
    \A i \in request[c].ids : i \in DOMAIN rows /\ rows[i].owner = session[c].user

(* What is found among the published files has an id with the highest bit   *)
Finding == [stage : {"read", "info"}, id : {FileId(n) : n \in PublishedNames},
            name : PublishedNames]

PublishedHolds(c) ==
  /\ request[c].stage \in {"read", "info"} => request[c] \in Finding
  /\ request[c].stage = "answer" /\ request[c].kind = "published" =>
       request[c].id \in {FileId(n) : n \in PublishedNames}

Lists == [stage : {"list", "listed"}, left : SUBSET PublishedNames, since : Time,
          limit : Limits, files : SUBSET PublishedNames,
          passed : SUBSET PublishedNames, steady : SUBSET PublishedNames]

(* A steady entry is still to be looked at, taken, or was too old           *)
ListHolds(c) ==
  request[c].stage \in {"list", "listed"} =>
    /\ request[c] \in Lists
    /\ IsFiniteSet(request[c].files)
    /\ \A n \in request[c].steady :
         \/ n \in request[c].left
         \/ n \in request[c].files
         \/ ~(published[session[c].title][n] >= request[c].since)
    /\ request[c].stage = "listed" => request[c].left = {} \/ Enough(request[c])

RequestHolds(c) == CreatedHolds(c) /\ OwnHolds(c) /\ PublishedHolds(c) /\ ListHolds(c)

ToldHolds ==
  \A t \in told : /\ t.id \in DOMAIN rows
                  /\ rows[t.id].filename = t.filename
                  /\ rows[t.id].title = t.title
                  /\ rows[t.id].owner = t.owner

IInv == /\ TypeOK
        /\ DOMAIN request = Connections
        /\ OneFilePerName
        /\ ToldHolds
        /\ \A c \in Connections : RequestHolds(c)

-----------------------------------------------------------------------------
(* Every step keeps the rows there are, but for their data.                 *)
RowsKept == \A i \in DOMAIN rows : /\ i \in DOMAIN rows'
                                   /\ rows'[i].filename = rows[i].filename
                                   /\ rows'[i].title = rows[i].title
                                   /\ rows'[i].owner = rows[i].owner

(* What a step may do to the table                                          *)
RowsHold == rows \in Seq(Row) /\ Len(rows) <= MaxFiles /\ OneFilePerName

(* An overwritten row keeps its place, name, title and owner.               *)
LEMMA OverwriteKeeps ==
  ASSUME RowsHold, NEW id \in DOMAIN rows, NEW data \in Contents,
         rows' = Overwrite(id, data)
  PROVE  RowsHold' /\ RowsKept
<1>1. /\ rows' \in Seq(Row) /\ Len(rows') = Len(rows)
      /\ DOMAIN rows' = DOMAIN rows
  <2> DEFINE new == [rows[id] EXCEPT !.data = data]
  <2>1. id \in 1..Len(rows) /\ rows[id] \in Row
    BY DEF RowsHold
  <2>2. new \in Row
    BY <2>1 DEF Row
  <2>3. rows' = [rows EXCEPT ![id] = new]
    BY DEF Overwrite
  <2> HIDE DEF new
  <2> QED BY <2>1, <2>2, <2>3, ExceptSeq DEF RowsHold
<1>2. RowsKept
  BY <1>1 DEF RowsHold, Overwrite, Row, RowsKept
<1>3. OneFilePerName'
  BY <1>1, <1>2 DEF RowsHold, RowsKept, OneFilePerName
<1> QED BY <1>1, <1>2, <1>3 DEF RowsHold

(* A create overwrites the file of that name or appends one, and answers    *)
(* with its id.                                                             *)
LEMMA SaveKeeps ==
  ASSUME RowsHold, NEW s \in Session, NEW name \in Names, NEW data \in Contents,
         NEW id \in 1..Len(rows) + 1, Save(s, name, data, id)
  PROVE  /\ RowsHold' /\ RowsKept
         /\ id \in DOMAIN rows'
         /\ rows'[id].filename = name
         /\ rows'[id].title = s.title
         /\ rows'[id].owner = s.user
<1>1. CASE id \in Existing(name, s) /\ rows' = Overwrite(id, data)
  <2>1. /\ id \in DOMAIN rows
        /\ rows[id].filename = name /\ rows[id].title = s.title /\ rows[id].owner = s.user
    BY <1>1 DEF Existing
  <2>2. RowsHold' /\ RowsKept
    BY <1>1, <2>1, OverwriteKeeps
  <2> QED BY <2>1, <2>2 DEF RowsKept
<1>2. CASE /\ Existing(name, s) = {} /\ id = Len(rows) + 1
           /\ Len(rows) < MaxFiles
           /\ rows' = Append(rows, [filename |-> name, title |-> s.title,
                                    owner |-> s.user, data |-> data])
  <2> DEFINE new == [filename |-> name, title |-> s.title, owner |-> s.user, data |-> data]
  <2>1. new \in Row
    BY DEF Row, Session
  <2>2. /\ rows' \in Seq(Row) /\ Len(rows') = Len(rows) + 1
        /\ DOMAIN rows' = 1..Len(rows) + 1 /\ DOMAIN rows = 1..Len(rows)
        /\ rows'[Len(rows) + 1] = new
        /\ \A i \in DOMAIN rows : rows'[i] = rows[i]
    BY <1>2, <2>1 DEF RowsHold
  <2>3. RowsKept
    BY <2>2 DEF RowsKept, RowsHold
  <2>4. \A i \in DOMAIN rows : ~(/\ rows[i].filename = name
                                 /\ rows[i].title = s.title /\ rows[i].owner = s.user)
    BY <1>2 DEF Existing
  <2>5. OneFilePerName'
    <3> SUFFICES ASSUME NEW i \in DOMAIN rows', NEW j \in DOMAIN rows',
                        rows'[i].filename = rows'[j].filename,
                        rows'[i].title = rows'[j].title,
                        rows'[i].owner = rows'[j].owner
                 PROVE  i = j
      BY DEF OneFilePerName
    <3>1. Len(rows) \in Nat
      BY DEF RowsHold
    <3>2. (i \in DOMAIN rows \/ i = id) /\ (j \in DOMAIN rows \/ j = id)
      BY <1>2, <2>2, <3>1
    <3>3. CASE i \in DOMAIN rows /\ j \in DOMAIN rows
      BY <2>2, <3>3 DEF RowsHold, OneFilePerName
    <3>4. CASE i = id /\ j \in DOMAIN rows
      BY <1>2, <2>2, <2>4, <3>4
    <3>5. CASE i \in DOMAIN rows /\ j = id
      BY <1>2, <2>2, <2>4, <3>5
    <3> QED BY <3>2, <3>3, <3>4, <3>5
  <2>6. MaxFiles \in Nat /\ Len(rows) \in Nat
    BY StorageAssumption DEF RowsHold
  <2>7. RowsHold'
    BY <1>2, <2>2, <2>5, <2>6 DEF RowsHold
  <2> QED BY <1>2, <2>2, <2>3, <2>6, <2>7
<1> QED BY <1>1, <1>2 DEF Save

(* Nothing written keeps everything.                                        *)
LEMMA SameRows ==
  ASSUME RowsHold, UNCHANGED rows
  PROVE  RowsHold' /\ RowsKept
BY DEF RowsHold, RowsKept, OneFilePerName

-----------------------------------------------------------------------------
(* A request no step touches still holds.                                   *)
LEMMA Untouched ==
  ASSUME NEW c \in Connections, RequestHolds(c), RowsKept, UNCHANGED published,
         request'[c] = request[c], session'[c] = session[c]
  PROVE  RequestHolds(c)'
<1>1. CreatedHolds(c)'
  BY DEF RequestHolds, CreatedHolds, RowsKept
<1>2. OwnHolds(c)'
  BY DEF RequestHolds, OwnHolds, RowsKept
<1>3. PublishedHolds(c)'
  BY DEF RequestHolds, PublishedHolds
<1>4. ListHolds(c)'
  BY DEF RequestHolds, ListHolds, Enough
<1> QED BY <1>1, <1>2, <1>3, <1>4 DEF RequestHolds

(* No request holds anything.                                               *)
LEMMA Idling ==
  ASSUME NEW c \in Connections, request'[c] = Nothing
  PROVE  RequestHolds(c)'
BY DEF Nothing, RequestHolds, CreatedHolds, OwnHolds, PublishedHolds, ListHolds

(* A session that goes on to something keeps the invariant, if what it goes *)
(* on to holds.                                                             *)
LEMMA GoesHolds ==
  ASSUME IInv, RowsHold', RowsKept, NEW c \in Connections, NEW to, Goes(c, to),
         session[c] # None, request'[c] = to => RequestHolds(c)'
  PROVE  IInv'
<1>1. /\ DOMAIN request' = Connections /\ request'[c] = to
      /\ \A d \in Connections : d # c => request'[d] = request[d]
  BY DEF Goes, IInv
<1>2. ASSUME NEW d \in Connections PROVE RequestHolds(d)'
  BY <1>1, Untouched DEF Goes, IInv
<1>3. ToldHolds'
  BY DEF IInv, ToldHolds, RowsKept, Goes
<1>4. TypeOK'
  BY <1>1 DEF IInv, TypeOK, Goes, RowsHold
<1> QED BY <1>1, <1>2, <1>3, <1>4 DEF IInv, RowsHold

-----------------------------------------------------------------------------
(* Nothing holds at first that could be violated.                           *)
LEMMA InitHolds == Init => IInv
<1> SUFFICES ASSUME Init PROVE IInv
  OBVIOUS
<1>1. TypeOK
  BY StorageAssumption DEF Init, TypeOK
<1>2. OneFilePerName /\ ToldHolds
  BY DEF Init, OneFilePerName, ToldHolds
<1>3. ASSUME NEW c \in Connections PROVE RequestHolds(c)
  BY DEF Init, Nothing, RequestHolds, CreatedHolds, OwnHolds, PublishedHolds, ListHolds
<1> QED BY <1>1, <1>2, <1>3 DEF IInv, Init

-----------------------------------------------------------------------------
(* A session that has a request, or may take one up, has signed in.         *)
LEMMA SignedIn ==
  ASSUME IInv, NEW c \in Connections, Idle(c) \/ request[c].stage # "nothing"
  PROVE  session[c] \in Session /\ session[c] # None
BY DEF IInv, TypeOK, Idle, Nothing

(* A created file's answer names its row.                                   *)
LEMMA CreateFileHolds ==
  ASSUME IInv, NEW c \in Connections, NEW name \in Names, NEW data \in Contents,
         CreateFile(c, name, data)
  PROVE  IInv' /\ RowsKept
<1>1. RowsHold /\ session[c] \in Session /\ session[c] # None
  BY SignedIn DEF CreateFile, RowsHold, IInv, TypeOK
<1>2. CASE Refusal(name, data) # "NoError"
  BY <1>1, <1>2, SameRows, Idling, GoesHolds DEF CreateFile, Answer
<1>3. CASE Refusal(name, data) = "NoError"
  <2>1. PICK id \in 1..Len(rows) + 1 :
          /\ Save(session[c], name, data, id)
          /\ Goes(c, [stage |-> "answer", kind |-> "created", id |-> id, name |-> name])
    BY <1>3 DEF CreateFile
  <2>2. /\ RowsHold' /\ RowsKept
        /\ id \in DOMAIN rows' /\ rows'[id].filename = name
        /\ rows'[id].title = session[c].title /\ rows'[id].owner = session[c].user
    BY <1>1, <2>1, SaveKeeps
  <2> DEFINE to == [stage |-> "answer", kind |-> "created", id |-> id, name |-> name]
  <2>3. request'[c] = to => RequestHolds(c)'
    BY <2>1, <2>2
    DEF Goes, RequestHolds, CreatedHolds, OwnHolds, PublishedHolds, ListHolds
  <2> QED BY <1>1, <2>1, <2>2, <2>3, GoesHolds
<1> QED BY <1>2, <1>3

(* An update changes the data of the owner's row at most.                   *)
LEMMA UpdateFileByIdHolds ==
  ASSUME IInv, NEW c \in Connections, NEW id \in Ids, NEW data \in Contents,
         UpdateFileById(c, id, data)
  PROVE  IInv' /\ RowsKept
<1>1. RowsHold /\ session[c] # None
  BY SignedIn DEF UpdateFileById, RowsHold, IInv, TypeOK
<1>2. RowsHold' /\ RowsKept
  <2>1. \/ UNCHANGED rows
        \/ id \in DOMAIN rows /\ rows' = Overwrite(id, data)
    BY DEF UpdateFileById, MayUpdate
  <2> QED BY <1>1, <2>1, SameRows, OverwriteKeeps
<1>3. \E code : Goes(c, Answer(code))
  BY DEF UpdateFileById
<1> QED BY <1>1, <1>2, <1>3, Idling, GoesHolds DEF Answer

(* What a client gets by id or in a list of users' files is its own.        *)
LEMMA ReadsOwnHold ==
  ASSUME IInv, NEW c \in Connections,
         \/ \E id \in Ids : GetFileById(c, id)
         \/ \E owner \in Users, limit \in Limits, matching \in SUBSET DOMAIN rows :
              ListFilesByOwner(c, owner, limit, matching)
  PROVE  IInv' /\ RowsKept
<1>1. /\ RowsHold /\ UNCHANGED rows /\ session[c] # None
  BY SignedIn DEF GetFileById, ListFilesByOwner, RowsHold, IInv, TypeOK
<1>2. RowsHold' /\ RowsKept
  BY <1>1, SameRows
<1>3. CASE \E id \in Ids : GetFileById(c, id)
  <2>1. PICK id \in Ids : GetFileById(c, id)
    BY <1>3
  <2>2. CASE Own(id, session[c].user)
    <3> DEFINE to == [stage |-> "answer", kind |-> "own", ids |-> {id}]
    <3>1. Goes(c, to)
      BY <2>1, <2>2 DEF GetFileById
    <3>2. request'[c] = to => RequestHolds(c)'
      BY <1>1, <2>2, <3>1
      DEF Own, Goes, RequestHolds, CreatedHolds, OwnHolds, PublishedHolds, ListHolds
    <3> QED BY <1>1, <1>2, <3>1, <3>2, GoesHolds
  <2>3. CASE ~Own(id, session[c].user)
    <3> DEFINE to == [stage |-> "find", id |-> id]
    <3>1. Goes(c, to)
      BY <2>1, <2>3 DEF GetFileById
    <3>2. request'[c] = to => RequestHolds(c)'
      BY DEF RequestHolds, CreatedHolds, OwnHolds, PublishedHolds, ListHolds
    <3> QED BY <1>1, <1>2, <3>1, <3>2, GoesHolds
  <2> QED BY <2>2, <2>3
<1>4. CASE \E owner \in Users, limit \in Limits, matching \in SUBSET DOMAIN rows :
             ListFilesByOwner(c, owner, limit, matching)
  <2>1. PICK owner \in Users, limit \in Limits, matching \in SUBSET DOMAIN rows :
          ListFilesByOwner(c, owner, limit, matching)
    BY <1>4
  <2>2. PICK ids : /\ Goes(c, [stage |-> "answer", kind |-> "own", ids |-> ids])
                   /\ ids \subseteq Visible(owner, session[c])
    BY <2>1 DEF ListFilesByOwner
  <2> DEFINE to == [stage |-> "answer", kind |-> "own", ids |-> ids]
  <2>3. request'[c] = to => RequestHolds(c)'
    BY <1>1, <2>2
    DEF Visible, Goes, RequestHolds, CreatedHolds, OwnHolds, PublishedHolds, ListHolds
  <2> QED BY <1>1, <1>2, <2>2, <2>3, GoesHolds
<1> QED BY <1>3, <1>4

(* What is found, read and answered of published files has their ids.       *)
LEMMA ReadsPublishedHold ==
  ASSUME IInv, NEW c \in Connections,
         FindPublished(c) \/ ReadPublished(c) \/ InfoOfPublished(c)
  PROVE  IInv' /\ RowsKept
<1>1. /\ RowsHold /\ UNCHANGED rows /\ session[c] # None
  BY SignedIn DEF FindPublished, ReadPublished, InfoOfPublished, RowsHold, IInv, TypeOK
<1>2. RowsHold' /\ RowsKept
  BY <1>1, SameRows
<1>3. CASE Goes(c, Nothing)
  BY <1>1, <1>2, <1>3, Idling, GoesHolds
<1>4. CASE FindPublished(c) /\ ~Goes(c, Nothing)
  <2>1. PICK n \in PublishedNames :
          /\ FileId(n) = request[c].id
          /\ Goes(c, [stage |-> "read", id |-> request[c].id, name |-> n])
    BY <1>4 DEF FindPublished, There, Answer
  <2> DEFINE to == [stage |-> "read", id |-> request[c].id, name |-> n]
  <2>2. request'[c] = to => RequestHolds(c)'
    BY <2>1
    DEF Finding, RequestHolds, CreatedHolds, OwnHolds, PublishedHolds, ListHolds
  <2> QED BY <1>1, <1>2, <2>1, <2>2, GoesHolds
<1>5. CASE ReadPublished(c) /\ ~Goes(c, Nothing)
  <2> DEFINE to == [request[c] EXCEPT !.stage = "info"]
  <2>1. Goes(c, to) /\ to \in Finding /\ to.stage = "info"
    BY <1>5 DEF ReadPublished, Answer, IInv, RequestHolds, PublishedHolds, Finding
  <2>2. request'[c] = to => RequestHolds(c)'
    BY <2>1 DEF RequestHolds, CreatedHolds, OwnHolds, PublishedHolds, ListHolds
  <2> HIDE DEF to
  <2> QED BY <1>1, <1>2, <2>1, <2>2, GoesHolds
<1>6. CASE InfoOfPublished(c) /\ Goes(c, FileOf(request[c].id, request[c].name))
  <2> DEFINE to == FileOf(request[c].id, request[c].name)
  <2>1. request[c] \in Finding
    BY <1>6 DEF InfoOfPublished, IInv, RequestHolds, PublishedHolds
  <2>2. request'[c] = to => RequestHolds(c)'
    BY <2>1
    DEF FileOf, Finding, RequestHolds, CreatedHolds, OwnHolds, PublishedHolds, ListHolds
  <2> QED BY <1>1, <1>2, <1>6, <2>2, GoesHolds
<1>7. CASE Panic(c)
  <2>1. \A d \in Connections : RequestHolds(d)'
    BY <1>2, <1>7, Idling, Untouched DEF Panic, IInv, TypeOK
  <2>2. TypeOK'
    BY <1>1, <1>7 DEF Panic, IInv, TypeOK, Nothing
  <2>3. DOMAIN request' = Connections /\ ToldHolds' /\ OneFilePerName'
    BY <1>1, <1>2, <1>7 DEF Panic, IInv, ToldHolds, RowsHold
  <2> QED BY <1>2, <2>1, <2>2, <2>3 DEF IInv
<1> QED BY <1>3, <1>4, <1>5, <1>6, <1>7 DEF ReadPublished, FindPublished, InfoOfPublished

-----------------------------------------------------------------------------
(* A list that is put together keeps an account of every steady entry.      *)
LEMMA ListHolding ==
  ASSUME NEW c \in Connections, NEW to \in Lists, request'[c] = to,
         UNCHANGED <<published, session>>,
         IsFiniteSet(to.files),
         \A n \in to.steady : \/ n \in to.left
                              \/ n \in to.files
                              \/ ~(published[session[c].title][n] >= to.since),
         to.stage = "listed" => to.left = {} \/ Enough(to)
  PROVE  RequestHolds(c)'
<1>1. to.stage \in {"list", "listed"}
  BY DEF Lists
<1>2. ListHolds(c)'
  BY DEF ListHolds, Enough
<1> QED BY <1>1, <1>2 DEF RequestHolds, CreatedHolds, OwnHolds, PublishedHolds

(* The end of a connection, by a panic or because its client left.          *)
LEMMA EndHolds ==
  ASSUME IInv, NEW c \in Connections,
         request' = [request EXCEPT ![c] = Nothing],
         session' = [session EXCEPT ![c] = None],
         UNCHANGED <<rows, published, told, changes>>
  PROVE  IInv' /\ RowsKept
<1>1. RowsHold' /\ RowsKept
  BY SameRows DEF RowsHold, IInv, TypeOK
<1>2. \A d \in Connections : RequestHolds(d)'
  BY <1>1, Idling, Untouched DEF IInv, TypeOK
<1>3. TypeOK'
  BY DEF IInv, TypeOK, Nothing
<1>4. DOMAIN request' = Connections /\ ToldHolds'
  BY <1>1 DEF IInv, ToldHolds
<1> QED BY <1>1, <1>2, <1>3, <1>4 DEF IInv, RowsHold

(* Each step of a list of published files.                                  *)
LEMMA ListStepsHold ==
  ASSUME IInv, NEW c \in Connections,
         \/ \E since \in Time, limit \in Limits, matching \in SUBSET PublishedNames :
              ListPublisherFiles(c, since, limit, matching)
         \/ NextEntry(c)
         \/ ListComplete(c)
  PROVE  IInv' /\ RowsKept
<1>1. /\ RowsHold /\ UNCHANGED rows /\ session[c] # None
  BY SignedIn
  DEF ListPublisherFiles, NextEntry, ListComplete, Listing, RowsHold, IInv, TypeOK
<1>2. RowsHold' /\ RowsKept
  BY <1>1, SameRows
<1>3. ASSUME NEW to \in Lists, Goes(c, to), IsFiniteSet(to.files),
             \A n \in to.steady : \/ n \in to.left
                                  \/ n \in to.files
                                  \/ ~(published[session[c].title][n] >= to.since),
             to.stage = "listed" => to.left = {} \/ Enough(to)
      PROVE  IInv' /\ RowsKept
  <2>1. request'[c] = to => RequestHolds(c)'
    BY <1>3, ListHolding DEF Goes
  <2> QED BY <1>1, <1>2, <1>3, <2>1, GoesHolds
<1>4. CASE \E since \in Time, limit \in Limits, matching \in SUBSET PublishedNames :
             ListPublisherFiles(c, since, limit, matching)
  <2>1. PICK since \in Time, limit \in Limits, matching \in SUBSET PublishedNames :
          ListPublisherFiles(c, since, limit, matching)
    BY <1>4
  <2> DEFINE entries == There(session[c].title) \cap matching
             to == [stage |-> "list", left |-> entries, since |-> since,
                    limit |-> limit, files |-> {}, passed |-> {}, steady |-> entries]
  <2>2. Goes(c, to)
    BY <2>1 DEF ListPublisherFiles
  <2>3. to \in Lists /\ IsFiniteSet(to.files) /\ to.steady = to.left /\ to.stage = "list"
    BY FS_EmptySet DEF Lists, There
  <2> HIDE DEF to
  <2> QED BY <1>3, <2>2, <2>3
<1>5. CASE NextEntry(c)
  <2>1. /\ request[c] \in Lists /\ request[c].stage = "list"
        /\ IsFiniteSet(request[c].files)
        /\ \A n \in request[c].steady :
              \/ n \in request[c].left
              \/ n \in request[c].files
              \/ ~(published[session[c].title][n] >= request[c].since)
    BY <1>5 DEF NextEntry, Listing, IInv, RequestHolds, ListHolds
  <2>2. CASE Panic(c)
    BY <1>1, <2>2, EndHolds DEF Panic
  <2>3. CASE ~Panic(c)
    <3>1. PICK n \in request[c].left :
            IF published[session[c].title][n] >= request[c].since
            THEN Goes(c, [request[c] EXCEPT !.left = @ \ {n}, !.files = @ \cup {n}])
            ELSE Goes(c, [request[c] EXCEPT !.left = @ \ {n}, !.passed = @ \cup {n}])
      BY <1>5, <2>3 DEF NextEntry
    <3>2. CASE published[session[c].title][n] >= request[c].since
      <4> DEFINE to == [request[c] EXCEPT !.left = @ \ {n}, !.files = @ \cup {n}]
      <4>1. /\ to \in Lists /\ to.stage = "list"
            /\ to.left = request[c].left \ {n} /\ to.files = request[c].files \cup {n}
            /\ to.steady = request[c].steady /\ to.since = request[c].since
        BY <2>1 DEF Lists
      <4>2. IsFiniteSet(to.files)
        BY <2>1, <4>1, FS_AddElement
      <4>3. Goes(c, to)
        BY <3>1, <3>2
      <4> HIDE DEF to
      <4> QED BY <1>3, <2>1, <4>1, <4>2, <4>3
    <3>3. CASE ~(published[session[c].title][n] >= request[c].since)
      <4> DEFINE to == [request[c] EXCEPT !.left = @ \ {n}, !.passed = @ \cup {n}]
      <4>1. /\ to \in Lists /\ to.stage = "list"
            /\ to.left = request[c].left \ {n} /\ to.files = request[c].files
            /\ to.steady = request[c].steady /\ to.since = request[c].since
        BY <2>1 DEF Lists
      <4>2. Goes(c, to)
        BY <3>1, <3>3
      <4> HIDE DEF to
      <4> QED BY <1>3, <2>1, <3>3, <4>1, <4>2
    <3> QED BY <3>2, <3>3
  <2> QED BY <2>2, <2>3
<1>6. CASE ListComplete(c)
  <2> DEFINE to == [request[c] EXCEPT !.stage = "listed"]
  <2>1. /\ request[c] \in Lists
        /\ IsFiniteSet(request[c].files)
        /\ \A n \in request[c].steady :
              \/ n \in request[c].left
              \/ n \in request[c].files
              \/ ~(published[session[c].title][n] >= request[c].since)
    BY <1>6 DEF ListComplete, Listing, IInv, RequestHolds, ListHolds
  <2>2. /\ to \in Lists
        /\ to.left = request[c].left /\ to.files = request[c].files
        /\ to.limit = request[c].limit
        /\ to.steady = request[c].steady /\ to.since = request[c].since
    BY <2>1 DEF Lists
  <2>3. Goes(c, to) /\ (to.left = {} \/ Enough(to))
    BY <1>6, <2>2 DEF ListComplete, Enough
  <2> HIDE DEF to
  <2> QED BY <1>3, <2>1, <2>2, <2>3
<1> QED BY <1>4, <1>5, <1>6

-----------------------------------------------------------------------------
(* Sending remembers what the client is told of its new file.               *)
LEMMA SendHolds ==
  ASSUME IInv, NEW c \in Connections, Send(c)
  PROVE  IInv' /\ RowsKept
<1>1. /\ RowsHold' /\ RowsKept /\ UNCHANGED <<rows, published, session, changes>>
      /\ request' = [request EXCEPT ![c] = Nothing]
  BY SameRows DEF Send, RowsHold, IInv, TypeOK
<1>2. \A d \in Connections : RequestHolds(d)'
  BY <1>1, Idling, Untouched DEF IInv
<1>3. \/ told' = told
      \/ /\ request[c].stage = "answer" /\ request[c].kind = "created"
         /\ told' = told \cup {[id |-> request[c].id, filename |-> request[c].name,
                                title |-> session[c].title, owner |-> session[c].user]}
  BY DEF Send
<1>4. CASE told' = told
  BY <1>1, <1>2, <1>4 DEF IInv, TypeOK, ToldHolds, OneFilePerName
<1>5. CASE /\ request[c].stage = "answer" /\ request[c].kind = "created"
           /\ told' = told \cup {[id |-> request[c].id, filename |-> request[c].name,
                                  title |-> session[c].title, owner |-> session[c].user]}
  <2> DEFINE id == request[c].id
             new == [id |-> id, filename |-> request[c].name,
                     title |-> session[c].title, owner |-> session[c].user]
  <2>1. /\ id \in DOMAIN rows
        /\ rows[id].filename = new.filename
        /\ rows[id].title = new.title /\ rows[id].owner = new.owner
    BY <1>5 DEF IInv, RequestHolds, CreatedHolds
  <2>2. ToldHolds'
    BY <1>1, <1>5, <2>1 DEF IInv, ToldHolds
  <2>3. new \in [id : 1..MaxFiles, filename : Names, title : Titles, owner : Users]
    <3>1. /\ Len(rows) \in Nat /\ MaxFiles \in Nat /\ Len(rows) <= MaxFiles
          /\ id \in 1..Len(rows) /\ rows[id] \in Row
      BY <2>1, StorageAssumption DEF IInv, TypeOK
    <3> QED BY <2>1, <3>1 DEF Row
  <2>4. TypeOK'
    BY <1>1, <1>5, <2>3 DEF IInv, TypeOK
  <2> QED BY <1>1, <1>2, <2>2, <2>4 DEF IInv, OneFilePerName
<1> QED BY <1>3, <1>4, <1>5

(* A connection that signs in has no request yet.                           *)
LEMMA SignInHolds ==
  ASSUME IInv, NEW c \in Connections, NEW user \in Users, NEW title \in Titles,
         SignIn(c, user, title)
  PROVE  IInv' /\ RowsKept
<1>1. RowsHold' /\ RowsKept
  BY SameRows DEF SignIn, RowsHold, IInv, TypeOK
<1>2. request[c] = Nothing
  BY DEF SignIn, IInv, TypeOK
<1>3. \A d \in Connections : RequestHolds(d)'
  BY <1>1, <1>2, Idling, Untouched DEF SignIn, IInv, TypeOK
<1>4. TypeOK'
  BY <1>2 DEF SignIn, IInv, TypeOK, Session
<1> QED BY <1>1, <1>3, <1>4 DEF SignIn, IInv, RowsHold, ToldHolds

(* A restart leaves the table and the directory, and nobody signed in.      *)
LEMMA RestartHolds ==
  ASSUME IInv, Restart
  PROVE  IInv' /\ RowsKept
<1>1. RowsHold' /\ RowsKept
  BY SameRows DEF Restart, RowsHold, IInv, TypeOK
<1>2. \A d \in Connections : RequestHolds(d)'
  BY Idling DEF Restart
<1>3. TypeOK' /\ DOMAIN request' = Connections
  BY DEF Restart, IInv, TypeOK
<1> QED BY <1>1, <1>2, <1>3 DEF Restart, IInv, RowsHold, ToldHolds

(* What the operator changes is no longer steady, and all else stays.       *)
LEMMA ChangeHolds ==
  ASSUME IInv, NEW title \in Directories, NEW name \in PublishedNames,
         NEW to \in Time \cup {None}, Change(title, name, to)
  PROVE  IInv' /\ RowsKept
<1>1. /\ RowsHold' /\ RowsKept /\ UNCHANGED <<rows, session, told>>
      /\ DOMAIN request' = Connections
  BY SameRows DEF Change, RowsHold, IInv, TypeOK
<1>2. TypeOK'
  <2>1. changes' \in 0..MaxChanges
    BY StorageAssumption DEF Change, IInv, TypeOK
  <2>2. published' \in [Titles -> [PublishedNames -> Time \cup {None}]]
    BY StorageAssumption DEF Change, IInv, TypeOK
  <2>3. ASSUME NEW c \in Connections, request'[c] # Nothing PROVE session[c] # None
    BY <2>3 DEF Change, IInv, TypeOK, Nothing
  <2> QED BY <1>1, <2>1, <2>2, <2>3 DEF IInv, TypeOK
<1>3. ASSUME NEW c \in Connections PROVE RequestHolds(c)'
  <2>1. CASE request[c].stage \notin {"list", "listed"}
    <3>1. request'[c] = request[c]
      BY <2>1 DEF Change
    <3> QED BY <1>1, <2>1, <3>1
            DEF IInv, RequestHolds, CreatedHolds, OwnHolds, PublishedHolds, ListHolds
  <2>2. CASE request[c].stage \in {"list", "listed"}
    <3> DEFINE r == request[c]
    <3>1. /\ r \in Lists /\ IsFiniteSet(r.files)
          /\ \A n \in r.steady : \/ n \in r.left
                                 \/ n \in r.files
                                 \/ ~(published[session[c].title][n] >= r.since)
          /\ r.stage = "listed" => r.left = {} \/ Enough(r)
      BY <2>2 DEF IInv, RequestHolds, ListHolds
    <3>2. session[c] \in Session
      BY <2>2, SignedIn
    <3>3. /\ request'[c] \in Lists
          /\ request'[c].stage = r.stage /\ request'[c].left = r.left
          /\ request'[c].files = r.files /\ request'[c].since = r.since
          /\ request'[c].limit = r.limit
          /\ request'[c].steady \subseteq r.steady
          /\ session[c].title = title => name \notin request'[c].steady
      BY <2>2, <3>1 DEF Change, Lists
    <3>4. ASSUME NEW n \in request'[c].steady
          PROVE  published'[session[c].title][n] = published[session[c].title][n]
      BY <3>1, <3>2, <3>3, <3>4 DEF Change, IInv, TypeOK, Session, Lists
    <3>5. ListHolds(c)'
      BY <1>1, <3>1, <3>3, <3>4 DEF ListHolds, Enough
    <3> QED BY <2>2, <3>3, <3>5 DEF RequestHolds, CreatedHolds, OwnHolds, PublishedHolds
  <2> QED BY <2>1, <2>2
<1> QED BY <1>1, <1>2, <1>3 DEF IInv, RowsHold, ToldHolds

-----------------------------------------------------------------------------
(* IInv is inductive, and no step loses a row or whose it is.               *)
LEMMA StepHolds == IInv /\ [Next]_vars => IInv' /\ RowsKept
<1> SUFFICES ASSUME IInv, [Next]_vars PROVE IInv' /\ RowsKept
  OBVIOUS
<1>1. CASE UNCHANGED vars
  <2>1. RowsHold' /\ RowsKept
    BY <1>1, SameRows DEF vars, RowsHold, IInv, TypeOK
  <2>2. \A c \in Connections : RequestHolds(c)'
    BY <1>1, <2>1, Untouched DEF vars, IInv
  <2> QED BY <1>1, <2>1, <2>2 DEF vars, IInv, TypeOK, RowsHold, ToldHolds
<1>2. CASE Restart
  BY <1>2, RestartHolds
<1>3. CASE \E title \in Directories, name \in PublishedNames, to \in Time \cup {None} :
             Change(title, name, to)
  BY <1>3, ChangeHolds
<1>4. ASSUME NEW c \in Connections,
             \E user \in Users, title \in Titles : SignIn(c, user, title)
      PROVE  IInv' /\ RowsKept
  BY <1>4, SignInHolds
<1>5. ASSUME NEW c \in Connections,
             \E name \in Names, data \in Contents : CreateFile(c, name, data)
      PROVE  IInv' /\ RowsKept
  BY <1>5, CreateFileHolds
<1>6. ASSUME NEW c \in Connections,
             \E id \in Ids, data \in Contents : UpdateFileById(c, id, data)
      PROVE  IInv' /\ RowsKept
  BY <1>6, UpdateFileByIdHolds
<1>7. ASSUME NEW c \in Connections, Leave(c)
      PROVE  IInv' /\ RowsKept
  BY <1>7, EndHolds DEF Leave
<1> QED BY <1>1, <1>2, <1>3, <1>4, <1>5, <1>6, <1>7, ReadsOwnHold, ReadsPublishedHold,
           ListStepsHold, SendHolds DEF Next

(* So it holds in every state that is reached.                              *)
LEMMA Inductive == Spec => []IInv
BY InitHolds, StepHolds, PTL DEF Spec

(* Rows, directory and sessions hold what they should (TypeOK), whatever    *)
(* the constants are.                                                       *)
THEOREM StorageTypeOK == Spec => []TypeOK
<1>1. IInv => TypeOK
  BY DEF IInv
<1> QED BY <1>1, Inductive, PTL

(* create_storage_file leaves a user no two files of one name and title,    *)
(* without a unique index in the table.                                     *)
THEOREM NamesStayUnique == Spec => []OneFilePerName
<1>1. IInv => OneFilePerName
  BY DEF IInv
<1> QED BY <1>1, Inductive, PTL

(* An id a client was told means that file for ever, and never a published  *)
(* one: these have the highest bit, which no rowid has.                     *)
THEOREM IdsStayGood == Spec => []AnIdMeansOneFile
<1>1. IInv => AnIdMeansOneFile
  <2> SUFFICES ASSUME IInv PROVE AnIdMeansOneFile
    OBVIOUS
  <2>1. ASSUME NEW n \in PublishedNames, NEW t \in told
        PROVE  FileId(n) # t.id
    <3>1. FileId(n) > MaxFiles /\ FileId(n) \in Nat /\ MaxFiles \in Nat
      BY StorageAssumption DEF FileId
    <3>2. t.id \in 1..MaxFiles
      BY DEF IInv, TypeOK
    <3> QED BY <3>1, <3>2
  <2>2. ASSUME NEW c \in Connections,
               request[c].stage = "answer" /\ request[c].kind = "published"
        PROVE  request[c].id \notin {t.id : t \in told}
    BY <2>1, <2>2 DEF IInv, RequestHolds, PublishedHolds
  <2> QED BY <2>2 DEF IInv, ToldHolds, AnIdMeansOneFile
<1> QED BY <1>1, Inductive, PTL

(* No request, by id or list, brings a user's file to anyone else.          *)
THEOREM FilesGoToTheirOwners == Spec => []OthersSeeNothing
<1>1. IInv => OthersSeeNothing
  BY DEF IInv, RequestHolds, OwnHolds, OthersSeeNothing
<1> QED BY <1>1, Inductive, PTL

(* However the operator changes the directory under a list, what stayed,    *)
(* matched and is new enough is in it, unless it is full.                   *)
THEOREM ListsMissNothing == Spec => []PublisherListMissesNothing
<1>1. IInv => PublisherListMissesNothing
  <2> SUFFICES ASSUME IInv, NEW c \in Connections,
                      request[c].stage = "listed",
                      Cardinality(request[c].files) < request[c].limit,
                      NEW n \in request[c].steady,
                      published[session[c].title][n] >= request[c].since
               PROVE  n \in request[c].files
    BY DEF PublisherListMissesNothing
  <2>1. ListHolds(c)
    BY DEF IInv, RequestHolds
  <2>2. Cardinality(request[c].files) \in Nat
    BY <2>1, FS_CardinalityType DEF ListHolds
  <2>3. request[c].limit \in Nat
    BY <2>1, StorageAssumption DEF ListHolds, Lists
  <2>4. ~Enough(request[c])
    BY <2>2, <2>3 DEF Enough
  <2> QED BY <2>1, <2>4 DEF ListHolds
<1> QED BY <1>1, Inductive, PTL

(* No step loses a file, and only its owner's request changes one.          *)
THEOREM OnlyOwnersChangeFiles == Spec => FilesChangeOnlyForTheirOwner
<1> DEFINE Fine == \A i \in DOMAIN rows :
              /\ i \in DOMAIN rows'
              /\ rows'[i] # rows[i] =>
                   /\ rows'[i] = [rows[i] EXCEPT !.data = rows'[i].data]
                   /\ \E c \in Connections :
                        /\ Idle(c)
                        /\ session[c] = [user |-> rows[i].owner, title |-> rows[i].title]
<1>1. IInv /\ [Next]_vars => [Fine]_vars
  <2> SUFFICES ASSUME IInv, [Next]_vars, NEW i \in DOMAIN rows
               PROVE  /\ i \in DOMAIN rows'
                      /\ rows'[i] # rows[i] =>
                           /\ rows'[i] = [rows[i] EXCEPT !.data = rows'[i].data]
                           /\ \E c \in Connections :
                                /\ Idle(c)
                                /\ session[c] = [user |-> rows[i].owner,
                                                 title |-> rows[i].title]
    OBVIOUS
  <2>1. i \in DOMAIN rows'
    BY StepHolds DEF RowsKept
  <2>2. CASE rows'[i] = rows[i]
    BY <2>1, <2>2
  <2>3. ASSUME NEW c \in Connections, session[c] \in Session, Idle(c),
               rows[i].owner = session[c].user, rows[i].title = session[c].title,
               NEW data \in Contents, rows' = Overwrite(i, data)
        PROVE  /\ rows'[i] = [rows[i] EXCEPT !.data = rows'[i].data]
               /\ Idle(c)
               /\ session[c] = [user |-> rows[i].owner, title |-> rows[i].title]
    <3>1. rows[i] \in Row /\ rows'[i] = [rows[i] EXCEPT !.data = data]
      BY <2>3 DEF IInv, TypeOK, Overwrite
    <3>2. rows'[i].data = data
      BY <3>1 DEF Row
    <3> QED BY <2>3, <3>1, <3>2 DEF Session
  <2>4. CASE \E c \in Connections, name \in Names, data \in Contents :
               CreateFile(c, name, data) /\ rows'[i] # rows[i]
    <3>1. PICK c \in Connections, name \in Names, data \in Contents :
            CreateFile(c, name, data) /\ rows'[i] # rows[i]
      BY <2>4
    <3>2. Idle(c) /\ session[c] \in Session
      BY <3>1, SignedIn DEF CreateFile
    <3>3. PICK id \in 1..Len(rows) + 1 : Save(session[c], name, data, id)
      BY <3>1 DEF CreateFile
    <3>4. id \in Existing(name, session[c]) /\ rows' = Overwrite(id, data)
      <4>1. ASSUME NEW row, rows' = Append(rows, row)
            PROVE  rows'[i] = rows[i]
        BY <4>1 DEF IInv, TypeOK
      <4> QED  BY <3>1, <3>3, <4>1 DEF Save
    <3>5. i = id
      BY <3>1, <3>4 DEF Overwrite, IInv, TypeOK
    <3> QED BY <2>1, <2>3, <3>2, <3>4, <3>5 DEF Existing
  <2>5. CASE \E c \in Connections, id \in Ids, data \in Contents :
               UpdateFileById(c, id, data) /\ rows'[i] # rows[i]
    <3>1. PICK c \in Connections, id \in Ids, data \in Contents :
            UpdateFileById(c, id, data) /\ rows'[i] # rows[i]
      BY <2>5
    <3>2. Idle(c) /\ session[c] \in Session
      BY <3>1, SignedIn DEF UpdateFileById
    <3>3. /\ rows' = Overwrite(id, data)
          /\ rows[id].title = session[c].title /\ rows[id].owner = session[c].user
      BY <3>1 DEF UpdateFileById, MayUpdate
    <3>4. i = id
      BY <3>1, <3>3 DEF Overwrite, IInv, TypeOK
    <3> QED BY <2>1, <2>3, <3>2, <3>3, <3>4
  <2> QED BY <2>1, <2>2, <2>4, <2>5
          DEF Next, vars, GetFileById, FindPublished, ReadPublished, InfoOfPublished,
              ListFilesByOwner, ListPublisherFiles, NextEntry, ListComplete, Send, SignIn,
              Leave, Restart, Change
<1> QED BY <1>1, Inductive, PTL DEF Spec, FilesChangeOnlyForTheirOwner
=============================================================================
