----------------------------- MODULE LobbyCalls -----------------------------
(***************************************************************************)
(* From a client's call to its answer: how LobbyServer::handle_message sets *)
(* up the reader, what the handlers of groups, content streaming, profiles  *)
(* and leagues read with it, and what their answers write.  Only the        *)
(* bandwidth tests are framed in bytes; all other messages are read, and    *)
(* all task replies written, in bits.  Arrays and "the rest of the message" *)
(* exist in bytes only (see BitStream): a handler that asks for them gets   *)
(* an error, which ends the connection.                                     *)
(*                                                                         *)
(* A message is one step of its connection's thread.  Each connection is    *)
(* that of another account of one title; an account has one stream slot.    *)
(* GroupService and ContentStreams model the services behind SetGroups and  *)
(* PostUploadFile, whatever calls them.                                     *)
(***************************************************************************)
EXTENDS Naturals

CONSTANTS
  Connections,
  Groups, Tags, Blobs,  \* what clients send along
  MaxReplies,           \* bound: replies to one connection
  None

VARIABLES
  phase,      \* connection -> "open" or "closed"
  signed_in,  \* connections with a SessionAuthentication
  next_transaction_id,  \* connection -> its thread's TRANSACTION_ID_COUNTER
  groups,     \* connection -> the groups it is in, or None
  streams,    \* account -> "none", "created" or the tags it was finished with
  profiles,   \* account -> its public and its private profile, or None
  asked       \* history: connection -> the groups it last set, or None

serviceVars == <<groups, streams, profiles>>
vars == <<phase, signed_in, next_transaction_id, serviceVars, asked>>

Init == /\ phase = [c \in Connections |-> "open"]
        /\ signed_in = {}
        /\ next_transaction_id = [c \in Connections |-> 0]
        /\ groups = [c \in Connections |-> None]
        /\ streams = [c \in Connections |-> "none"]
        /\ profiles = [c \in Connections |-> [public |-> None, private |-> None]]
        /\ asked = [c \in Connections |-> None]

-----------------------------------------------------------------------------
(* Reading and writing                                                      *)

RequestMode(service) == IF service = "Bandwidth" THEN "ByteMode" ELSE "BitMode"
ReplyMode == "BitMode"

ReadsArrays(service) == RequestMode(service) = "ByteMode"
ReadsTheRest(service) == RequestMode(service) = "ByteMode"
WritesArrays == ReplyMode = "ByteMode"

(* StreamInfo::serialize ends with the array of the stream's tags           *)
CanAnswerWith(infos) == infos = {} \/ WritesArrays

-----------------------------------------------------------------------------
(* How a call ends                                                          *)

Reads(c) == phase[c] = "open" /\ next_transaction_id[c] < MaxReplies
Serves(c) == Reads(c) /\ c \in signed_in

(* to_response takes the thread's next transaction id                       *)
Answer(c) ==
  /\ next_transaction_id' = [next_transaction_id EXCEPT ![c] = @ + 1]
  /\ UNCHANGED <<phase, signed_in>>

(* The error leaves the connection loop; the disconnect callbacks run.  A   *)
(* reply that could not be written had taken its id, but so has the thread. *)
Break(c) ==
  /\ phase' = [phase EXCEPT ![c] = "closed"]
  /\ groups' = [groups EXCEPT ![c] = None]
  /\ UNCHANGED <<signed_in, next_transaction_id, streams, profiles>>

AnswerIf(c, possible) ==
  \/ possible /\ Answer(c) /\ UNCHANGED serviceVars
  \/ ~possible /\ Break(c)

-----------------------------------------------------------------------------
SignIn(c) == /\ phase[c] = "open"
             /\ signed_in' = signed_in \cup {c}
             /\ UNCHANGED <<phase, next_transaction_id, serviceVars, asked>>

(* AccessDenied, for every service but the lobby service                    *)
Deny(c) == /\ Reads(c) /\ c \notin signed_in
           /\ Answer(c)
           /\ UNCHANGED <<serviceVars, asked>>

Leave(c) == /\ phase[c] = "open"
            /\ Break(c)
            /\ asked' = [asked EXCEPT ![c] = None]

SetGroups(c, gs) ==
  /\ Serves(c)
  /\ asked' = [asked EXCEPT ![c] = gs]
  /\ \/ /\ ReadsArrays("Group")
        /\ groups' = [groups EXCEPT ![c] = gs]
        /\ Answer(c)
        /\ UNCHANGED <<streams, profiles>>
     \/ ~ReadsArrays("Group") /\ Break(c)

GetGroupCounts(c) == /\ Serves(c)
                     /\ AnswerIf(c, ReadsArrays("Group"))
                     /\ UNCHANGED asked

(* SetTeamName and GetTeamIDsForUser name one thing; the other six take an  *)
(* array.  None of them does anything but answer.                           *)
LeagueCall(c) == /\ Serves(c)
                 /\ \E array \in BOOLEAN :
                      AnswerIf(c, array => ReadsArrays("League"))
                 /\ UNCHANGED asked

-----------------------------------------------------------------------------
(* Content streaming                                                        *)

(* The service may refuse (see ContentStreams)                              *)
PreUploadFile(c) ==
  /\ Serves(c)
  /\ streams' \in {streams, [streams EXCEPT ![c] = "created"]}
  /\ Answer(c)
  /\ UNCHANGED <<groups, profiles, asked>>

PostUploadFile(c, tags) ==
  /\ Serves(c)
  /\ \/ /\ ReadsArrays("ContentStreaming")
        /\ streams' = IF streams[c] = "none" THEN streams
                      ELSE [streams EXCEPT ![c] = tags]
        /\ Answer(c)
        /\ UNCHANGED <<groups, profiles>>
     \/ ~ReadsArrays("ContentStreaming") /\ Break(c)
  /\ UNCHANGED asked

(* PreDeleteFile answers with a url; the client may then use it             *)
PreDeleteFile(c) ==
  /\ Serves(c)
  /\ streams' \in {streams, [streams EXCEPT ![c] = "none"]}
  /\ Answer(c)
  /\ UNCHANGED <<groups, profiles, asked>>

(* The list over several owners reads an array before it looks for any      *)
ListFilesByOwners(c) ==
  /\ Serves(c)
  /\ AnswerIf(c, ReadsArrays("ContentStreaming") /\ WritesArrays)
  /\ UNCHANGED asked

(* The stream of one owner, who may be the publisher                        *)
Found(owner) == {owner} \ {a \in Connections : streams[a] = "none"}

(* Metadata and lists answer with the streams that pass the title, category *)
(* and date asked for                                                       *)
ReadStreams(c, owner) ==
  /\ Serves(c)
  /\ \E listed \in SUBSET Found(owner) : AnswerIf(c, CanAnswerWith(listed))
  /\ UNCHANGED asked

(* A download by id answers with the stream, or that there is none          *)
PreDownload(c, owner) ==
  /\ Serves(c)
  /\ AnswerIf(c, CanAnswerWith(Found(owner)))
  /\ UNCHANGED asked

-----------------------------------------------------------------------------
(* Profiles                                                                 *)

(* next_is_u64 looks for another id behind the last one: with less than a   *)
(* type's five bits of padding left, it fails                               *)
GetPublicInfos(c) == /\ Serves(c)
                     /\ \E padded \in BOOLEAN : AnswerIf(c, padded)
                     /\ UNCHANGED asked

(* ProfileInfo::serialize needs no array                                    *)
GetPrivateInfo(c) == Serves(c) /\ AnswerIf(c, TRUE) /\ UNCHANGED asked

(* update_user_profile: one row per account and kind of profile             *)
Keep(c, which, data) == profiles' = [profiles EXCEPT ![c][which] = data]

SetInfo(c, which, data) ==
  /\ Serves(c)
  /\ \/ /\ ReadsTheRest("Profile")
        /\ Keep(c, which, data)
        /\ Answer(c)
        /\ UNCHANGED <<groups, streams>>
     \/ ~ReadsTheRest("Profile") /\ Break(c)
  /\ UNCHANGED asked

(* "DELETE FROM user_profile u WHERE ..." is no statement of SQLite's: an   *)
(* alias takes an AS there.  The expect on it panics, and the thread ends.  *)
DeleteProfile(c) == Serves(c) /\ Break(c) /\ UNCHANGED asked

Next ==
  \E c \in Connections :
    \/ SignIn(c) \/ Deny(c) \/ Leave(c)
    \/ \E gs \in SUBSET Groups : SetGroups(c, gs)
    \/ GetGroupCounts(c) \/ LeagueCall(c)
    \/ PreUploadFile(c) \/ PreDeleteFile(c) \/ ListFilesByOwners(c)
    \/ \E tags \in SUBSET Tags : PostUploadFile(c, tags)
    \/ \E owner \in Connections \cup {"published"} :
         ReadStreams(c, owner) \/ PreDownload(c, owner)
    \/ GetPublicInfos(c) \/ GetPrivateInfo(c) \/ DeleteProfile(c)
    \/ \E which \in {"public", "private"}, data \in Blobs :
         SetInfo(c, which, data)

Spec == Init /\ [][Next]_vars

-----------------------------------------------------------------------------
(* A call of SetGroups "Adds the current session to the specified groups",  *)
(* as GroupService's documentation says: a client that has set its groups   *)
(* and has not left is in them.  The code violates it for every client: the *)
(* list of groups is an array.                                              *)
SettersAreMembers ==
  \A c \in Connections : asked[c] # None => groups[c] = asked[c]
=============================================================================
