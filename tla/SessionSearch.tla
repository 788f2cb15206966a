---------------------------- MODULE SessionSearch ----------------------------
(***************************************************************************)
(* What a client reads from the registry: list_for (a search) and          *)
(* population (the counts the public population page shows).  Both are      *)
(* pure functions of the sessions map, read under the registry's mutex, so  *)
(* they are operators here and the properties are invariants of the         *)
(* registry's reachable states.  A HashMap iterates in an arbitrary order:  *)
(* the operators take the order as an argument and the properties quantify  *)
(* over every order.                                                        *)
(***************************************************************************)
EXTENDS SessionRegistry, Integers, Sequences, FiniteSets, SequencesExt

CONSTANTS
  MaxI32,    \* i32::MAX
  Titles,    \* values of the title_data fields searches look at
  Queries    \* the searches asked

(* Slot counts are i32 and are added pairwise after negative ones are       *)
(* raised to zero; an advertisement whose sums overflow is left out.        *)
Ad == [address : STRING, title : [{1, 2, 4} -> Titles],
       free_public : Int, used_public : Int,
       free_private : Int, used_private : Int]

Raise(n) == IF n > 0 THEN n ELSE 0

AdsAssumption ==
  \A ad \in Ads : /\ ad \in Ad
                  /\ Raise(ad.free_public) + Raise(ad.free_private) <= MaxI32
                  /\ Raise(ad.used_public) + Raise(ad.used_private) <= MaxI32

QueriesAssumption ==
  \A q \in Queries : /\ q.limit \in Int
                     /\ DOMAIN q.filters = 0..5
                     /\ \A i \in 0..5 : q.filters[i] \in Int

ANY == MaxI32

Players(ad) == Raise(ad.used_public) + Raise(ad.used_private)
FreeSlots(ad) == Raise(ad.free_public) + Raise(ad.free_private)
Playlist(ad) == ad.title[1]

Wants(filter, value) == filter = ANY \/ filter = value

Matches(ad, q) == /\ Wants(q.filters[1], ad.title[1])
                  /\ Wants(q.filters[2], ad.title[4])
                  /\ Wants(q.filters[4], ad.title[2])
                  /\ q.filters[5] = ANY \/ FreeSlots(ad) >= q.filters[5]

Advertising == {c \in Connections : sessions[c] # None}
Orders == SetToSeqs(Advertising)   \* SetToSeqs: every order of a set

Candidates(order, c, q) ==
  LET add(kept, d) == IF d # c /\ Matches(sessions[d].ad, q)
                      THEN Append(kept, d) ELSE kept
  IN  FoldLeft(add, <<>>, order)

FirstOfEachAddress(cs) ==
  LET add(kept, d) ==
        IF \E i \in DOMAIN kept :
             sessions[kept[i]].ad.address = sessions[d].ad.address
        THEN kept ELSE Append(kept, d)
  IN  FoldLeft(add, <<>>, cs)

Take(cs, q) == IF q.limit > 0 /\ q.limit < Len(cs)
               THEN SubSeq(cs, 1, q.limit) ELSE cs

(* MUTANT *)
ListForTakingFirst(order, c, q) ==
  FirstOfEachAddress(Take(Candidates(order, c, q), q))

(* The connections whose lobbies a search by c answers with, in order       *)
ListFor(order, c, q) ==
  Take(FirstOfEachAddress(Candidates(order, c, q)), q)

EmptyPopulation == [players |-> 0, playlists |-> [p \in {} |-> 0]]

CountLobby(pop, c) ==
  LET ad == sessions[c].ad
      p == Playlist(ad)
      before == IF p \in DOMAIN pop.playlists THEN pop.playlists[p] ELSE 0
  IN  IF Players(ad) = 0 THEN pop
      ELSE [players |-> pop.players + Players(ad),
            playlists |-> [r \in DOMAIN pop.playlists \cup {p} |->
              IF r = p THEN before + Players(ad) ELSE pop.playlists[r]]]

Population(order) == FoldLeft(CountLobby, EmptyPopulation, order)

(* The players in the lobbies of a set of connections                       *)
PlayersOf(S) == FoldSet(LAMBDA c, n : n + Players(sessions[c].ad), 0, S)

-----------------------------------------------------------------------------
(* What a search lists: lobbies of others only, all of which match, never   *)
(* two behind one address, never more than the client asked for, and each   *)
(* with an id that opens it at the time.                                    *)
SearchListsOnlyJoinable ==
  \A c \in Connections, q \in Queries, order \in Orders :
    LET found == ListFor(order, c, q) IN
    /\ q.limit > 0 => Len(found) <= q.limit
    /\ \A i \in DOMAIN found :
         LET l == sessions[found[i]] IN
         /\ by_host[l.host] = found[i] /\ found[i] # c
         /\ q.filters[5] # ANY => FreeSlots(l.ad) >= q.filters[5]
         /\ \A f \in {<<1, 1>>, <<2, 4>>, <<4, 2>>} :
              q.filters[f[1]] \in {ANY, l.ad.title[f[2]]}
         /\ \A j \in DOMAIN found :
              sessions[found[j]].ad.address = l.ad.address => i = j

(* What a search leaves out: nothing but its limit hides an address that    *)
(* has a match, in particular a duplicate address dropped from the answer   *)
(* does not use up the limit, whatever order the map iterates in.           *)
SearchMissesNoAddress ==
  \A c \in Connections, q \in Queries :
    LET matching == {d \in Advertising \ {c} : Matches(sessions[d].ad, q)}
        addresses == {sessions[d].ad.address : d \in matching}
    IN  \A order \in Orders :
          LET found == ListFor(order, c, q) IN
          \/ q.limit > 0 /\ Len(found) = q.limit
          \/ {sessions[found[i]].ad.address : i \in DOMAIN found} = addresses

(* The population page's total is the sum of its playlists, every player of *)
(* every advertised lobby is in it exactly once whatever the order, and a   *)
(* playlist nobody plays has no entry.                                      *)
PopulationAddsUp ==
  \A order \in Orders :
    LET pop == Population(order)
        in(p) == {c \in Advertising : Playlist(sessions[c].ad) = p}
    IN  /\ pop.players = PlayersOf(Advertising)
        /\ DOMAIN pop.playlists = {p \in Titles : PlayersOf(in(p)) > 0}
        /\ \A p \in DOMAIN pop.playlists : pop.playlists[p] = PlayersOf(in(p))

(* What the registry's readers are told, in every state that any mix of     *)
(* creates, updates, deletes and lost connections leads to and for every    *)
(* order of the map: searches answer with neither too much nor too little,  *)
(* and the population page adds up.                                         *)
AnswersAreExact ==
  SearchListsOnlyJoinable /\ SearchMissesNoAddress /\ PopulationAddsUp
=============================================================================
