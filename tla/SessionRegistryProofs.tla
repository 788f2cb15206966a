------------------------ MODULE SessionRegistryProofs ------------------------
(***************************************************************************)
(* For any sets of connections, ids, secrets and advertisements: the two   *)
(* maps of the registry stay inverse, the identity a client was told stays  *)
(* good, and the registry implements LobbyDirectory.  IInv is inductive as  *)
(* it stands: IndexInverse is what makes ToldIdentityHolds survive a        *)
(* create or delete of another connection.                                  *)
(*                                                                         *)
(* Then what the registry's readers are told is exact: the loops of         *)
(* list_for and population are followed round by round for a map of any     *)
(* size in any order, which needs only that the ids lead back to their      *)
(* lobbies (IndexInverse) and that a server has finitely many lobbies.      *)
(***************************************************************************)
EXTENDS SessionSearch, FiniteSetTheorems, WellFoundedInduction, TLAPS

IInv == TypeOK /\ IndexInverse /\ ToldIdentityHolds

(* forget leaves well-typed inverse maps in which the connection has no     *)
(* lobby, and changes no other connection's lobby or index entry.           *)
LEMMA ForgetFacts ==
  ASSUME TypeOK, IndexInverse, NEW c \in Connections
  PROVE  LET st == Forget(State, c) IN
         /\ st.sessions = [sessions EXCEPT ![c] = None]
         /\ st.by_host \in [Ids -> Connections \cup {None}]
         /\ \A id \in Ids : st.by_host[id] = IF by_host[id] = c THEN None
                                              ELSE by_host[id]
<1> USE NoneAssumption DEF TypeOK, Lobby
<1>1. CASE sessions[c] = None
  <2>1. /\ Forget(State, c).sessions = sessions
        /\ Forget(State, c).by_host = by_host
    BY <1>1 DEF Forget, State
  <2>2. \A id \in Ids : by_host[id] # c
    BY <1>1 DEF IndexInverse, IndexHasNoDangling
  <2>3. sessions = [sessions EXCEPT ![c] = None]
    BY <1>1
  <2>4. /\ Forget(State, c).sessions = [sessions EXCEPT ![c] = None]
        /\ Forget(State, c).by_host = by_host
    BY <2>1, <2>3
  <2> QED
    BY <2>2, <2>4
<1>2. CASE sessions[c] # None
  <2> DEFINE host == sessions[c].host
  <2>1. host \in Ids /\ by_host[host] = c
    BY <1>2 DEF IndexInverse, LobbiesAreIndexed
  <2>2. \A id \in Ids : by_host[id] = c => id = host
    BY DEF IndexInverse, IndexHasNoDangling
  <2>3. /\ Forget(State, c).sessions = [sessions EXCEPT ![c] = None]
        /\ Forget(State, c).by_host = [by_host EXCEPT ![host] = None]
    BY <1>2, <2>1 DEF Forget, State
  <2> QED
    BY <2>1, <2>2, <2>3
<1> QED
  BY <1>1, <1>2

(* forget, as installed by delete and remove_connection with the client's   *)
(* history cleared, preserves the invariant.                                *)
LEMMA ForgetStep ==
  ASSUME IInv, NEW c \in Connections, Install(Forget(State, c)),
         told' = [told EXCEPT ![c] = None]
  PROVE  IInv'
<1> USE NoneAssumption
<1>1. /\ sessions' = [sessions EXCEPT ![c] = None]
      /\ by_host' \in [Ids -> Connections \cup {None}]
      /\ \A id \in Ids : by_host'[id] = IF by_host[id] = c THEN None
                                         ELSE by_host[id]
  BY ForgetFacts DEF IInv, Install
<1>2. TypeOK'
  BY <1>1 DEF IInv, TypeOK
<1>3. IndexInverse'
  BY <1>1 DEF IInv, TypeOK, Lobby, IndexInverse, LobbiesAreIndexed,
              IndexHasNoDangling
<1>4. ToldIdentityHolds'
  BY <1>1 DEF IInv, TypeOK, Identity, ToldIdentityHolds
<1> QED
  BY <1>2, <1>3, <1>4 DEF IInv

(* remember after forget: whichever identity is used, freshly minted or the *)
(* connection's own, the maps stay inverse and other lobbies are untouched. *)
LEMMA RememberFacts ==
  ASSUME TypeOK, IndexInverse, NEW c \in Connections, NEW ad \in Ads,
         NEW ident \in Identity,
         Forget(State, c).by_host[ident.host] = None,
         Install(Remember(Forget(State, c), c, Advertise(ident, ad)))
  PROVE  /\ sessions' \in [Connections -> Lobby \cup {None}]
         /\ by_host' \in [Ids -> Connections \cup {None}]
         /\ IndexInverse'
         /\ sessions' = [sessions EXCEPT ![c] = Advertise(ident, ad)]
         /\ \A id \in Ids : by_host'[id] =
              IF id = ident.host THEN c
              ELSE IF by_host[id] = c THEN None ELSE by_host[id]
<1> USE NoneAssumption
<1> DEFINE st == Forget(State, c)
<1>1. /\ st.sessions = [sessions EXCEPT ![c] = None]
      /\ st.by_host \in [Ids -> Connections \cup {None}]
      /\ \A id \in Ids : st.by_host[id] = IF by_host[id] = c THEN None
                                           ELSE by_host[id]
  BY ForgetFacts
<1>2. ident.host \in Ids /\ ident.key \in Keys
  BY DEF Identity
<1>3. /\ Advertise(ident, ad) \in Lobby
      /\ Advertise(ident, ad).host = ident.host
  BY <1>2 DEF Advertise, Lobby
<1>4. /\ sessions' = [st.sessions EXCEPT ![c] = Advertise(ident, ad)]
      /\ by_host' = [st.by_host EXCEPT ![ident.host] = c]
  BY <1>3 DEF Install, Remember
<1>5. sessions' = [sessions EXCEPT ![c] = Advertise(ident, ad)]
  BY <1>1, <1>4 DEF TypeOK
<1>6. \A id \in Ids : by_host'[id] =
        IF id = ident.host THEN c
        ELSE IF by_host[id] = c THEN None ELSE by_host[id]
  BY <1>1, <1>2, <1>4
<1>7. by_host' \in [Ids -> Connections \cup {None}]
  BY <1>1, <1>2, <1>4
<1>8. sessions' \in [Connections -> Lobby \cup {None}]
  BY <1>3, <1>5 DEF TypeOK
<1>9. by_host[ident.host] = c \/ by_host[ident.host] = None
  BY <1>1, <1>2
<1>10. Advertise(ident, ad) # None
  BY <1>3 DEF Lobby
<1>11. LobbiesAreIndexed'
  <2> SUFFICES ASSUME NEW d \in Connections, sessions'[d] # None
               PROVE  by_host'[sessions'[d].host] = d
    BY DEF LobbiesAreIndexed
  <2>1. CASE d = c
    BY <2>1, <1>2, <1>3, <1>5, <1>6 DEF TypeOK
  <2>2. CASE d # c
    <3>1. sessions'[d] = sessions[d] /\ sessions[d].host \in Ids
      BY <2>2, <1>5 DEF TypeOK, Lobby
    <3>2. by_host[sessions[d].host] = d
      BY <3>1 DEF IndexInverse, LobbiesAreIndexed
    <3> QED
      BY <2>2, <3>1, <3>2, <1>6, <1>9
  <2> QED
    BY <2>1, <2>2
<1>12. IndexHasNoDangling'
  <2> SUFFICES ASSUME NEW id \in Ids, by_host'[id] # None
               PROVE  /\ sessions'[by_host'[id]] # None
                      /\ sessions'[by_host'[id]].host = id
    BY DEF IndexHasNoDangling
  <2>1. CASE id = ident.host
    BY <2>1, <1>3, <1>5, <1>6, <1>10 DEF TypeOK
  <2>2. CASE id # ident.host
    <3>1. by_host'[id] = by_host[id] /\ by_host[id] # c
      BY <2>2, <1>6
    <3> QED
      BY <3>1, <1>5 DEF TypeOK, IndexInverse, IndexHasNoDangling
  <2> QED
    BY <2>1, <2>2
<1> QED
  BY <1>5, <1>6, <1>7, <1>8, <1>11, <1>12 DEF IndexInverse

(* create, delete and the rest keep the invariant, whatever the sets are.   *)
LEMMA StepKeepsIInv == IInv /\ [Next]_vars => IInv'
<1> USE NoneAssumption
<1> SUFFICES ASSUME IInv, [Next]_vars PROVE IInv'
  OBVIOUS
<1>1. ASSUME NEW c \in Connections, NEW ad \in Ads, Create(c, ad)
      PROVE  IInv'
  <2> DEFINE st == Forget(State, c)
  <2>1. PICK ident \in Mint(st) :
          /\ Install(Remember(st, c, Advertise(ident, ad)))
          /\ told' = [told EXCEPT ![c] = ident]
    BY <1>1 DEF Create
  <2>2. ident \in Identity /\ st.by_host[ident.host] = None
    BY DEF Mint
  <2>3. /\ sessions' \in [Connections -> Lobby \cup {None}]
        /\ by_host' \in [Ids -> Connections \cup {None}]
        /\ IndexInverse'
        /\ sessions' = [sessions EXCEPT ![c] = Advertise(ident, ad)]
        /\ \A id \in Ids : by_host'[id] =
             IF id = ident.host THEN c
             ELSE IF by_host[id] = c THEN None ELSE by_host[id]
    BY <2>1, <2>2, RememberFacts DEF IInv
  <2>4. TypeOK'
    BY <2>1, <2>2, <2>3 DEF IInv, TypeOK
  <2>5. ToldIdentityHolds'
    <3> SUFFICES ASSUME NEW d \in Connections, told'[d] # None
                 PROVE  /\ by_host'[told'[d].host] = d
                        /\ sessions'[d] # None
                        /\ IdentityOf(sessions'[d]) = told'[d]
      BY DEF ToldIdentityHolds
    <3>1. CASE d = c
      <4>1. told'[d] = ident /\ sessions'[d] = Advertise(ident, ad)
        BY <3>1, <2>1, <2>3 DEF IInv, TypeOK
      <4>2. ident.host \in Ids /\ by_host'[ident.host] = c
        BY <2>2, <2>3 DEF Identity
      <4>3. Advertise(ident, ad) \in Lobby
        BY <2>2 DEF Advertise, Lobby, Identity
      <4>4. IdentityOf(Advertise(ident, ad)) = ident
        BY <2>2 DEF IdentityOf, Advertise, Identity
      <4> QED
        BY <3>1, <4>1, <4>2, <4>3, <4>4 DEF Lobby
    <3>2. CASE d # c
      <4>1. told'[d] = told[d] /\ sessions'[d] = sessions[d]
        BY <3>2, <2>1, <2>3 DEF IInv, TypeOK
      <4>2. /\ by_host[told[d].host] = d
            /\ sessions[d] # None
            /\ IdentityOf(sessions[d]) = told[d]
        BY <4>1 DEF IInv, ToldIdentityHolds
      <4>3. sessions'[d] # None /\ IdentityOf(sessions'[d]) = told'[d]
        BY <4>1, <4>2
      <4>4. told'[d].host = sessions'[d].host
        BY <4>3 DEF IdentityOf
      <4>5. by_host'[sessions'[d].host] = d
        BY <4>3, <2>3 DEF IndexInverse, LobbiesAreIndexed
      <4> QED
        BY <4>3, <4>4, <4>5
    <3> QED
      BY <3>1, <3>2
  <2> QED
    BY <2>3, <2>4, <2>5 DEF IInv
<1>2. ASSUME NEW c \in Connections, NEW ad \in Ads, Update(c, ad)
      PROVE  IInv'
  <2> DEFINE st == Forget(State, c)
  <2>1. PICK ident \in IF sessions[c] = None THEN Mint(st)
                       ELSE {IdentityOf(sessions[c])} :
          /\ Install(Remember(st, c, Advertise(ident, ad)))
          /\ UNCHANGED told
    BY <1>2 DEF Update
  <2>2. ident \in Identity /\ st.by_host[ident.host] = None
    <3>1. CASE sessions[c] = None
      BY <3>1, <2>1 DEF Mint
    <3>2. CASE sessions[c] # None
      <4>1. ident = IdentityOf(sessions[c]) /\ sessions[c] \in Lobby
        BY <3>2, <2>1 DEF IInv, TypeOK
      <4>2. ident \in Identity /\ ident.host = sessions[c].host
        BY <4>1 DEF IdentityOf, Identity, Lobby
      <4>3. by_host[ident.host] = c
        BY <3>2, <4>2 DEF IInv, IndexInverse, LobbiesAreIndexed
      <4>4. ident.host \in Ids
        BY <4>2 DEF Identity
      <4>5. st.by_host[ident.host] = None
        BY <4>3, <4>4, ForgetFacts DEF IInv
      <4> QED
        BY <4>2, <4>5
    <3> QED
      BY <3>1, <3>2
  <2>3. /\ sessions' \in [Connections -> Lobby \cup {None}]
        /\ by_host' \in [Ids -> Connections \cup {None}]
        /\ IndexInverse'
        /\ sessions' = [sessions EXCEPT ![c] = Advertise(ident, ad)]
    BY <2>1, <2>2, RememberFacts DEF IInv
  <2>4. TypeOK'
    BY <2>1, <2>3 DEF IInv, TypeOK
  <2>5. ToldIdentityHolds'
    <3> SUFFICES ASSUME NEW d \in Connections, told[d] # None
                 PROVE  /\ by_host'[told[d].host] = d
                        /\ sessions'[d] # None
                        /\ IdentityOf(sessions'[d]) = told[d]
      BY <2>1 DEF ToldIdentityHolds
    <3>1. sessions[d] # None /\ IdentityOf(sessions[d]) = told[d]
      BY DEF IInv, ToldIdentityHolds
    <3>2. sessions'[d] # None /\ IdentityOf(sessions'[d]) = told[d]
      <4>1. CASE d = c
        <5>1. ident = told[d] /\ sessions'[d] = Advertise(ident, ad)
          BY <4>1, <3>1, <2>1, <2>3 DEF IInv, TypeOK
        <5>2. Advertise(ident, ad) \in Lobby
          BY <2>2 DEF Advertise, Lobby, Identity
        <5>3. IdentityOf(Advertise(ident, ad)) = ident
          BY <2>2 DEF IdentityOf, Advertise, Identity
        <5> QED
          BY <5>1, <5>2, <5>3 DEF Lobby
      <4>2. CASE d # c
        BY <4>2, <3>1, <2>3 DEF IInv, TypeOK
      <4> QED
        BY <4>1, <4>2
    <3>3. told[d].host = sessions'[d].host
      BY <3>2 DEF IdentityOf
    <3>4. by_host'[sessions'[d].host] = d
      BY <3>2, <2>3 DEF IndexInverse, LobbiesAreIndexed
    <3> QED
      BY <3>2, <3>3, <3>4
  <2> QED
    BY <2>3, <2>4, <2>5 DEF IInv
<1>3. ASSUME NEW c \in Connections, NEW id \in Ids, Delete(c, id)
      PROVE  IInv'
  BY <1>3, ForgetStep DEF Delete
<1>4. ASSUME NEW c \in Connections, RemoveConnection(c)
      PROVE  IInv'
  BY <1>4, ForgetStep DEF RemoveConnection
<1>5. CASE UNCHANGED vars
  BY <1>5 DEF IInv, TypeOK, IndexInverse, LobbiesAreIndexed,
              IndexHasNoDangling, ToldIdentityHolds, vars
<1> QED
  BY <1>1, <1>2, <1>3, <1>4, <1>5 DEF Next

LEMMA InitIInv == Init => IInv
BY NoneAssumption
   DEF Init, IInv, TypeOK, IndexInverse, LobbiesAreIndexed,
       IndexHasNoDangling, ToldIdentityHolds

LEMMA AlwaysIInv == Spec => []IInv
<1> QED
  BY InitIInv, StepKeepsIInv, PTL DEF Spec

(* Every method is one step of the directory, or none.                      *)
LEMMA StepRefines ==
  IInv /\ [Next]_vars => [Directory!Next]_sessions
<1> USE NoneAssumption
<1> SUFFICES ASSUME IInv, [Next]_vars, sessions' # sessions
             PROVE  Directory!Next
  OBVIOUS
<1>1. ASSUME NEW c \in Connections, NEW ad \in Ads, NEW ident \in Identity,
             Forget(State, c).by_host[ident.host] = None,
             Install(Remember(Forget(State, c), c, Advertise(ident, ad)))
      PROVE  \E l \in Directory!Lobby : Directory!Open(c, l)
  <2>1. sessions' = [sessions EXCEPT ![c] = Advertise(ident, ad)]
    BY <1>1, RememberFacts DEF IInv
  <2>2. /\ Advertise(ident, ad) \in Directory!Lobby
        /\ Advertise(ident, ad).host = ident.host
        /\ ident.host \in Ids
    BY DEF Advertise, Identity, Directory!Lobby
  <2>3. ASSUME NEW d \in Connections \ {c}, sessions[d] # None
        PROVE  sessions[d].host # ident.host
    <3>1. by_host[sessions[d].host] = d
      BY <2>3 DEF IInv, IndexInverse, LobbiesAreIndexed
    <3>2. by_host[ident.host] = c \/ by_host[ident.host] = None
      <4>1. \A id \in Ids : Forget(State, c).by_host[id] =
              IF by_host[id] = c THEN None ELSE by_host[id]
        BY ForgetFacts DEF IInv
      <4> QED
        BY <1>1, <2>2, <4>1
    <3> QED
      BY <2>3, <3>1, <3>2
  <2>4. Directory!IdFree(c, Advertise(ident, ad).host)
    BY <2>2, <2>3 DEF Directory!IdFree
  <2> QED
    BY <2>1, <2>2, <2>4 DEF Directory!Open
<1>2. ASSUME NEW c \in Connections, NEW ad \in Ads, Create(c, ad)
      PROVE  Directory!Next
  <2>1. \E ident \in Identity :
          /\ Forget(State, c).by_host[ident.host] = None
          /\ Install(Remember(Forget(State, c), c, Advertise(ident, ad)))
    BY <1>2 DEF Create, Mint
  <2> QED
    BY <2>1, <1>1 DEF Directory!Next
<1>3. ASSUME NEW c \in Connections, NEW ad \in Ads, Update(c, ad)
      PROVE  Directory!Next
  <2>1. CASE sessions[c] = None
    <3>1. \E ident \in Identity :
            /\ Forget(State, c).by_host[ident.host] = None
            /\ Install(Remember(Forget(State, c), c, Advertise(ident, ad)))
      BY <1>3, <2>1 DEF Update, Mint
    <3> QED
      BY <3>1, <1>1 DEF Directory!Next
  <2>2. CASE sessions[c] # None
    <3> DEFINE ident == IdentityOf(sessions[c])
    <3>1. Install(Remember(Forget(State, c), c, Advertise(ident, ad)))
      BY <1>3, <2>2 DEF Update
    <3>2. sessions[c] \in Lobby
      BY <2>2 DEF IInv, TypeOK
    <3>3. ident \in Identity /\ ident.host = sessions[c].host
      BY <3>2 DEF IdentityOf, Identity, Lobby
    <3>4. by_host[ident.host] = c /\ ident.host \in Ids
      BY <2>2, <3>3 DEF IInv, IndexInverse, LobbiesAreIndexed, Identity
    <3>5. Forget(State, c).by_host[ident.host] = None
      BY <3>4, ForgetFacts DEF IInv
    <3>6. \E l \in Directory!Lobby : Directory!Open(c, l)
      BY <3>1, <3>3, <3>5, <1>1
    <3> QED
      BY <3>6 DEF Directory!Next
  <2> QED
    BY <2>1, <2>2
<1>4. ASSUME NEW c \in Connections, Install(Forget(State, c))
      PROVE  Directory!Next
  <2>1. sessions' = [sessions EXCEPT ![c] = None]
    BY <1>4, ForgetFacts DEF IInv, Install
  <2>2. sessions[c] # None
    BY <2>1 DEF IInv, TypeOK
  <2> QED
    BY <2>1, <2>2 DEF Directory!Next, Directory!Close
<1>5. ~ UNCHANGED vars
  BY DEF vars
<1> QED
  BY <1>2, <1>3, <1>4, <1>5 DEF Next, Delete, RemoveConnection

(* The registry implements the directory: an id is never given to two       *)
(* lobbies, and each method changes one connection's lobby.                 *)
THEOREM RegistryImplementsDirectory == Spec => ImplementsDirectory
<1>1. Init => Directory!Init
  BY DEF Init, Directory!Init
<1> QED
  BY <1>1, StepRefines, AlwaysIInv, PTL
     DEF Spec, ImplementsDirectory, Directory!Spec

(* The registry's fields keep their types.                                  *)
THEOREM RegistryTypeOK == Spec => []TypeOK
<1>1. IInv => TypeOK
  BY DEF IInv
<1> QED
  BY <1>1, AlwaysIInv, PTL

(* sessions and by_host stay inverse of each other, for any number of       *)
(* clients and ids.                                                         *)
THEOREM RegistryIndexInverse == Spec => []IndexInverse
<1>1. IInv => IndexInverse
  BY DEF IInv
<1> QED
  BY <1>1, AlwaysIInv, PTL

(* The identity of CreateSession's reply opens that client's lobby until    *)
(* the client deletes it or disconnects.                                    *)
THEOREM RegistryToldIdentityHolds == Spec => []ToldIdentityHolds
<1>1. IInv => ToldIdentityHolds
  BY DEF IInv
<1> QED
  BY <1>1, AlwaysIInv, PTL

-----------------------------------------------------------------------------
(* Induction, and folds of any number of elements                           *)

(* A set of natural numbers has a least one.                                *)
LEMMA Least ==
  ASSUME NEW T \in SUBSET Nat, T # {}
  PROVE  \E m \in T : \A k \in T : m <= k
<1> DEFINE Less == OpToRel(<, Nat)
<1>1. IsWellFoundedOn(Less, Nat)
  BY NatLessThanWellFounded
<1> HIDE DEF Less
<1>2. PICK m \in T : \A k \in T : ~(<<k, m>> \in Less)
  BY <1>1, WFMin
<1>3. \A k \in Nat : k < m => <<k, m>> \in Less
  BY DEF Less, OpToRel
<1>4. \A k \in T : ~(k < m)
  BY <1>2, <1>3
<1> HIDE <1>2
<1> QED BY <1>4

(* A set with 0 and with the successor of each of its numbers has all       *)
(* numbers.                                                                 *)
LEMMA SetInduction ==
  ASSUME NEW S, 0 \in S, \A n \in Nat : n \in S => n + 1 \in S
  PROVE  Nat \subseteq S
<1> SUFFICES ASSUME Nat \ S # {} PROVE FALSE
  OBVIOUS
<1>1. PICK m \in Nat \ S : \A k \in Nat \ S : m <= k
  BY Least
<1>2. m # 0 /\ m - 1 \in Nat /\ ~(m <= m-1)
  BY <1>1
<1>3. m - 1 \in S
  BY <1>1, <1>2
<1> QED BY <1>1, <1>2, <1>3

(* Taking an element out of a finite set leaves one element less.           *)
LEMMA OneLess ==
  ASSUME NEW S, IsFiniteSet(S), NEW s \in SUBSET S, NEW x \in s
  PROVE  /\ Cardinality(s) \in Nat
         /\ Cardinality(s \ {x}) = Cardinality(s) - 1
<1>1. IsFiniteSet(s)
  BY FS_Subset
<1>2. Cardinality(s \ {x}) = IF x \in s THEN Cardinality(s) - 1
                                         ELSE Cardinality(s)
  BY <1>1, FS_RemoveElement, Zenon
<1> QED  BY <1>1, <1>2, FS_CardinalityType

(* What holds of the empty set and of each set all of whose subsets with    *)
(* one element less have it, holds of every subset of a finite set.         *)
LEMMA SubsetInduction ==
  ASSUME NEW S, IsFiniteSet(S), NEW T, {} \in T,
         \A s \in SUBSET S :
           s # {} /\ (\A x \in s : s \ {x} \in T) => s \in T
  PROVE  SUBSET S \subseteq T
<1> DEFINE Small(n) == {s \in SUBSET S : Cardinality(s) <= n}
           N == {n \in Nat : Small(n) \subseteq T}
<1>1. 0 \in N
  <2>1. ASSUME NEW s \in SUBSET S, Cardinality(s) <= 0
        PROVE  s = {}
    BY <2>1, FS_Subset, FS_CardinalityType, FS_EmptySet
  <2> QED  BY <2>1
<1>2. ASSUME NEW n \in Nat, n \in N
      PROVE  n + 1 \in N
  <2> SUFFICES ASSUME NEW s \in SUBSET S, Cardinality(s) <= n + 1
               PROVE  s \in T
    OBVIOUS
  <2>1. ASSUME NEW x \in s
        PROVE  s \ {x} \in T
    <3>1. Cardinality(s \ {x}) = Cardinality(s) - 1 /\ Cardinality(s) \in Nat
      BY OneLess
    <3>2. Cardinality(s \ {x}) <= n
      BY <3>1
    <3> QED  BY <1>2, <3>2
  <2> QED  BY <2>1
<1> HIDE DEF N
<1>3. Nat \subseteq N
  BY <1>1, <1>2, SetInduction
<1> SUFFICES ASSUME NEW s \in SUBSET S PROVE s \in T
  OBVIOUS
<1>4. Cardinality(s) \in N
  BY <1>3, FS_Subset, FS_CardinalityType
<1>5. Cardinality(s) <= Cardinality(s)
  BY FS_Subset, FS_CardinalityType
<1> QED  BY <1>4, <1>5 DEF N

(* A fold over the subsets of S that takes the element choice[s] out of s   *)
(* first and treats it last, by the step F[choice[s]]                       *)
IsChoice(choice, S) == \A s \in SUBSET S : s # {} => choice[s] \in s

IsFold(iter, S, base, choice, F) ==
  /\ iter[{}] = base
  /\ \A s \in SUBSET S :
       s # {} => iter[s] = F[choice[s]][iter[s \ {choice[s]}]]

(* A fold over a finite set by steps from values of V to values of V has a  *)
(* result.                                                                  *)
LEMMA FoldExists ==
  ASSUME NEW S, IsFiniteSet(S), NEW V, NEW base \in V,
         NEW choice, IsChoice(choice, S), NEW F \in [S -> [V -> V]]
  PROVE  \E iter \in [SUBSET S -> V] : IsFold(iter, S, base, choice, F)
<1> DEFINE Small(n) == {s \in SUBSET S : Cardinality(s) <= n}
           Value(f, s) == IF s = {} THEN base
                          ELSE F[choice[s]][f[s \ {choice[s]}]]
           Folds(n, f) == /\ f \in [Small(n) -> V]
                          /\ \A s \in Small(n) : f[s] = Value(f, s)
           N == {n \in Nat : \E f : Folds(n, f)}
<1>1. 0 \in N
  <2>1. ASSUME NEW s \in Small(0)
        PROVE  s = {}
    BY FS_Subset, FS_CardinalityType, FS_EmptySet
  <2>2. Folds(0, [s \in Small(0) |-> base])
    BY <2>1
  <2> HIDE DEF Folds
  <2> QED  BY <2>2
<1>2. ASSUME NEW n \in Nat, n \in N
      PROVE  n + 1 \in N
  <2>1. PICK f : Folds(n, f)
    BY <1>2
  <2> DEFINE g == [s \in Small(n + 1) |-> Value(f, s)]
  <2>2. ASSUME NEW s \in Small(n + 1), s # {}
        PROVE  /\ choice[s] \in s /\ choice[s] \in S
               /\ s \ {choice[s]} \in Small(n)
               /\ s \ {choice[s]} \in Small(n + 1)
    <3>1. choice[s] \in s
      BY <2>2 DEF IsChoice
    <3>2. /\ Cardinality(s \ {choice[s]}) = Cardinality(s) - 1
          /\ Cardinality(s) \in Nat
      BY <3>1, OneLess
    <3> QED  BY <3>1, <3>2
  <2>3. g \in [Small(n + 1) -> V]
    <3> SUFFICES ASSUME NEW s \in Small(n + 1) PROVE Value(f, s) \in V
      OBVIOUS
    <3>1. CASE s = {}
      BY <3>1
    <3>2. CASE s # {}
      <4>1. f[s \ {choice[s]}] \in V
        BY <2>1, <2>2, <3>2
      <4>2. choice[s] \in S
        BY <2>2, <3>2
      <4> QED  BY <3>2, <4>1, <4>2
    <3> QED  BY <3>1, <3>2
  <2>4. ASSUME NEW s \in Small(n + 1), s # {}
        PROVE  g[s \ {choice[s]}] = f[s \ {choice[s]}]
    <3> DEFINE t == s \ {choice[s]}
    <3>1. t \in Small(n) /\ t \in Small(n + 1)
      BY <2>2, <2>4
    <3>2. g[t] = Value(f, t)
      BY <3>1
    <3>3. f[t] = Value(f, t)
      BY <2>1, <3>1
    <3> QED  BY <3>2, <3>3
  <2>5. ASSUME NEW s \in Small(n + 1)
        PROVE  g[s] = Value(g, s)
    <3>1. g[s] = Value(f, s)
      OBVIOUS
    <3> HIDE DEF g
    <3>2. CASE s = {}
      BY <3>1, <3>2
    <3>3. CASE s # {}
      BY <2>4, <3>1, <3>3
    <3> QED  BY <3>2, <3>3
  <2>6. Folds(n + 1, g)
    BY <2>3, <2>5
  <2> HIDE DEF Folds
  <2> QED  BY <2>6
<1> HIDE DEF N
<1>3. Cardinality(S) \in N
  BY <1>1, <1>2, SetInduction, FS_CardinalityType
<1>4. PICK f : Folds(Cardinality(S), f)
  BY <1>3 DEF N
<1>5. Small(Cardinality(S)) = SUBSET S
  BY FS_Subset
<1>6. f \in [SUBSET S -> V] /\ \A s \in SUBSET S : f[s] = Value(f, s)
  BY <1>4, <1>5
<1>7. f[{}] = base
  BY <1>6
<1>8. \A s \in SUBSET S : s # {} => f[s] = F[choice[s]][f[s \ {choice[s]}]]
  BY <1>6
<1> QED  BY <1>6, <1>7, <1>8 DEF IsFold

(* The greatest number of a set of numbers up to n is in it.                *)
LEMMA MaxIsIn ==
  ASSUME NEW n \in Nat, NEW s \in SUBSET (1..n), s # {}
  PROVE  Max(s) \in s /\ \A y \in s : Max(s) >= y
<1> DEFINE Above == {m \in Nat : \A y \in s : y <= m}
<1>1. n \in Above
  OBVIOUS
<1>2. PICK m \in Above : \A k \in Above : m <= k
  BY <1>1, Least
<1>3. m \in s
  <2> SUFFICES ASSUME m \notin s PROVE FALSE
    OBVIOUS
  <2>1. \A y \in s : y \in Nat /\ y >= 1 /\ y <= m /\ y # m
    OBVIOUS
  <2>2. PICK z \in s : TRUE
    OBVIOUS
  <2>3. m - 1 \in Nat
    BY <2>1, <2>2
  <2>5. ASSUME NEW y \in s PROVE y <= m - 1
    BY <2>1
  <2>6. m - 1 \in Above
    BY <2>3, <2>5
  <2>7. m <= m - 1
    BY <1>2, <2>6
  <2>4. ~(m <= m - 1)
    OBVIOUS
  <2> QED  BY <2>7, <2>4
<1>4. \E x \in s : \A y \in s : x >= y
  BY <1>3
<1> QED  BY <1>4 DEF Max

(* In particular of a prefix.                                               *)
LEMMA MaxOfPrefix ==
  ASSUME NEW n \in Nat, NEW k \in 1..n
  PROVE  /\ 1..k \in SUBSET (1..n) /\ 1..k # {}
         /\ Max(1..k) = k /\ (1..k) \ {Max(1..k)} = 1..(k - 1)
<1>1. 1..k \in SUBSET (1..n) /\ 1..k # {} /\ k \in 1..k
  OBVIOUS
<1>2. Max(1..k) \in 1..k /\ Max(1..k) >= k
  BY <1>1, MaxIsIn
<1>3. Max(1..k) = k
  BY <1>2
<1>4. (1..k) \ {k} = 1..(k - 1)
  OBVIOUS
<1> QED  BY <1>1, <1>3, <1>4

(* A loop over n items, seen as the fold of its prefixes: the largest index *)
(* of a set is the last to be treated.                                      *)
LastOf(n) == [s \in SUBSET (1..n) |-> Max(s)]

(* A loop whose rounds take values of V to values of V has a result.        *)
LEMMA LoopExists ==
  ASSUME NEW n \in Nat, NEW V, NEW base \in V, NEW F \in [1..n -> [V -> V]]
  PROVE  \E iter \in [SUBSET (1..n) -> V] :
           IsFold(iter, 1..n, base, LastOf(n), F)
<1>1. IsFiniteSet(1..n)
  BY FS_Interval
<1>2. IsChoice(LastOf(n), 1..n)
  BY MaxIsIn DEF IsChoice, LastOf
<1> QED  BY <1>1, <1>2, FoldExists

-----------------------------------------------------------------------------
(* Searches                                                                 *)

Listed(c, q, d) == d # c /\ Matches(sessions[d].ad, q)

(* A filter that has seen the first k connections of the map has kept those *)
(* that are listed, and nothing else.                                       *)
Filtered(kept, order, k, c, q) ==
  /\ kept \in Seq(Advertising)
  /\ \A i \in DOMAIN kept :
       \E j \in 1..k : kept[i] = order[j] /\ Listed(c, q, order[j])
  /\ \A j \in 1..k :
       Listed(c, q, order[j]) => \E i \in DOMAIN kept : kept[i] = order[j]

(* One more round keeps it so.                                              *)
LEMMA FilterStep ==
  ASSUME NEW n \in Nat, NEW order \in [1..n -> Advertising], NEW c, NEW q,
         NEW k \in Nat, k + 1 <= n, NEW old, Filtered(old, order, k, c, q)
  PROVE  Filtered(IF Listed(c, q, order[k + 1])
                  THEN Append(old, order[k + 1]) ELSE old, order, k + 1, c, q)
<1>1. /\ k + 1 \in 1..(k + 1) /\ order[k + 1] \in Advertising
      /\ \A j \in 1..(k + 1) : j \in 1..k \/ j = k + 1
      /\ \A j \in 1..k : j \in 1..(k + 1)
  OBVIOUS
<1>2. CASE Listed(c, q, order[k + 1])
  <2> DEFINE new == Append(old, order[k + 1])
  <2>1. old \in Seq(Advertising)
    BY DEF Filtered
  <2>2. new \in Seq(Advertising)
    BY <1>1, <2>1
  <2>3. /\ Len(old) \in Nat /\ Len(new) = Len(old) + 1
        /\ DOMAIN old = 1..Len(old) /\ DOMAIN new = 1..Len(new)
        /\ new[Len(new)] = order[k + 1]
        /\ \A i \in 1..Len(old) : new[i] = old[i]
    BY <1>1, <2>1
  <2> HIDE DEF new
  <2>4. ASSUME NEW i \in DOMAIN new
        PROVE  \E j \in 1..(k + 1) :
                 new[i] = order[j] /\ Listed(c, q, order[j])
    <3>1. CASE i = Len(new)
      BY <1>1, <1>2, <2>3, <3>1
    <3>2. CASE i # Len(new)
      <4>1. i \in DOMAIN old /\ new[i] = old[i]
        BY <2>3, <3>2
      <4>2. PICK j \in 1..k : old[i] = order[j] /\ Listed(c, q, order[j])
        BY <4>1 DEF Filtered
      <4> QED  BY <1>1, <4>1, <4>2
    <3> QED  BY <3>1, <3>2
  <2>5. ASSUME NEW j \in 1..(k + 1), Listed(c, q, order[j])
        PROVE  \E i \in DOMAIN new : new[i] = order[j]
    <3>1. CASE j = k + 1
      <4>1. Len(new) \in DOMAIN new
        BY <2>3
      <4> QED  BY <2>3, <3>1, <4>1
    <3>2. CASE j # k + 1
      <4>1. j \in 1..k
        BY <1>1, <3>2
      <4>2. PICK i \in DOMAIN old : old[i] = order[j]
        BY <2>5, <4>1 DEF Filtered
      <4>3. i \in DOMAIN new /\ new[i] = old[i]
        BY <2>3
      <4> QED  BY <4>2, <4>3
    <3> QED  BY <3>1, <3>2
  <2>6. Filtered(new, order, k + 1, c, q)
    BY <2>2, <2>4, <2>5 DEF Filtered
  <2> QED  BY <1>2, <2>6 DEF new
<1>3. CASE ~Listed(c, q, order[k + 1])
  <2>1. ASSUME NEW i \in DOMAIN old
        PROVE  \E j \in 1..(k + 1) :
                 old[i] = order[j] /\ Listed(c, q, order[j])
    BY <1>1 DEF Filtered
  <2>2. ASSUME NEW j \in 1..(k + 1), Listed(c, q, order[j])
        PROVE  \E i \in DOMAIN old : old[i] = order[j]
    BY <1>1, <1>3, <2>2 DEF Filtered
  <2>3. Filtered(old, order, k + 1, c, q)
    BY <2>1, <2>2 DEF Filtered
  <2> QED  BY <1>3, <2>3
<1> QED  BY <1>2, <1>3

LEMMA CandidatesFiltered ==
  ASSUME NEW n \in Nat, NEW order \in [1..n -> Advertising], NEW c, NEW q
  PROVE  Filtered(Candidates(order, c, q), order, n, c, q)
<1> DEFINE V == Seq(Advertising)
           Add(kept, d) == IF d # c /\ Matches(sessions[d].ad, q)
                           THEN Append(kept, d) ELSE kept
           Loop(iter) == iter = [s \in SUBSET (1..n) |->
             IF s = {} THEN <<>>
             ELSE LET x == Max(s) IN Add(iter[s \ {x}], order[x])]
           run == CHOOSE iter : Loop(iter)
           F == [i \in 1..n |-> [v \in V |-> Add(v, order[i])]]
<1>1. Candidates(order, c, q) = run[1..n]
  <2>1. DOMAIN order = 1..n
    OBVIOUS
  <2> QED  BY <2>1 DEF Candidates, FoldLeft, MapThenFoldSet
<1>2. \E iter : Loop(iter)
  <2>1. F \in [1..n -> [V -> V]] /\ <<>> \in V
    OBVIOUS
  <2> HIDE DEF F
  <2>2. PICK iter \in [SUBSET (1..n) -> V] :
          IsFold(iter, 1..n, <<>>, LastOf(n), F)
    BY <2>1, LoopExists
  <2>3. ASSUME NEW s \in SUBSET (1..n), s # {}
        PROVE  iter[s] = Add(iter[s \ {Max(s)}], order[Max(s)])
    <3>1. Max(s) \in 1..n /\ s \ {Max(s)} \in SUBSET (1..n)
      BY <2>3, MaxIsIn
    <3>2. LastOf(n)[s] = Max(s)
      BY DEF LastOf
    <3>3. iter[s] = F[Max(s)][iter[s \ {Max(s)}]]
      BY <2>2, <2>3, <3>2 DEF IsFold
    <3>4. iter[s \ {Max(s)}] \in V
      BY <2>2, <3>1
    <3> HIDE DEF Add, V
    <3> QED  BY <3>1, <3>3, <3>4 DEF F
  <2>4. iter[{}] = <<>>
    BY <2>2 DEF IsFold
  <2>5. iter = [s \in SUBSET (1..n) |-> iter[s]]
    BY <2>2
  <2> HIDE DEF Add
  <2>6. Loop(iter)
    BY <2>3, <2>4, <2>5
  <2> HIDE DEF Loop
  <2> QED  BY <2>6
<1>3. Loop(run)
  <2> HIDE DEF Loop
  <2> QED  BY <1>2
<1> HIDE DEF run
<1>4. run[1..0] = <<>>
  <2>1. 1..0 = {}
    OBVIOUS
  <2> QED  BY <1>3, <2>1
<1>5. ASSUME NEW k \in 1..n
      PROVE  run[1..k] = Add(run[1..(k - 1)], order[k])
  <2>1. 1..k \in SUBSET (1..n) /\ 1..k # {}
    BY MaxOfPrefix
  <2>2. Max(1..k) = k /\ (1..k) \ {Max(1..k)} = 1..(k - 1)
    BY MaxOfPrefix
  <2> HIDE DEF Add
  <2>3. run[1..k] = Add(run[(1..k) \ {Max(1..k)}], order[Max(1..k)])
    BY <1>3, <2>1
  <2> QED  BY <2>2, <2>3
<1> DEFINE T == {k \in Nat : k <= n => Filtered(run[1..k], order, k, c, q)}
<1>6. 0 \in T
  <2>1. <<>> \in Seq(Advertising) /\ DOMAIN <<>> = {} /\ 1..0 = {}
    OBVIOUS
  <2>2. Filtered(<<>>, order, 0, c, q)
    BY <2>1 DEF Filtered
  <2> QED  BY <1>4, <2>2
<1>7. ASSUME NEW k \in Nat, k \in T
      PROVE  k + 1 \in T
  <2> SUFFICES ASSUME k + 1 <= n
               PROVE  Filtered(run[1..(k + 1)], order, k + 1, c, q)
    OBVIOUS
  <2>1. k + 1 \in 1..n /\ (k + 1) - 1 = k
    OBVIOUS
  <2>2. Filtered(run[1..k], order, k, c, q)
    BY <1>7
  <2>3. run[1..(k + 1)] = IF Listed(c, q, order[k + 1])
                          THEN Append(run[1..k], order[k + 1])
                          ELSE run[1..k]
    BY <1>5, <2>1 DEF Listed
  <2> HIDE DEF T
  <2> QED  BY <2>2, <2>3, FilterStep
<1> HIDE DEF T
<1>8. n \in T
  BY <1>6, <1>7, SetInduction
<1> QED  BY <1>1, <1>8 DEF T

AddressOf(d) == sessions[d].ad.address
Seen(kept, d) == \E i \in DOMAIN kept : AddressOf(kept[i]) = AddressOf(d)

(* Of the first k candidates one lobby per address has been kept.           *)
Distinct(kept, cs, k) ==
  /\ kept \in Seq(Advertising)
  /\ \A i \in DOMAIN kept : \E j \in 1..k : kept[i] = cs[j]
  /\ \A i, j \in DOMAIN kept :
       AddressOf(kept[i]) = AddressOf(kept[j]) => i = j
  /\ \A j \in 1..k : Seen(kept, cs[j])

(* One more candidate keeps it so.                                          *)
LEMMA DistinctStep ==
  ASSUME NEW n \in Nat, NEW cs \in [1..n -> Advertising],
         NEW k \in Nat, k + 1 <= n, NEW old, Distinct(old, cs, k)
  PROVE  Distinct(IF Seen(old, cs[k + 1]) THEN old
                  ELSE Append(old, cs[k + 1]), cs, k + 1)
<1>1. /\ k + 1 \in 1..(k + 1) /\ cs[k + 1] \in Advertising
      /\ \A j \in 1..(k + 1) : j \in 1..k \/ j = k + 1
      /\ \A j \in 1..k : j \in 1..(k + 1)
  OBVIOUS
<1>2. CASE Seen(old, cs[k + 1])
  <2>1. ASSUME NEW i \in DOMAIN old
        PROVE  \E j \in 1..(k + 1) : old[i] = cs[j]
    BY <1>1 DEF Distinct
  <2>2. ASSUME NEW j \in 1..(k + 1)
        PROVE  Seen(old, cs[j])
    BY <1>1, <1>2 DEF Distinct
  <2>3. Distinct(old, cs, k + 1)
    BY <2>1, <2>2 DEF Distinct
  <2> QED  BY <1>2, <2>3
<1>3. CASE ~Seen(old, cs[k + 1])
  <2> DEFINE new == Append(old, cs[k + 1])
  <2>1. old \in Seq(Advertising)
    BY DEF Distinct
  <2>2. new \in Seq(Advertising)
    BY <1>1, <2>1
  <2>3. /\ Len(old) \in Nat /\ Len(new) = Len(old) + 1
        /\ DOMAIN old = 1..Len(old) /\ DOMAIN new = 1..Len(new)
        /\ new[Len(new)] = cs[k + 1]
        /\ \A i \in 1..Len(old) : new[i] = old[i]
    BY <1>1, <2>1
  <2>4. /\ Len(new) \in DOMAIN new
        /\ \A i \in DOMAIN old : i \in DOMAIN new /\ new[i] = old[i]
        /\ \A i \in DOMAIN new :
             i = Len(new) \/ (i \in DOMAIN old /\ new[i] = old[i])
    BY <2>3
  <2> HIDE DEF new
  <2>5. ASSUME NEW i \in DOMAIN new
        PROVE  \E j \in 1..(k + 1) : new[i] = cs[j]
    <3>1. CASE i = Len(new)
      BY <1>1, <2>3, <3>1
    <3>2. CASE i \in DOMAIN old /\ new[i] = old[i]
      BY <1>1, <3>2 DEF Distinct
    <3> QED  BY <2>4, <3>1, <3>2
  <2>6. ASSUME NEW i \in DOMAIN old
        PROVE  AddressOf(old[i]) # AddressOf(cs[k + 1])
    BY <1>3 DEF Seen
  <2>7. ASSUME NEW i \in DOMAIN new, NEW j \in DOMAIN new,
               AddressOf(new[i]) = AddressOf(new[j])
        PROVE  i = j
    <3>1. CASE i = Len(new) \/ j = Len(new)
      BY <2>3, <2>4, <2>6, <2>7, <3>1
    <3>2. CASE i \in DOMAIN old /\ j \in DOMAIN old
      BY <2>4, <2>7, <3>2 DEF Distinct
    <3> QED  BY <2>4, <3>1, <3>2
  <2>8. ASSUME NEW j \in 1..(k + 1)
        PROVE  Seen(new, cs[j])
    <3>1. CASE j = k + 1
      BY <2>3, <2>4, <3>1 DEF Seen
    <3>2. CASE j \in 1..k
      <4>1. Seen(old, cs[j])
        BY <3>2 DEF Distinct
      <4> QED  BY <2>4, <4>1 DEF Seen
    <3> QED  BY <1>1, <3>1, <3>2
  <2>9. Distinct(new, cs, k + 1)
    BY <2>2, <2>5, <2>7, <2>8 DEF Distinct
  <2> QED  BY <1>3, <2>9 DEF new
<1> QED  BY <1>2, <1>3

LEMMA FirstsDistinct ==
  ASSUME NEW n \in Nat, NEW cs \in [1..n -> Advertising]
  PROVE  Distinct(FirstOfEachAddress(cs), cs, n)
<1> DEFINE V == Seq(Advertising)
           Add(kept, d) == IF \E i \in DOMAIN kept :
                                sessions[kept[i]].ad.address =
                                sessions[d].ad.address
                           THEN kept ELSE Append(kept, d)
           Loop(iter) == iter = [s \in SUBSET (1..n) |->
             IF s = {} THEN <<>>
             ELSE LET x == Max(s) IN Add(iter[s \ {x}], cs[x])]
           run == CHOOSE iter : Loop(iter)
           F == [i \in 1..n |-> [v \in V |-> Add(v, cs[i])]]
<1>1. FirstOfEachAddress(cs) = run[1..n]
  <2>1. DOMAIN cs = 1..n
    OBVIOUS
  <2> QED  BY <2>1 DEF FirstOfEachAddress, FoldLeft, MapThenFoldSet
<1>2. \E iter : Loop(iter)
  <2>1. F \in [1..n -> [V -> V]] /\ <<>> \in V
    OBVIOUS
  <2> HIDE DEF F
  <2>2. PICK iter \in [SUBSET (1..n) -> V] :
          IsFold(iter, 1..n, <<>>, LastOf(n), F)
    BY <2>1, LoopExists
  <2>3. ASSUME NEW s \in SUBSET (1..n), s # {}
        PROVE  iter[s] = Add(iter[s \ {Max(s)}], cs[Max(s)])
    <3>1. Max(s) \in 1..n /\ s \ {Max(s)} \in SUBSET (1..n)
      BY <2>3, MaxIsIn
    <3>2. LastOf(n)[s] = Max(s)
      BY DEF LastOf
    <3>3. iter[s] = F[Max(s)][iter[s \ {Max(s)}]]
      BY <2>2, <2>3, <3>2 DEF IsFold
    <3>4. iter[s \ {Max(s)}] \in V
      BY <2>2, <3>1
    <3> HIDE DEF Add, V
    <3> QED  BY <3>1, <3>3, <3>4 DEF F
  <2>4. iter[{}] = <<>>
    BY <2>2 DEF IsFold
  <2>5. iter = [s \in SUBSET (1..n) |-> iter[s]]
    BY <2>2
  <2> HIDE DEF Add
  <2>6. Loop(iter)
    BY <2>3, <2>4, <2>5
  <2> HIDE DEF Loop
  <2> QED  BY <2>6
<1>3. Loop(run)
  <2> HIDE DEF Loop
  <2> QED  BY <1>2
<1> HIDE DEF run
<1>4. run[1..0] = <<>>
  <2>1. 1..0 = {}
    OBVIOUS
  <2> QED  BY <1>3, <2>1
<1>5. ASSUME NEW k \in 1..n
      PROVE  run[1..k] = Add(run[1..(k - 1)], cs[k])
  <2>1. 1..k \in SUBSET (1..n) /\ 1..k # {}
    BY MaxOfPrefix
  <2>2. Max(1..k) = k /\ (1..k) \ {Max(1..k)} = 1..(k - 1)
    BY MaxOfPrefix
  <2> HIDE DEF Add
  <2>3. run[1..k] = Add(run[(1..k) \ {Max(1..k)}], cs[Max(1..k)])
    BY <1>3, <2>1
  <2> QED  BY <2>2, <2>3
<1> DEFINE T == {k \in Nat : k <= n => Distinct(run[1..k], cs, k)}
<1>6. 0 \in T
  <2>1. <<>> \in Seq(Advertising) /\ DOMAIN <<>> = {} /\ 1..0 = {}
    OBVIOUS
  <2>2. Distinct(<<>>, cs, 0)
    BY <2>1 DEF Distinct
  <2> QED  BY <1>4, <2>2
<1>7. ASSUME NEW k \in Nat, k \in T
      PROVE  k + 1 \in T
  <2> SUFFICES ASSUME k + 1 <= n
               PROVE  Distinct(run[1..(k + 1)], cs, k + 1)
    OBVIOUS
  <2>1. k + 1 \in 1..n /\ (k + 1) - 1 = k
    OBVIOUS
  <2>2. Distinct(run[1..k], cs, k)
    BY <1>7
  <2>3. run[1..(k + 1)] = IF Seen(run[1..k], cs[k + 1]) THEN run[1..k]
                          ELSE Append(run[1..k], cs[k + 1])
    BY <1>5, <2>1 DEF Seen, AddressOf
  <2> HIDE DEF T
  <2> QED  BY <2>2, <2>3, DistinctStep
<1> HIDE DEF T
<1>8. n \in T
  BY <1>6, <1>7, SetInduction
<1> QED  BY <1>1, <1>8 DEF T

(* Every order of a finite set lists all of it, each element once.          *)
LEMMA OrderFacts ==
  ASSUME IsFiniteSet(Advertising), NEW order \in Orders
  PROVE  /\ Cardinality(Advertising) \in Nat
         /\ order \in [1..Cardinality(Advertising) -> Advertising]
         /\ \A i, j \in 1..Cardinality(Advertising) : i # j => order[i] # order[j]
         /\ \A d \in Advertising :
              \E i \in 1..Cardinality(Advertising) : order[i] = d
<1> DEFINE n == Cardinality(Advertising)
<1>1. n \in Nat
  BY FS_CardinalityType
<1>2. /\ order \in [1..n -> Advertising]
      /\ \A i, j \in 1..n : i # j => order[i] # order[j]
  BY DEF Orders, SetToSeqs
<1>3. order \in Injection(1..n, Advertising)
  BY <1>2 DEF Injection, IsInjective
<1>4. Cardinality(1..n) = n
  BY <1>1, FS_Interval
<1>5. order \in Surjection(1..n, Advertising)
  BY <1>3, <1>4, FS_Injection
<1> QED  BY <1>1, <1>2, <1>5 DEF Surjection

(* What a search answers with: lobbies it lists, none of them twice behind  *)
(* one address, no more than asked for, and unless there were that many one *)
(* of each address that has a lobby it lists.                               *)
LEMMA SearchAnswers ==
  ASSUME IsFiniteSet(Advertising), NEW order \in Orders,
         NEW c, NEW q, q.limit \in Int
  PROVE  LET found == ListFor(order, c, q) IN
         /\ found \in Seq(Advertising)
         /\ q.limit > 0 => Len(found) <= q.limit
         /\ \A i \in DOMAIN found : Listed(c, q, found[i])
         /\ \A i, j \in DOMAIN found :
              AddressOf(found[i]) = AddressOf(found[j]) => i = j
         /\ \/ q.limit > 0 /\ Len(found) = q.limit
            \/ \A d \in Advertising : Listed(c, q, d) => Seen(found, d)
<1> DEFINE n == Cardinality(Advertising)
           cs == Candidates(order, c, q)
           kept == FirstOfEachAddress(cs)
           found == ListFor(order, c, q)
<1>1. /\ n \in Nat /\ order \in [1..n -> Advertising]
      /\ \A d \in Advertising : \E i \in 1..n : order[i] = d
  BY OrderFacts
<1>2. Filtered(cs, order, n, c, q)
  BY <1>1, CandidatesFiltered
<1>3. cs \in Seq(Advertising) /\ Len(cs) \in Nat
  BY <1>2 DEF Filtered
<1>4. cs \in [1..Len(cs) -> Advertising] /\ DOMAIN cs = 1..Len(cs)
  BY <1>3
<1>5. Distinct(kept, cs, Len(cs))
  BY <1>3, <1>4, FirstsDistinct
<1>6. found = Take(kept, q)
  BY DEF ListFor
<1> HIDE DEF cs, kept, found, n
<1>7. kept \in Seq(Advertising)
  BY <1>5 DEF Distinct
<1>8. ASSUME NEW i \in DOMAIN kept
      PROVE  Listed(c, q, kept[i])
  <2>1. PICK j \in 1..Len(cs) : kept[i] = cs[j]
    BY <1>5 DEF Distinct
  <2>2. j \in DOMAIN cs
    BY <1>4
  <2>3. PICK k \in 1..n : cs[j] = order[k] /\ Listed(c, q, order[k])
    BY <1>2, <2>2 DEF Filtered
  <2> QED  BY <2>1, <2>3
<1>9. \A i, j \in DOMAIN kept :
        AddressOf(kept[i]) = AddressOf(kept[j]) => i = j
  BY <1>5 DEF Distinct
<1>10. \A d \in Advertising : Listed(c, q, d) => Seen(kept, d)
  <2> SUFFICES ASSUME NEW d \in Advertising, Listed(c, q, d)
               PROVE  Seen(kept, d)
    OBVIOUS
  <2>1. PICK m \in 1..n : order[m] = d
    BY <1>1
  <2>2. PICK i \in DOMAIN cs : cs[i] = d
    BY <1>2, <2>1 DEF Filtered
  <2> QED  BY <1>4, <1>5, <2>2 DEF Distinct
<1>11. CASE q.limit > 0 /\ q.limit < Len(kept)
  <2>1. found = SubSeq(kept, 1, q.limit)
    BY <1>6, <1>11 DEF Take
  <2>2. /\ found \in Seq(Advertising) /\ Len(found) = q.limit
        /\ DOMAIN found = 1..q.limit
        /\ \A i \in DOMAIN found : i \in DOMAIN kept /\ found[i] = kept[i]
    BY <1>7, <1>11, <2>1
  <2> QED  BY <1>8, <1>9, <1>11, <2>2 DEF found
<1>12. CASE ~(q.limit > 0 /\ q.limit < Len(kept))
  <2>1. found = kept
    BY <1>6, <1>12 DEF Take
  <2>2. q.limit > 0 => Len(kept) <= q.limit
    BY <1>7, <1>12
  <2> QED  BY <1>7, <1>8, <1>9, <1>10, <2>1, <2>2 DEF found
<1> QED  BY <1>11, <1>12

LEMMA SearchesList ==
  ASSUME IndexInverse, QueriesAssumption, IsFiniteSet(Advertising)
  PROVE  SearchListsOnlyJoinable
<1> SUFFICES ASSUME NEW c \in Connections, NEW q \in Queries,
                    NEW order \in Orders
             PROVE  LET found == ListFor(order, c, q) IN
    /\ q.limit > 0 => Len(found) <= q.limit
    /\ \A i \in DOMAIN found :
         LET l == sessions[found[i]] IN
         /\ by_host[l.host] = found[i] /\ found[i] # c
         /\ q.filters[5] # ANY => FreeSlots(l.ad) >= q.filters[5]
         /\ \A f \in {<<1, 1>>, <<2, 4>>, <<4, 2>>} :
              q.filters[f[1]] \in {ANY, l.ad.title[f[2]]}
         /\ \A j \in DOMAIN found :
              sessions[found[j]].ad.address = l.ad.address => i = j
  BY DEF SearchListsOnlyJoinable
<1> DEFINE found == ListFor(order, c, q)
<1>1. q.limit \in Int
  BY DEF QueriesAssumption
<1>2. /\ found \in Seq(Advertising)
      /\ q.limit > 0 => Len(found) <= q.limit
      /\ \A i \in DOMAIN found : Listed(c, q, found[i])
      /\ \A i, j \in DOMAIN found :
           AddressOf(found[i]) = AddressOf(found[j]) => i = j
  BY <1>1, SearchAnswers
<1> HIDE DEF found
<1>3. ASSUME NEW i \in DOMAIN found
      PROVE  LET l == sessions[found[i]] IN
             /\ by_host[l.host] = found[i] /\ found[i] # c
             /\ q.filters[5] # ANY => FreeSlots(l.ad) >= q.filters[5]
             /\ \A f \in {<<1, 1>>, <<2, 4>>, <<4, 2>>} :
                  q.filters[f[1]] \in {ANY, l.ad.title[f[2]]}
  <2>1. found[i] \in Connections /\ sessions[found[i]] # None
    BY <1>2 DEF Advertising
  <2>2. by_host[sessions[found[i]].host] = found[i]
    BY <2>1 DEF IndexInverse, LobbiesAreIndexed
  <2>3. found[i] # c /\ Matches(sessions[found[i]].ad, q)
    BY <1>2 DEF Listed
  <2> QED  BY <2>2, <2>3 DEF Matches, Wants
<1>4. ASSUME NEW i \in DOMAIN found, NEW j \in DOMAIN found,
             sessions[found[j]].ad.address = sessions[found[i]].ad.address
      PROVE  i = j
  BY <1>2, <1>4 DEF AddressOf
<1> QED  BY <1>2, <1>3, <1>4 DEF found

LEMMA SearchesMissNothing ==
  ASSUME QueriesAssumption, IsFiniteSet(Advertising)
  PROVE  SearchMissesNoAddress
<1> SUFFICES ASSUME NEW c \in Connections, NEW q \in Queries,
                    NEW order \in Orders,
                    LET found == ListFor(order, c, q) IN
                    ~(q.limit > 0 /\ Len(found) = q.limit)
             PROVE  {sessions[ListFor(order, c, q)[i]].ad.address :
                       i \in DOMAIN ListFor(order, c, q)} =
                    {sessions[d].ad.address :
                       d \in {e \in Advertising \ {c} :
                                Matches(sessions[e].ad, q)}}
  BY DEF SearchMissesNoAddress
<1> DEFINE found == ListFor(order, c, q)
           matching == {e \in Advertising \ {c} : Matches(sessions[e].ad, q)}
<1>1. q.limit \in Int
  BY DEF QueriesAssumption
<1>2. /\ found \in Seq(Advertising)
      /\ \A i \in DOMAIN found : Listed(c, q, found[i])
      /\ \A d \in Advertising : Listed(c, q, d) => Seen(found, d)
  BY <1>1, SearchAnswers
<1> HIDE DEF found
<1>3. \A i \in DOMAIN found : found[i] \in matching
  <2>1. \A i \in DOMAIN found : found[i] \in Advertising
    BY <1>2
  <2> QED  BY <1>2, <2>1 DEF Listed
<1>4. \A d \in matching : Listed(c, q, d)
  BY DEF Listed
<1>5. \A d \in matching : \E i \in DOMAIN found :
        sessions[found[i]].ad.address = sessions[d].ad.address
  BY <1>2, <1>4 DEF Seen, AddressOf
<1> HIDE DEF matching
<1>6. {sessions[found[i]].ad.address : i \in DOMAIN found} =
        {sessions[d].ad.address : d \in matching}
  BY <1>3, <1>5
<1> QED  BY <1>6 DEF found, matching

-----------------------------------------------------------------------------
(* The population page                                                      *)

Crew(c) == Players(sessions[c].ad)

(* The sum over a set is the sum over the rest and any one of its elements. *)
LEMMA PlayersAdd ==
  ASSUME IsFiniteSet(Advertising), \A c \in Advertising : Crew(c) \in Nat
  PROVE  /\ PlayersOf({}) = 0
         /\ \A S \in SUBSET Advertising :
              /\ PlayersOf(S) \in Nat
              /\ \A c \in S : PlayersOf(S) = PlayersOf(S \ {c}) + Crew(c)
<1> DEFINE pick == [s \in SUBSET Advertising |-> CHOOSE x \in s : TRUE]
           F == [c \in Advertising |-> [m \in Nat |-> m + Crew(c)]]
<1>1. IsChoice(pick, Advertising)
  BY DEF IsChoice
<1>2. F \in [Advertising -> [Nat -> Nat]]
  OBVIOUS
<1>3. PICK sum \in [SUBSET Advertising -> Nat] :
        IsFold(sum, Advertising, 0, pick, F)
  <2> HIDE DEF pick, F
  <2> QED  BY <1>1, <1>2, FoldExists
<1>4. ASSUME NEW s \in SUBSET Advertising, s # {}
      PROVE  LET x == CHOOSE x \in s : TRUE IN
             x \in s /\ sum[s] = sum[s \ {x}] + Crew(x)
  <2> DEFINE x == CHOOSE x \in s : TRUE
  <2>1. x \in s /\ pick[s] = x
    BY <1>4
  <2>2. sum[s] = F[pick[s]][sum[s \ {pick[s]}]]
    BY <1>3, <1>4 DEF IsFold
  <2>3. sum[s \ {x}] \in Nat /\ x \in Advertising
    BY <1>3, <2>1
  <2> HIDE DEF x
  <2>4. F[x][sum[s \ {x}]] = sum[s \ {x}] + Crew(x)
    BY <2>3
  <2> QED  BY <2>1, <2>2, <2>4 DEF x
<1>5. sum[{}] = 0
  BY <1>3 DEF IsFold
<1> HIDE DEF pick, F
<1>6. ASSUME NEW S \in SUBSET Advertising
      PROVE  PlayersOf(S) = sum[S]
  <2> DEFINE Loop(iter) == iter = [s \in SUBSET S |->
               IF s = {} THEN 0
               ELSE LET x == CHOOSE x \in s : TRUE
                    IN  iter[s \ {x}] + Crew(x)]
             run == CHOOSE iter : Loop(iter)
             part == [s \in SUBSET S |-> sum[s]]
  <2>1. PlayersOf(S) = run[S]
    BY DEF PlayersOf, FoldSet, MapThenFoldSet, Crew
  <2>2. ASSUME NEW s \in SUBSET S, s # {}
        PROVE  LET x == CHOOSE x \in s : TRUE IN
               /\ x \in s /\ s \ {x} \in SUBSET S
               /\ sum[s] = sum[s \ {x}] + Crew(x)
    BY <1>4, <2>2
  <2>3. Loop(part)
    <3>1. ASSUME NEW s \in SUBSET S, s # {}
          PROVE  LET x == CHOOSE x \in s : TRUE IN
                 part[s] = part[s \ {x}] + Crew(x)
      BY <2>2, <3>1
    <3>2. part[{}] = 0 /\ part = [s \in SUBSET S |-> part[s]]
      BY <1>5
    <3> HIDE DEF part
    <3> QED  BY <3>1, <3>2
  <2>4. Loop(run)
    <3> HIDE DEF Loop, part
    <3> QED  BY <2>3
  <2> HIDE DEF run, part
  <2> DEFINE T == {s \in SUBSET S : run[s] = sum[s]}
  <2>5. {} \in T
    BY <1>5, <2>4
  <2>6. ASSUME NEW s \in SUBSET S, s # {}, \A x \in s : s \ {x} \in T
        PROVE  s \in T
    <3> DEFINE x == CHOOSE x \in s : TRUE
    <3>1. x \in s /\ sum[s] = sum[s \ {x}] + Crew(x)
      BY <2>2, <2>6
    <3>2. run[s] = run[s \ {x}] + Crew(x)
      BY <2>4, <2>6
    <3> HIDE DEF x
    <3>3. run[s \ {x}] = sum[s \ {x}]
      BY <2>6, <3>1
    <3> QED  BY <3>1, <3>2, <3>3
  <2>7. IsFiniteSet(S)
    BY FS_Subset
  <2> HIDE DEF T
  <2>8. SUBSET S \subseteq T
    BY <2>5, <2>6, <2>7, SubsetInduction
  <2> QED  BY <2>1, <2>8 DEF T
<1> DEFINE T == {s \in SUBSET Advertising :
                   \A x \in s : sum[s] = sum[s \ {x}] + Crew(x)}
<1>7. {} \in T
  OBVIOUS
<1>8. ASSUME NEW s \in SUBSET Advertising, s # {},
             \A x \in s : s \ {x} \in T
      PROVE  s \in T
  <2> SUFFICES ASSUME NEW x \in s PROVE sum[s] = sum[s \ {x}] + Crew(x)
    OBVIOUS
  <2> DEFINE y == CHOOSE y \in s : TRUE
  <2>1. y \in s /\ sum[s] = sum[s \ {y}] + Crew(y)
    BY <1>4, <1>8
  <2> HIDE DEF y
  <2>2. CASE y = x
    BY <2>1, <2>2
  <2>3. CASE y # x
    <3> DEFINE rest == (s \ {y}) \ {x}
    <3>1. rest = (s \ {x}) \ {y}
      OBVIOUS
    <3>2. sum[s \ {y}] = sum[rest] + Crew(x)
      BY <1>8, <2>1, <2>3
    <3>3. sum[s \ {x}] = sum[rest] + Crew(y)
      BY <1>8, <2>1, <2>3, <3>1
    <3>4. sum[rest] \in Nat /\ Crew(x) \in Nat /\ Crew(y) \in Nat
      BY <1>3, <2>1
    <3> HIDE DEF rest
    <3> QED  BY <2>1, <3>2, <3>3, <3>4
  <2> QED  BY <2>2, <2>3
<1> HIDE DEF T
<1>9. SUBSET Advertising \subseteq T
  BY <1>7, <1>8, SubsetInduction
<1>10. PlayersOf({}) = 0
  BY <1>5, <1>6
<1>11. ASSUME NEW S \in SUBSET Advertising
       PROVE  PlayersOf(S) \in Nat
  BY <1>3, <1>6
<1>12. ASSUME NEW S \in SUBSET Advertising, NEW c \in S
       PROVE  PlayersOf(S) = PlayersOf(S \ {c}) + Crew(c)
  <2>1. sum[S] = sum[S \ {c}] + Crew(c)
    BY <1>9 DEF T
  <2>2. PlayersOf(S) = sum[S] /\ PlayersOf(S \ {c}) = sum[S \ {c}]
    BY <1>6
  <2> QED  BY <2>1, <2>2
<1> QED  BY <1>10, <1>11, <1>12

LEMMA PlayersAddOne ==
  ASSUME IsFiniteSet(Advertising), \A c \in Advertising : Crew(c) \in Nat,
         NEW S \in SUBSET Advertising, NEW c \in Advertising \ S
  PROVE  PlayersOf(S \cup {c}) = PlayersOf(S) + Crew(c)
<1>1. S \cup {c} \in SUBSET Advertising /\ (S \cup {c}) \ {c} = S
  OBVIOUS
<1>2. c \in S \cup {c}
  OBVIOUS
<1>3. PlayersOf(S \cup {c}) = PlayersOf((S \cup {c}) \ {c}) + Crew(c)
  BY <1>1, <1>2, PlayersAdd
<1> QED  BY <1>1, <1>3

PlaylistOf(c) == Playlist(sessions[c].ad)
Within(S, p) == {c \in S : PlaylistOf(c) = p}

(* What the loop over the sessions knows of the lobbies it has counted: the *)
(* total, and the total of each playlist somebody plays.                    *)
Counts == [players : Nat, playlists : UNION {[D -> Nat] : D \in SUBSET Titles}]

Counted(pop, S) ==
  /\ pop \in Counts
  /\ pop.players = PlayersOf(S)
  /\ DOMAIN pop.playlists = {p \in Titles : PlayersOf(Within(S, p)) > 0}
  /\ \A p \in DOMAIN pop.playlists : pop.playlists[p] = PlayersOf(Within(S, p))

(* What an advertisement is read for                                        *)
Readable == \A c \in Advertising : Crew(c) \in Nat /\ PlaylistOf(c) \in Titles

LEMMA CountIsCount ==
  ASSUME NEW c, Crew(c) \in Nat, PlaylistOf(c) \in Titles, NEW pop \in Counts
  PROVE  /\ CountLobby(pop, c) \in Counts
         /\ Crew(c) = 0 => CountLobby(pop, c) = pop
         /\ Crew(c) # 0 =>
              LET new == CountLobby(pop, c)
                  p == PlaylistOf(c)
              IN  /\ new.players = pop.players + Crew(c)
                  /\ DOMAIN new.playlists = DOMAIN pop.playlists \cup {p}
                  /\ \A r \in DOMAIN pop.playlists :
                       r # p => new.playlists[r] = pop.playlists[r]
                  /\ new.playlists[p] =
                       (IF p \in DOMAIN pop.playlists THEN pop.playlists[p]
                                                      ELSE 0) + Crew(c)
<1> DEFINE p == PlaylistOf(c)
           before == IF p \in DOMAIN pop.playlists THEN pop.playlists[p] ELSE 0
           lists == [r \in DOMAIN pop.playlists \cup {p} |->
                       IF r = p THEN before + Crew(c) ELSE pop.playlists[r]]
           new == [players |-> pop.players + Crew(c), playlists |-> lists]
<1>1. CountLobby(pop, c) = IF Crew(c) = 0 THEN pop ELSE new
  BY DEF CountLobby, Crew, PlaylistOf
<1>2. PICK D \in SUBSET Titles : pop.playlists \in [D -> Nat]
  BY DEF Counts
<1>3. DOMAIN pop.playlists = D /\ \A r \in D : pop.playlists[r] \in Nat
  BY <1>2
<1>4. before \in Nat
  BY <1>3
<1> HIDE DEF before
<1>5. lists \in [D \cup {p} -> Nat] /\ D \cup {p} \in SUBSET Titles
  BY <1>3, <1>4
<1>6. pop.players \in Nat
  BY DEF Counts
<1>7. new \in Counts
  <2> HIDE DEF lists, p
  <2>1. lists \in UNION {[E -> Nat] : E \in SUBSET Titles}
    BY <1>5
  <2> QED  BY <1>6, <2>1 DEF Counts
<1>8. CountLobby(pop, c) \in Counts
  BY <1>1, <1>7
<1>9. ASSUME Crew(c) # 0
      PROVE  CountLobby(pop, c) = new
  BY <1>1, <1>9
<1>10. /\ DOMAIN lists = DOMAIN pop.playlists \cup {p}
       /\ \A r \in DOMAIN pop.playlists : r # p => lists[r] = pop.playlists[r]
       /\ lists[p] = before + Crew(c)
  OBVIOUS
<1>11. new.players = pop.players + Crew(c) /\ new.playlists = lists
  OBVIOUS
<1> HIDE DEF lists, new
<1> QED  BY <1>1, <1>8, <1>9, <1>10, <1>11 DEF before

LEMMA CountStep ==
  ASSUME IsFiniteSet(Advertising), Readable,
         NEW S \in SUBSET Advertising, NEW c \in Advertising \ S,
         NEW pop, Counted(pop, S)
  PROVE  Counted(CountLobby(pop, c), S \cup {c})
<1> DEFINE new == CountLobby(pop, c)
           p == PlaylistOf(c)
<1>1. Crew(c) \in Nat /\ p \in Titles /\ pop \in Counts
  BY DEF Readable, Counted
<1>2. new \in Counts
  BY <1>1, CountIsCount
<1>3. PlayersOf(S \cup {c}) = PlayersOf(S) + Crew(c)
  BY PlayersAddOne DEF Readable
<1>4. PlayersOf(S) \in Nat
  BY PlayersAdd DEF Readable
<1>5. PlayersOf(Within(S \cup {c}, p)) = PlayersOf(Within(S, p)) + Crew(c)
  <2>1. Within(S \cup {c}, p) = Within(S, p) \cup {c}
    BY DEF Within
  <2>2. Within(S, p) \in SUBSET Advertising /\ c \notin Within(S, p)
    BY DEF Within
  <2> QED  BY <2>1, <2>2, PlayersAddOne DEF Readable
<1>6. ASSUME NEW r, r # p
      PROVE  Within(S \cup {c}, r) = Within(S, r)
  BY <1>6 DEF Within
<1>7. ASSUME NEW r PROVE PlayersOf(Within(S, r)) \in Nat
  <2>1. Within(S, r) \in SUBSET Advertising
    BY DEF Within
  <2> QED  BY <2>1, PlayersAdd DEF Readable
<1>8. CASE Crew(c) = 0
  <2>1. new = pop
    BY <1>1, <1>8, CountIsCount
  <2>2. PlayersOf(S \cup {c}) = PlayersOf(S)
    BY <1>3, <1>4, <1>8
  <2>3. PlayersOf(Within(S \cup {c}, p)) = PlayersOf(Within(S, p))
    BY <1>5, <1>7, <1>8
  <2>4. \A r : PlayersOf(Within(S \cup {c}, r)) = PlayersOf(Within(S, r))
    BY <1>6, <2>3
  <2> HIDE DEF new, p
  <2> QED  BY <2>1, <2>2, <2>4 DEF Counted, new
<1>9. CASE Crew(c) # 0
  <2>1. /\ new.players = pop.players + Crew(c)
        /\ DOMAIN new.playlists = DOMAIN pop.playlists \cup {p}
        /\ \A r \in DOMAIN pop.playlists :
             r # p => new.playlists[r] = pop.playlists[r]
        /\ new.playlists[p] =
             (IF p \in DOMAIN pop.playlists THEN pop.playlists[p] ELSE 0)
             + Crew(c)
    BY <1>1, <1>9, CountIsCount
  <2> HIDE DEF new, p
  <2>2. new.players = PlayersOf(S \cup {c})
    BY <1>3, <2>1 DEF Counted
  <2>3. ASSUME NEW r \in Titles
        PROVE  (r \in DOMAIN new.playlists) <=>
                 PlayersOf(Within(S \cup {c}, r)) > 0
    <3>1. CASE r = p
      <4>1. PlayersOf(Within(S, p)) + Crew(c) > 0
        BY <1>1, <1>7, <1>9
      <4> QED  BY <1>5, <2>1, <3>1, <4>1
    <3>2. CASE r # p
      <4>1. PlayersOf(Within(S \cup {c}, r)) = PlayersOf(Within(S, r))
        BY <1>6, <3>2
      <4>2. (r \in DOMAIN new.playlists) <=> (r \in DOMAIN pop.playlists)
        BY <2>1, <3>2
      <4> QED  BY <4>1, <4>2 DEF Counted
    <3> QED  BY <3>1, <3>2
  <2>4. DOMAIN new.playlists \subseteq Titles
    BY <1>1, <2>1 DEF Counted
  <2>5. DOMAIN new.playlists =
          {r \in Titles : PlayersOf(Within(S \cup {c}, r)) > 0}
    BY <2>3, <2>4
  <2>6. ASSUME NEW r \in DOMAIN new.playlists
        PROVE  new.playlists[r] = PlayersOf(Within(S \cup {c}, r))
    <3>1. CASE r = p /\ p \in DOMAIN pop.playlists
      BY <1>5, <2>1, <3>1 DEF Counted
    <3>2. CASE r = p /\ p \notin DOMAIN pop.playlists
      <4>1. ~(PlayersOf(Within(S, p)) > 0)
        BY <1>1, <3>2 DEF Counted
      <4>2. PlayersOf(Within(S, p)) = 0
        BY <1>7, <4>1
      <4> QED  BY <1>5, <2>1, <3>2, <4>2
    <3>3. CASE r # p
      <4>1. r \in DOMAIN pop.playlists /\ new.playlists[r] = pop.playlists[r]
        BY <2>1, <3>3
      <4>2. PlayersOf(Within(S \cup {c}, r)) = PlayersOf(Within(S, r))
        BY <1>6, <3>3
      <4> QED  BY <4>1, <4>2 DEF Counted
    <3> QED  BY <3>1, <3>2, <3>3
  <2>7. Counted(new, S \cup {c})
    BY <1>2, <2>2, <2>5, <2>6 DEF Counted
  <2> QED  BY <2>7 DEF new
<1> QED  BY <1>8, <1>9

LEMMA PopulationCounted ==
  ASSUME IsFiniteSet(Advertising), Readable, NEW n \in Nat,
         NEW order \in [1..n -> Advertising],
         \A i, j \in 1..n : i # j => order[i] # order[j]
  PROVE  Counted(Population(order), {order[i] : i \in 1..n})
<1> DEFINE Loop(iter) == iter = [s \in SUBSET (1..n) |->
             IF s = {} THEN EmptyPopulation
             ELSE LET x == Max(s) IN CountLobby(iter[s \ {x}], order[x])]
           run == CHOOSE iter : Loop(iter)
           F == [i \in 1..n |-> [v \in Counts |-> CountLobby(v, order[i])]]
<1>1. Population(order) = run[1..n]
  <2>1. DOMAIN order = 1..n
    OBVIOUS
  <2> QED  BY <2>1 DEF Population, FoldLeft, MapThenFoldSet
<1>2. /\ EmptyPopulation \in Counts
      /\ EmptyPopulation.players = 0
      /\ DOMAIN EmptyPopulation.playlists = {}
  <2>1. [p \in {} |-> 0] \in [{} -> Nat] /\ {} \in SUBSET Titles
    OBVIOUS
  <2>2. [p \in {} |-> 0] \in UNION {[D -> Nat] : D \in SUBSET Titles}
    BY <2>1
  <2>3. DOMAIN [p \in {} |-> 0] = {}
    OBVIOUS
  <2> QED  BY <2>2, <2>3 DEF EmptyPopulation, Counts
<1>3. \E iter : Loop(iter)
  <2>1. ASSUME NEW i \in 1..n, NEW v \in Counts
        PROVE  CountLobby(v, order[i]) \in Counts
    <3>1. order[i] \in Advertising
      OBVIOUS
    <3>2. Crew(order[i]) \in Nat /\ PlaylistOf(order[i]) \in Titles
      BY <3>1 DEF Readable
    <3> QED  BY <3>2, CountIsCount
  <2>2. F \in [1..n -> [Counts -> Counts]]
    BY <2>1
  <2> HIDE DEF F
  <2>3. PICK iter \in [SUBSET (1..n) -> Counts] :
          IsFold(iter, 1..n, EmptyPopulation, LastOf(n), F)
    BY <1>2, <2>2, LoopExists
  <2>4. ASSUME NEW s \in SUBSET (1..n), s # {}
        PROVE  iter[s] = CountLobby(iter[s \ {Max(s)}], order[Max(s)])
    <3>1. Max(s) \in 1..n /\ s \ {Max(s)} \in SUBSET (1..n)
      BY <2>4, MaxIsIn
    <3>2. LastOf(n)[s] = Max(s)
      BY DEF LastOf
    <3>3. iter[s] = F[Max(s)][iter[s \ {Max(s)}]]
      BY <2>3, <2>4, <3>2 DEF IsFold
    <3>4. iter[s \ {Max(s)}] \in Counts
      BY <2>3, <3>1
    <3> QED  BY <3>1, <3>3, <3>4 DEF F
  <2>5. iter[{}] = EmptyPopulation
    BY <2>3 DEF IsFold
  <2>6. iter = [s \in SUBSET (1..n) |-> iter[s]]
    BY <2>3
  <2>7. Loop(iter)
    BY <2>4, <2>5, <2>6
  <2> HIDE DEF Loop
  <2> QED  BY <2>7
<1>4. Loop(run)
  <2> HIDE DEF Loop
  <2> QED  BY <1>3
<1> HIDE DEF run
<1>5. run[1..0] = EmptyPopulation
  <2>1. 1..0 = {}
    OBVIOUS
  <2> QED  BY <1>4, <2>1
<1>6. ASSUME NEW k \in 1..n
      PROVE  run[1..k] = CountLobby(run[1..(k - 1)], order[k])
  <2>1. 1..k \in SUBSET (1..n) /\ 1..k # {}
    BY MaxOfPrefix
  <2>2. Max(1..k) = k /\ (1..k) \ {Max(1..k)} = 1..(k - 1)
    BY MaxOfPrefix
  <2>3. run[1..k] = CountLobby(run[(1..k) \ {Max(1..k)}], order[Max(1..k)])
    BY <1>4, <2>1
  <2> QED  BY <2>2, <2>3
<1> DEFINE First(k) == {order[i] : i \in 1..k}
           T == {k \in Nat : k <= n => Counted(run[1..k], First(k))}
<1>7. 0 \in T
  <2>1. First(0) = {} /\ \A p : Within({}, p) = {}
    BY DEF Within
  <2>2. PlayersOf({}) = 0
    BY PlayersAdd DEF Readable
  <2>3. {p \in Titles : PlayersOf(Within({}, p)) > 0} = {}
    <3>1. \A p : PlayersOf(Within({}, p)) = 0
      <4>1. \A p : Within({}, p) = {}
        BY <2>1
      <4> HIDE DEF First, T, F, Loop
      <4> QED  BY <2>2, <4>1
    <3>2. ~(0 > 0)
      OBVIOUS
    <3> QED  BY <3>1, <3>2
  <2> HIDE DEF First
  <2>4. Counted(EmptyPopulation, {})
    BY <1>2, <2>2, <2>3 DEF Counted
  <2> QED  BY <1>5, <2>1, <2>4
<1>8. ASSUME NEW k \in Nat, k \in T
      PROVE  k + 1 \in T
  <2> SUFFICES ASSUME k + 1 <= n
               PROVE  Counted(run[1..(k + 1)], First(k + 1))
    OBVIOUS
  <2>1. k + 1 \in 1..n /\ (k + 1) - 1 = k
    OBVIOUS
  <2>2. First(k) \in SUBSET Advertising
    OBVIOUS
  <2>3. order[k + 1] \in Advertising \ First(k)
    <3>1. \A i \in 1..k : i \in 1..n /\ i # k + 1
      OBVIOUS
    <3> QED  BY <2>1, <3>1
  <2>4. First(k + 1) = First(k) \cup {order[k + 1]}
    <3>1. \A i : i \in 1..(k + 1) <=> (i \in 1..k \/ i = k + 1)
      OBVIOUS
    <3> QED  BY <3>1
  <2>5. Counted(run[1..k], First(k))
    BY <1>8
  <2>6. run[1..(k + 1)] = CountLobby(run[1..k], order[k + 1])
    BY <1>6, <2>1
  <2> HIDE DEF First, T
  <2> QED  BY <2>2, <2>3, <2>4, <2>5, <2>6, CountStep
<1> HIDE DEF T
<1>9. n \in T
  BY <1>7, <1>8, SetInduction
<1> QED  BY <1>1, <1>9 DEF T

LEMMA PopulationAdds ==
  ASSUME IsFiniteSet(Advertising), Readable
  PROVE  PopulationAddsUp
<1> SUFFICES ASSUME NEW order \in Orders
             PROVE  Counted(Population(order), Advertising)
  BY DEF PopulationAddsUp, Counted, Within, PlaylistOf
<1> DEFINE n == Cardinality(Advertising)
<1>1. /\ n \in Nat /\ order \in [1..n -> Advertising]
      /\ \A i, j \in 1..n : i # j => order[i] # order[j]
      /\ \A d \in Advertising : \E i \in 1..n : order[i] = d
  BY OrderFacts
<1> HIDE DEF n
<1>2. {order[i] : i \in 1..n} = Advertising
  BY <1>1
<1> QED  BY <1>1, <1>2, PopulationCounted

-----------------------------------------------------------------------------
(* The answers in every reachable state                                     *)

(* A server has finitely many lobbies at any time, however many connections *)
(* there may ever be: every method opens at most one.                       *)
FiniteLobbies == IsFiniteSet(Advertising)

LEMMA StepKeepsFinite ==
  IInv /\ FiniteLobbies /\ [Next]_vars => FiniteLobbies'
<1> SUFFICES ASSUME IInv, FiniteLobbies, [Next]_vars
             PROVE  IsFiniteSet(Advertising')
  BY DEF FiniteLobbies
<1>1. ASSUME NEW c \in Connections, NEW l,
             sessions' = [sessions EXCEPT ![c] = l]
      PROVE  IsFiniteSet(Advertising')
  <2>1. Advertising' \in SUBSET (Advertising \cup {c})
    BY <1>1 DEF Advertising, IInv, TypeOK
  <2>2. IsFiniteSet(Advertising \cup {c})
    BY FS_AddElement DEF FiniteLobbies
  <2> QED  BY <2>1, <2>2, FS_Subset
<1>2. CASE sessions' = sessions
  <2>1. Advertising' = Advertising
    BY <1>2 DEF Advertising
  <2> QED  BY <2>1 DEF FiniteLobbies
<1>3. CASE Directory!Next
  <2>1. \E c \in Connections : \E l : sessions' = [sessions EXCEPT ![c] = l]
    BY <1>3 DEF Directory!Next, Directory!Open, Directory!Readvertise,
                Directory!Close
  <2> QED  BY <1>1, <2>1
<1> QED  BY <1>2, <1>3, StepRefines

LEMMA InitFinite == Init => FiniteLobbies
<1> SUFFICES ASSUME Init PROVE Advertising = {}
  BY FS_EmptySet DEF FiniteLobbies
<1> QED  BY DEF Init, Advertising

LEMMA AlwaysFinite == Spec => []FiniteLobbies
BY InitFinite, StepKeepsFinite, AlwaysIInv, PTL DEF Spec

(* The slot counts and the playlist of every lobby can be read.             *)
LEMMA LobbiesReadable ==
  ASSUME TypeOK, AdsAssumption
  PROVE  Readable
<1> SUFFICES ASSUME NEW c \in Advertising
             PROVE  Crew(c) \in Nat /\ PlaylistOf(c) \in Titles
  BY DEF Readable
<1>1. sessions[c] \in Lobby
  BY DEF TypeOK, Advertising
<1>2. sessions[c].ad \in Ad
  BY <1>1 DEF Lobby, AdsAssumption
<1>3. /\ sessions[c].ad.used_public \in Int /\ sessions[c].ad.used_private \in Int
      /\ sessions[c].ad.title[1] \in Titles
  BY <1>2 DEF Ad
<1>4. ASSUME NEW n \in Int PROVE Raise(n) \in Nat
  BY DEF Raise
<1> QED  BY <1>3, <1>4 DEF Crew, Players, PlaylistOf, Playlist

(* In every reachable state and for every order of the map, a search lists  *)
(* only lobbies that can be joined and hides no address but by its limit,   *)
(* and the population page counts every player once: for any number of      *)
(* clients, advertisements and queries.                                     *)
THEOREM SearchesAnswerExactly ==
  ASSUME AdsAssumption, QueriesAssumption
  PROVE  Spec => []AnswersAreExact
<1>1. IInv /\ FiniteLobbies => AnswersAreExact
  BY SearchesList, SearchesMissNothing, PopulationAdds, LobbiesReadable
     DEF IInv, FiniteLobbies, AnswersAreExact
<1> QED  BY <1>1, AlwaysIInv, AlwaysFinite, PTL
=============================================================================
