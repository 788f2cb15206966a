-------------------------- MODULE LobbyServerProofs --------------------------
(***************************************************************************)
(* What holds of the lobby server for any connections, users, lobbies,      *)
(* groups and presences.                                                    *)
(*                                                                         *)
(* The server is proved about service by service: to each of them a step of *)
(* the server is one step of its own or none (StepOfRegistry and the others *)
(* like it), so what its module keeps to on its own it keeps to in the      *)
(* server (ServicesKeep).  What relates the services to the threads -       *)
(* NothingUnsigned and CallbacksCleanUp - is proved of the server's own     *)
(* steps.                                                                   *)
(*                                                                         *)
(* The group service comes first, for every finite set of connections.      *)
(* Swapping a list leaves the members of every group as they are, for a     *)
(* pending join is no member yet and a pending leave still is one; the      *)
(* second section changes members and count together.  That it counts up    *)
(* only those who join, and nobody down at the same time, is PendingFits;   *)
(* that it counts down by one and only those who leave, while no client     *)
(* repeats a group, is Unrepeated.                                          *)
(***************************************************************************)
EXTENDS LobbyServer, Sequences, FiniteSetTheorems, TLAPS

-----------------------------------------------------------------------------
(* The group service                                                        *)

(* Sizes mean the same inside the instance as here.                         *)
LEMMA SameSizes ==
  \A S : /\ GroupSvc!Cardinality(S) = Cardinality(S)
         /\ GroupSvc!IsFiniteSet(S) <=> IsFiniteSet(S)
BY DEF GroupSvc!Cardinality, Cardinality, GroupSvc!IsFiniteSet, IsFiniteSet

GroupShape ==
  /\ session_groups \in [Connections -> GroupSvc!List \cup {None}]
  /\ aggregated_group_counts \in [Groups -> Nat \cup {None}]
  /\ pending \in [Connections -> GroupSvc!Adjustment \cup {None}]
  /\ wrong \in BOOLEAN
  /\ repeated \in BOOLEAN

PendingFits ==
  \A c \in Connections, g \in Groups :
    pending[c] # None /\ g \in pending[c].up =>
      g \in GroupSvc!GroupsOf(session_groups[c]) /\ pending[c].down[g] = 0

Unrepeated ==
  ~repeated =>
    \A c \in Connections, g \in Groups :
      /\ session_groups[c] # None => session_groups[c][g] <= 1
      /\ pending[c] # None /\ pending[c].down[g] > 0 =>
           pending[c].down[g] = 1 /\ g \notin GroupSvc!GroupsOf(session_groups[c])

GroupIInv == GroupShape /\ PendingFits /\ Unrepeated /\ GroupSvc!CountsNeverOverstate
          /\ GroupSvc!CountsExactWithoutRepeats

(* The members of a group are finitely many, at most all connections.       *)
LEMMA MembersFinite ==
  ASSUME GroupSvc!GroupAssumption, NEW g \in Groups
  PROVE  /\ IsFiniteSet(GroupSvc!Members(g))
         /\ GroupSvc!Cardinality(GroupSvc!Members(g)) \in Nat
         /\ GroupSvc!Cardinality(GroupSvc!Members(g)) <= GroupSvc!Cardinality(Connections)
<1>1. GroupSvc!Members(g) \in SUBSET Connections
  BY DEF GroupSvc!Members
<1> QED  BY <1>1, FS_Subset, FS_CardinalityType, SameSizes
            DEF GroupSvc!GroupAssumption

(* Nobody is a member at first, and nobody is counted.                      *)
LEMMA GroupInit ==
  ASSUME GroupSvc!GroupAssumption, GroupSvc!Init
  PROVE  GroupIInv
<1> USE DEF GroupSvc!Init, GroupSvc!GroupAssumption
<1>1. GroupShape
  BY DEF GroupShape
<1>2. PendingFits /\ Unrepeated
  BY DEF PendingFits, Unrepeated
<1>3. ASSUME NEW g \in Groups
      PROVE  GroupSvc!GetGroupCount(g) = 0 /\ GroupSvc!Cardinality(GroupSvc!Members(g)) = 0
  <2>1. GroupSvc!Members(g) = {}
    BY <1>3 DEF GroupSvc!Members, GroupSvc!GroupsOf
  <2> QED  BY <1>3, <2>1, FS_EmptySet, SameSizes DEF GroupSvc!GetGroupCount
<1> QED  BY <1>1, <1>2, <1>3
         DEF GroupIInv, GroupSvc!CountsNeverOverstate,
             GroupSvc!CountsExactWithoutRepeats

-----------------------------------------------------------------------------
(* While neither counts nor members change, counts stay right.              *)
LEMMA SameCounts ==
  ASSUME GroupIInv, UNCHANGED <<aggregated_group_counts, wrong>>,
         repeated => repeated',
         \A g \in Groups : GroupSvc!Members(g)' = GroupSvc!Members(g)
  PROVE  GroupSvc!CountsNeverOverstate' /\ GroupSvc!CountsExactWithoutRepeats'
  BY DEF GroupIInv, GroupSvc!CountsNeverOverstate,
         GroupSvc!CountsExactWithoutRepeats, GroupSvc!GetGroupCount

(* set_groups, first section                                                *)
LEMMA SetGroupsStep ==
  ASSUME GroupSvc!GroupAssumption, GroupIInv,
         NEW c \in Connections, NEW list \in GroupSvc!List, GroupSvc!SetGroups(c, list)
  PROVE  GroupIInv'
<1> DEFINE previous == GroupSvc!GroupsOf(session_groups[c])
           adj == [up |-> GroupSvc!NewGroups(list, previous),
                   down |-> GroupSvc!Once(GroupSvc!LeftGroups(list, previous)),
                   strict |-> FALSE]
<1>1. /\ session_groups' = [session_groups EXCEPT ![c] = list]
      /\ pending' = [pending EXCEPT ![c] = adj]
      /\ pending[c] = None
      /\ UNCHANGED <<aggregated_group_counts, wrong>>
      /\ repeated' = \/ repeated
                     \/ GroupSvc!GroupsOf(list) \cap previous # {}
                     \/ \E g \in Groups : list[g] > 1
  BY DEF GroupSvc!SetGroups
<1>2. adj.up = GroupSvc!GroupsOf(list) \ previous /\ adj.strict = FALSE
  BY DEF GroupSvc!NewGroups
<1>3. \A g \in Groups : adj.down[g] = IF g \in previous THEN 1 ELSE 0
  BY DEF GroupSvc!Once, GroupSvc!LeftGroups, GroupSvc!NewGroups
<1>4. list # None /\ GroupSvc!GroupsOf(list) = {g \in Groups : list[g] > 0}
  BY DEF GroupSvc!GroupsOf, GroupSvc!GroupAssumption
<1>5. adj \in GroupSvc!Adjustment
  <2>1. adj.down \in GroupSvc!List
    BY DEF GroupSvc!Once, GroupSvc!List, GroupSvc!GroupAssumption
  <2>2. adj.up \in SUBSET Groups
    BY <1>2, <1>4
  <2> QED  BY <2>1, <2>2 DEF GroupSvc!Adjustment
<1>6. adj # None
  BY <1>5 DEF GroupSvc!GroupAssumption
<1> HIDE DEF adj
<1>7. GroupShape'
  BY <1>1, <1>5 DEF GroupIInv, GroupShape
<1>8. /\ session_groups'[c] = list /\ pending'[c] = adj
      /\ \A d \in Connections \ {c} :
           session_groups'[d] = session_groups[d] /\ pending'[d] = pending[d]
  BY <1>1 DEF GroupIInv, GroupShape
<1>9. PendingFits'
  BY <1>2, <1>3, <1>8 DEF GroupIInv, PendingFits
<1>10. Unrepeated'
  <2> SUFFICES ASSUME ~repeated', NEW d \in Connections, NEW g \in Groups
               PROVE  /\ session_groups'[d] # None => session_groups'[d][g] <= 1
                      /\ pending'[d] # None /\ pending'[d].down[g] > 0 =>
                           /\ pending'[d].down[g] = 1
                           /\ g \notin GroupSvc!GroupsOf(session_groups'[d])
    BY DEF Unrepeated, GroupSvc!GroupsOf
  <2>1. CASE d # c
    BY <2>1, <1>1, <1>8 DEF GroupIInv, Unrepeated
  <2>2. CASE d = c
    <3>1. list[g] <= 1
      <4>1. list[g] \in Nat /\ ~(list[g] > 1)
        BY <1>1 DEF GroupSvc!List, GroupSvc!GroupAssumption
      <4> QED  BY <4>1
    <3>2. g \notin previous \/ g \notin GroupSvc!GroupsOf(list)
      BY <1>1
    <3> QED  BY <2>2, <3>1, <3>2, <1>3, <1>8
  <2> QED  BY <2>1, <2>2
<1>11. ASSUME NEW g \in Groups
       PROVE  GroupSvc!Members(g)' = GroupSvc!Members(g)
  <2>1. \A d \in Connections \ {c} : d \in GroupSvc!Members(g)' <=> d \in GroupSvc!Members(g)
    BY <1>8 DEF GroupSvc!Members, GroupSvc!GroupsOf
  <2>2. c \in GroupSvc!Members(g) <=> g \in previous
    BY <1>1 DEF GroupSvc!Members
  <2>3. c \in GroupSvc!Members(g)' <=> adj.down[g] > 0 \/ (g \in GroupSvc!GroupsOf(list) /\ g \notin adj.up)
    BY <1>6, <1>8 DEF GroupSvc!Members, GroupSvc!GroupsOf
  <2>4. c \in GroupSvc!Members(g)' <=> g \in previous
    BY <2>3, <1>2, <1>3, <1>11
  <2> QED  BY <2>1, <2>2, <2>4 DEF GroupSvc!Members
<1> QED  BY <1>1, <1>7, <1>9, <1>10, <1>11, SameCounts DEF GroupIInv

(* The disconnect callback, first section                                   *)
LEMMA RemoveAllGroupsStep ==
  ASSUME GroupSvc!GroupAssumption, GroupIInv, NEW c \in Connections, GroupSvc!RemoveAllGroups(c)
  PROVE  GroupIInv'
<1> DEFINE adj == [up |-> {}, down |-> session_groups[c], strict |-> TRUE]
<1>1. /\ session_groups' = [session_groups EXCEPT ![c] = None]
      /\ pending' = [pending EXCEPT ![c] = adj]
      /\ pending[c] = None /\ session_groups[c] # None
      /\ UNCHANGED <<aggregated_group_counts, wrong, repeated>>
  BY DEF GroupSvc!RemoveAllGroups
<1>2. session_groups[c] \in GroupSvc!List
  BY <1>1 DEF GroupIInv, GroupShape
<1>3. adj \in GroupSvc!Adjustment
  BY <1>2 DEF GroupSvc!Adjustment
<1>4. adj # None /\ adj.up = {} /\ adj.down = session_groups[c]
  BY <1>3 DEF GroupSvc!GroupAssumption
<1> HIDE DEF adj
<1>5. GroupShape'
  BY <1>1, <1>3 DEF GroupIInv, GroupShape
<1>6. /\ session_groups'[c] = None /\ pending'[c] = adj
      /\ \A d \in Connections \ {c} :
           session_groups'[d] = session_groups[d] /\ pending'[d] = pending[d]
  BY <1>1 DEF GroupIInv, GroupShape
<1>7. PendingFits'
  BY <1>4, <1>6 DEF GroupIInv, PendingFits
<1>8. Unrepeated'
  <2> SUFFICES ASSUME ~repeated', NEW d \in Connections, NEW g \in Groups
               PROVE  /\ session_groups'[d] # None => session_groups'[d][g] <= 1
                      /\ pending'[d] # None /\ pending'[d].down[g] > 0 =>
                           /\ pending'[d].down[g] = 1
                           /\ g \notin GroupSvc!GroupsOf(session_groups'[d])
    BY DEF Unrepeated, GroupSvc!GroupsOf
  <2>1. CASE d # c
    BY <2>1, <1>1, <1>6 DEF GroupIInv, Unrepeated
  <2>2. CASE d = c
    <3>1. session_groups[c][g] \in Nat /\ session_groups[c][g] <= 1
      BY <1>1, <1>2
         DEF GroupIInv, Unrepeated, GroupSvc!List, GroupSvc!GroupAssumption
    <3> QED  BY <2>2, <3>1, <1>4, <1>6 DEF GroupSvc!GroupsOf
  <2> QED  BY <2>1, <2>2
<1>9. ASSUME NEW g \in Groups
      PROVE  GroupSvc!Members(g)' = GroupSvc!Members(g)
  <2>1. \A d \in Connections \ {c} : d \in GroupSvc!Members(g)' <=> d \in GroupSvc!Members(g)
    BY <1>6 DEF GroupSvc!Members, GroupSvc!GroupsOf
  <2>2. c \in GroupSvc!Members(g) <=> session_groups[c][g] > 0
    BY <1>1, <1>9 DEF GroupSvc!Members, GroupSvc!GroupsOf
  <2>3. c \in GroupSvc!Members(g)' <=> session_groups[c][g] > 0
    BY <1>4, <1>6 DEF GroupSvc!Members, GroupSvc!GroupsOf
  <2> QED  BY <2>1, <2>2, <2>3 DEF GroupSvc!Members
<1> QED  BY <1>1, <1>5, <1>7, <1>8, <1>9, SameCounts DEF GroupIInv

-----------------------------------------------------------------------------
(* What one counter is said to be after an adjustment                       *)
LEMMA AdjustedCount ==
  ASSUME GroupSvc!GroupAssumption, NEW count \in Nat \cup {None},
         NEW adj \in GroupSvc!Adjustment, NEW g \in Groups
  PROVE  LET known == IF count = None THEN 0 ELSE count
             up == IF g \in adj.up THEN known + 1 ELSE known
             after == GroupSvc!Adjusted(count, adj, g)
         IN  /\ after \in Nat \cup {None}
             /\ (IF after = None THEN 0 ELSE after) =
                  IF up > adj.down[g] THEN up - adj.down[g] ELSE 0
<1>1. adj.down[g] \in Nat
  BY DEF GroupSvc!Adjustment, GroupSvc!List, GroupSvc!GroupAssumption
<1> QED  BY <1>1 DEF GroupSvc!Adjusted, GroupSvc!GroupAssumption

(* The second section, seen from one group: who joins is counted up, who    *)
(* leaves is counted down at least once, and everybody else stays.          *)
LEMMA AdjustCountsOfGroup ==
  ASSUME GroupSvc!GroupAssumption, GroupIInv, NEW c \in Connections, GroupSvc!AdjustCounts(c),
         NEW g \in Groups
  PROVE  LET n == GroupSvc!Cardinality(GroupSvc!Members(g))
             adj == pending[c]
         IN  /\ g \in adj.up =>
                  /\ GroupSvc!Cardinality(GroupSvc!Members(g)') = n + 1
                  /\ GroupSvc!GetGroupCount(g)' = GroupSvc!GetGroupCount(g) + 1
             /\ g \notin adj.up /\ adj.down[g] = 0 =>
                  /\ GroupSvc!Cardinality(GroupSvc!Members(g)') = n
                  /\ GroupSvc!GetGroupCount(g)' = GroupSvc!GetGroupCount(g)
             /\ adj.down[g] > 0 =>
                  /\ g \notin adj.up
                  /\ n > 0
                  /\ GroupSvc!Cardinality(GroupSvc!Members(g)') =
                       IF g \in GroupSvc!GroupsOf(session_groups[c]) THEN n ELSE n - 1
                  /\ GroupSvc!GetGroupCount(g)' =
                       IF GroupSvc!GetGroupCount(g) > adj.down[g]
                       THEN GroupSvc!GetGroupCount(g) - adj.down[g] ELSE 0
<1> DEFINE n == GroupSvc!Cardinality(GroupSvc!Members(g))
           adj == pending[c]
<1>1. /\ adj # None
      /\ aggregated_group_counts' =
           [h \in Groups |-> GroupSvc!Adjusted(aggregated_group_counts[h], adj, h)]
      /\ pending' = [pending EXCEPT ![c] = None]
      /\ UNCHANGED session_groups
  BY DEF GroupSvc!AdjustCounts
<1>2. adj \in GroupSvc!Adjustment /\ adj.down[g] \in Nat
  BY <1>1
     DEF GroupIInv, GroupShape, GroupSvc!Adjustment, GroupSvc!List,
         GroupSvc!GroupAssumption
<1>3. aggregated_group_counts[g] \in Nat \cup {None}
  BY DEF GroupIInv, GroupShape
<1>4. GroupSvc!GetGroupCount(g) \in Nat
  BY <1>3 DEF GroupSvc!GetGroupCount
<1>5. GroupSvc!GetGroupCount(g)' =
        LET up == IF g \in adj.up THEN GroupSvc!GetGroupCount(g) + 1
                  ELSE GroupSvc!GetGroupCount(g)
        IN  IF up > adj.down[g] THEN up - adj.down[g] ELSE 0
  <2>1. aggregated_group_counts'[g] =
          GroupSvc!Adjusted(aggregated_group_counts[g], adj, g)
    BY <1>1
  <2> QED  BY <1>2, <1>3, <2>1, AdjustedCount DEF GroupSvc!GetGroupCount
<1>6. g \in adj.up => g \in GroupSvc!GroupsOf(session_groups[c]) /\ adj.down[g] = 0
  BY <1>1 DEF GroupIInv, PendingFits
<1>7. c \in GroupSvc!Members(g) <=>
        adj.down[g] > 0 \/ (g \in GroupSvc!GroupsOf(session_groups[c]) /\ g \notin adj.up)
  BY <1>1 DEF GroupSvc!Members
<1>8. c \in GroupSvc!Members(g)' <=> g \in GroupSvc!GroupsOf(session_groups[c])
  BY <1>1 DEF GroupSvc!Members, GroupSvc!GroupsOf, GroupIInv, GroupShape
<1>9. \A d \in Connections \ {c} : d \in GroupSvc!Members(g)' <=> d \in GroupSvc!Members(g)
  BY <1>1 DEF GroupSvc!Members, GroupSvc!GroupsOf, GroupIInv, GroupShape
<1>10. GroupSvc!Members(g) \subseteq Connections /\ GroupSvc!Members(g)' \subseteq Connections
  BY DEF GroupSvc!Members
<1>11. IsFiniteSet(GroupSvc!Members(g)) /\ n \in Nat
  BY MembersFinite
<1> HIDE DEF adj
<1>12. CASE g \in adj.up
  <2>1. GroupSvc!Members(g)' = GroupSvc!Members(g) \cup {c} /\ c \notin GroupSvc!Members(g)
    BY <1>6, <1>7, <1>8, <1>9, <1>10, <1>12
  <2>2. GroupSvc!Cardinality(GroupSvc!Members(g)') = n + 1
    BY <2>1, <1>11, FS_AddElement, SameSizes
  <2>3. GroupSvc!GetGroupCount(g)' = GroupSvc!GetGroupCount(g) + 1
    BY <1>4, <1>5, <1>6, <1>12
  <2> QED  BY <2>2, <2>3, <1>6, <1>12 DEF adj
<1>13. CASE g \notin adj.up /\ adj.down[g] = 0
  <2>1. GroupSvc!Members(g)' = GroupSvc!Members(g)
    BY <1>7, <1>8, <1>9, <1>10, <1>13
  <2>2. GroupSvc!GetGroupCount(g)' = GroupSvc!GetGroupCount(g)
    BY <1>4, <1>5, <1>13
  <2> QED  BY <2>1, <2>2, <1>13 DEF adj
<1>14. CASE adj.down[g] > 0
  <2>1. g \notin adj.up
    BY <1>2, <1>6, <1>14
  <2>2. c \in GroupSvc!Members(g)
    BY <1>7, <1>14
  <2>3. n > 0
    BY <2>2, <1>11, FS_EmptySet, SameSizes
  <2>4. CASE g \in GroupSvc!GroupsOf(session_groups[c])
    <3>1. GroupSvc!Members(g)' = GroupSvc!Members(g)
      BY <2>2, <2>4, <1>8, <1>9, <1>10
    <3> QED  BY <2>1, <2>3, <2>4, <3>1, <1>5, <1>14 DEF adj
  <2>5. CASE g \notin GroupSvc!GroupsOf(session_groups[c])
    <3>1. GroupSvc!Members(g)' = GroupSvc!Members(g) \ {c}
      BY <2>5, <1>8, <1>9, <1>10
    <3>2. GroupSvc!Cardinality(GroupSvc!Members(g)') = n - 1
      BY <3>1, <2>2, <1>11, FS_RemoveElement, SameSizes
    <3> QED  BY <2>1, <2>3, <2>5, <3>2, <1>5, <1>14 DEF adj
  <2> QED  BY <2>4, <2>5
<1> QED  BY <1>2, <1>12, <1>13, <1>14

(* The second section of either call                                        *)
LEMMA AdjustCountsStep ==
  ASSUME GroupSvc!GroupAssumption, GroupIInv, NEW c \in Connections, GroupSvc!AdjustCounts(c)
  PROVE  GroupIInv'
<1> DEFINE adj == pending[c]
<1>1. /\ adj # None
      /\ aggregated_group_counts' =
           [g \in Groups |-> GroupSvc!Adjusted(aggregated_group_counts[g], adj, g)]
      /\ wrong' = (wrong \/ \E g \in Groups :
                              GroupSvc!LogsWrong(aggregated_group_counts[g], adj, g))
      /\ pending' = [pending EXCEPT ![c] = None]
      /\ UNCHANGED <<session_groups, repeated>>
  BY DEF GroupSvc!AdjustCounts
<1>2. adj \in GroupSvc!Adjustment
  BY <1>1 DEF GroupIInv, GroupShape
<1>3. \A g \in Groups : aggregated_group_counts[g] \in Nat \cup {None}
  BY DEF GroupIInv, GroupShape
<1>4. \A g \in Groups : adj.down[g] \in Nat
  BY <1>2 DEF GroupSvc!Adjustment, GroupSvc!List, GroupSvc!GroupAssumption
<1>5. \A g \in Groups : /\ GroupSvc!GetGroupCount(g) \in Nat
                        /\ GroupSvc!Cardinality(GroupSvc!Members(g)) \in Nat
  BY <1>3, MembersFinite DEF GroupSvc!GetGroupCount
<1> HIDE DEF adj
<1>6. GroupShape'
  <2>1. \A g \in Groups : aggregated_group_counts'[g] \in Nat \cup {None}
    BY <1>1, <1>2, <1>3, AdjustedCount
  <2>2. wrong' \in BOOLEAN
    BY <1>1
  <2>3. pending' \in [Connections -> GroupSvc!Adjustment \cup {None}]
    BY <1>1 DEF GroupIInv, GroupShape
  <2>4. aggregated_group_counts' \in [Groups -> Nat \cup {None}]
    BY <2>1, <1>1
  <2> QED  BY <2>2, <2>3, <2>4, <1>1 DEF GroupIInv, GroupShape
<1>7. \A d \in Connections :
        pending'[d] = IF d = c THEN None ELSE pending[d]
  BY <1>1 DEF GroupIInv, GroupShape
<1>8. PendingFits'
  BY <1>1, <1>7 DEF GroupIInv, PendingFits, GroupSvc!GroupsOf
<1>9. Unrepeated'
  BY <1>1, <1>7 DEF GroupIInv, Unrepeated, GroupSvc!GroupsOf
<1>10. GroupSvc!CountsNeverOverstate'
  <2> SUFFICES ASSUME NEW g \in Groups
               PROVE  GroupSvc!GetGroupCount(g)' <= GroupSvc!Cardinality(GroupSvc!Members(g)')
    BY DEF GroupSvc!CountsNeverOverstate
  <2>1. GroupSvc!GetGroupCount(g) <= GroupSvc!Cardinality(GroupSvc!Members(g))
    BY DEF GroupIInv, GroupSvc!CountsNeverOverstate
  <2>2. CASE g \in adj.up
    BY <2>1, <2>2, <1>5, AdjustCountsOfGroup DEF adj
  <2>3. CASE g \notin adj.up /\ adj.down[g] = 0
    BY <2>1, <2>3, <1>5, AdjustCountsOfGroup DEF adj
  <2>4. CASE adj.down[g] > 0
    <3>1. /\ GroupSvc!Cardinality(GroupSvc!Members(g)) > 0
          /\ GroupSvc!Cardinality(GroupSvc!Members(g)') \in
               {GroupSvc!Cardinality(GroupSvc!Members(g)), GroupSvc!Cardinality(GroupSvc!Members(g)) - 1}
          /\ GroupSvc!GetGroupCount(g)' = IF GroupSvc!GetGroupCount(g) > adj.down[g]
                                 THEN GroupSvc!GetGroupCount(g) - adj.down[g] ELSE 0
      BY <2>4, AdjustCountsOfGroup DEF adj
    <3> QED  BY <3>1, <2>1, <2>4, <1>4, <1>5
  <2> QED  BY <2>2, <2>3, <2>4, <1>4
<1>11. GroupSvc!CountsExactWithoutRepeats'
  <2> SUFFICES ASSUME ~repeated'
               PROVE  /\ ~wrong'
                      /\ \A g \in Groups :
                           GroupSvc!GetGroupCount(g)' = GroupSvc!Cardinality(GroupSvc!Members(g)')
    BY DEF GroupSvc!CountsExactWithoutRepeats
  <2>1. ~repeated /\ ~wrong
    BY <1>1 DEF GroupIInv, GroupSvc!CountsExactWithoutRepeats
  <2>2. ASSUME NEW g \in Groups
        PROVE  /\ ~GroupSvc!LogsWrong(aggregated_group_counts[g], adj, g)
               /\ GroupSvc!GetGroupCount(g)' = GroupSvc!Cardinality(GroupSvc!Members(g)')
    <3>1. GroupSvc!GetGroupCount(g) = GroupSvc!Cardinality(GroupSvc!Members(g))
      BY <2>1 DEF GroupIInv, GroupSvc!CountsExactWithoutRepeats
    <3>2. CASE adj.down[g] > 0
      <4>1. adj.down[g] = 1 /\ g \notin GroupSvc!GroupsOf(session_groups[c])
        BY <2>1, <3>2, <1>1 DEF GroupIInv, Unrepeated, adj
      <4>2. /\ GroupSvc!Cardinality(GroupSvc!Members(g)) > 0
            /\ GroupSvc!Cardinality(GroupSvc!Members(g)') = GroupSvc!Cardinality(GroupSvc!Members(g)) - 1
            /\ GroupSvc!GetGroupCount(g)' = IF GroupSvc!GetGroupCount(g) > adj.down[g]
                                   THEN GroupSvc!GetGroupCount(g) - adj.down[g] ELSE 0
        BY <3>2, <4>1, AdjustCountsOfGroup DEF adj
      <4>3. GroupSvc!GetGroupCount(g)' = GroupSvc!Cardinality(GroupSvc!Members(g)')
        BY <4>1, <4>2, <3>1, <1>5
      <4>4. aggregated_group_counts[g] # None /\ aggregated_group_counts[g] >= 1
        BY <4>2, <3>1, <1>3, <1>5 DEF GroupSvc!GetGroupCount
      <4>5. ~GroupSvc!LogsWrong(aggregated_group_counts[g], adj, g)
        BY <4>1, <4>4, <1>3 DEF GroupSvc!LogsWrong
      <4> QED  BY <4>3, <4>5
    <3>3. CASE adj.down[g] = 0
      <4>1. ~GroupSvc!LogsWrong(aggregated_group_counts[g], adj, g)
        BY <3>3 DEF GroupSvc!LogsWrong
      <4>2. GroupSvc!GetGroupCount(g)' = GroupSvc!Cardinality(GroupSvc!Members(g)')
        BY <3>1, <3>3, AdjustCountsOfGroup DEF adj
      <4> QED  BY <4>1, <4>2
    <3> QED  BY <3>2, <3>3, <1>4
  <2> QED  BY <2>1, <2>2, <1>1
<1> QED  BY <1>6, <1>8, <1>9, <1>10, <1>11 DEF GroupIInv

-----------------------------------------------------------------------------
LEMMA GroupInductive ==
  ASSUME GroupSvc!GroupAssumption
  PROVE  GroupSvc!Spec => []GroupIInv
<1>1. GroupSvc!Init => GroupIInv
  BY GroupInit
<1>2. GroupIInv /\ [GroupSvc!Next]_groupVars => GroupIInv'
  <2> SUFFICES ASSUME GroupIInv, [GroupSvc!Next]_groupVars
               PROVE  GroupIInv'
    OBVIOUS
  <2>1. ASSUME NEW c \in Connections, NEW list \in GroupSvc!List, GroupSvc!SetGroups(c, list)
        PROVE  GroupIInv'
    BY <2>1, SetGroupsStep
  <2>2. ASSUME NEW c \in Connections, GroupSvc!RemoveAllGroups(c)
        PROVE  GroupIInv'
    BY <2>2, RemoveAllGroupsStep
  <2>3. ASSUME NEW c \in Connections, GroupSvc!AdjustCounts(c)
        PROVE  GroupIInv'
    BY <2>3, AdjustCountsStep
  <2>4. CASE UNCHANGED groupVars
    BY <2>4
       DEF groupVars, GroupIInv, GroupShape, PendingFits, Unrepeated,
           GroupSvc!GroupsOf, GroupSvc!Members,
                GroupSvc!CountsNeverOverstate,
                GroupSvc!CountsExactWithoutRepeats, GroupSvc!GetGroupCount
  <2> QED  BY <2>1, <2>2, <2>3, <2>4 DEF GroupSvc!Next
<1> QED  BY <1>1, <1>2, PTL DEF GroupSvc!Spec, GroupSvc!vars, groupVars

(* The service's maps hold lists and counters, and no counter ever exceeds  *)
(* the number of connections.                                               *)
THEOREM GroupTypeOK ==
  ASSUME GroupSvc!GroupAssumption
  PROVE  GroupSvc!Spec => []GroupSvc!TypeOK
<1>1. GroupIInv => GroupSvc!TypeOK
  <2> SUFFICES ASSUME GroupIInv
               PROVE  aggregated_group_counts \in
                        [Groups -> (0..GroupSvc!Cardinality(Connections)) \cup {None}]
    BY DEF GroupIInv, GroupShape, GroupSvc!TypeOK
  <2> SUFFICES ASSUME NEW g \in Groups, aggregated_group_counts[g] # None
               PROVE  aggregated_group_counts[g] \in 0..GroupSvc!Cardinality(Connections)
    BY DEF GroupIInv, GroupShape
  <2>1. aggregated_group_counts[g] \in Nat
    BY DEF GroupIInv, GroupShape
  <2>2. aggregated_group_counts[g] <= GroupSvc!Cardinality(GroupSvc!Members(g))
    BY DEF GroupIInv, GroupSvc!CountsNeverOverstate, GroupSvc!GetGroupCount
  <2>3. /\ GroupSvc!Cardinality(GroupSvc!Members(g)) \in Nat
        /\ GroupSvc!Cardinality(GroupSvc!Members(g)) <= GroupSvc!Cardinality(Connections)
        /\ GroupSvc!Cardinality(Connections) \in Nat
    BY MembersFinite, FS_CardinalityType, SameSizes DEF GroupSvc!GroupAssumption
  <2> QED  BY <2>1, <2>2, <2>3
<1> QED  BY <1>1, GroupInductive, PTL

(* No interleaving of joins, list changes and disconnects makes a group     *)
(* look bigger than it is.                                                  *)
THEOREM CountsAreNeverOverstated ==
  ASSUME GroupSvc!GroupAssumption
  PROVE  GroupSvc!Spec => []GroupSvc!CountsNeverOverstate
<1>1. GroupIInv => GroupSvc!CountsNeverOverstate
  BY DEF GroupIInv
<1> QED  BY <1>1, GroupInductive, PTL

(* While no client repeats a group, the counts are exact between the        *)
(* sections of everybody's calls, and the service never finds them wrong.   *)
THEOREM CountsAreExactWithoutRepeats ==
  ASSUME GroupSvc!GroupAssumption
  PROVE  GroupSvc!Spec => []GroupSvc!CountsExactWithoutRepeats
<1>1. GroupIInv => GroupSvc!CountsExactWithoutRepeats
  BY DEF GroupIInv
<1> QED  BY <1>1, GroupInductive, PTL
-----------------------------------------------------------------------------
(* The other three services                                                 *)

(* What searches and the population page look at is not in this model.      *)
RegistryP == INSTANCE SessionRegistryProofs
               WITH MaxI32 <- 0, Titles <- {}, Queries <- {}

(* The registry's invariants, known of every behaviour of its own           *)
LEMMA RegistryKeeps ==
  ASSUME Registry!NoneAssumption
  PROVE  Registry!Spec => [](Registry!TypeOK /\ Registry!IndexInverse)
<1> USE DEF Registry!NoneAssumption, RegistryP!NoneAssumption
<1>1. RegistryP!Spec => []RegistryP!IInv
  BY RegistryP!AlwaysIInv
<1>2. Registry!Spec => RegistryP!Spec
  <2>1. Registry!Init => RegistryP!Init
    BY DEF Registry!Init, RegistryP!Init
  <2>2. [Registry!Next]_registryVars => [RegistryP!Next]_registryVars
    BY DEF Registry!Next, Registry!Create, Registry!Update, Registry!Delete,
           Registry!RemoveConnection, Registry!Mint, Registry!Install,
           Registry!Forget, Registry!Remember, Registry!State,
           Registry!Identity, Registry!IdentityOf, Registry!Advertise,
           RegistryP!Next, RegistryP!Create, RegistryP!Update,
           RegistryP!Delete, RegistryP!RemoveConnection, RegistryP!Mint,
           RegistryP!Install, RegistryP!Forget, RegistryP!Remember,
           RegistryP!State, RegistryP!Identity, RegistryP!IdentityOf,
           RegistryP!Advertise
  <2> QED  BY <2>1, <2>2, PTL
           DEF Registry!Spec, Registry!vars, RegistryP!Spec, RegistryP!vars,
               registryVars
<1>3. RegistryP!IInv => Registry!TypeOK /\ Registry!IndexInverse
  BY DEF RegistryP!IInv, RegistryP!TypeOK, RegistryP!IndexInverse,
         RegistryP!LobbiesAreIndexed, RegistryP!IndexHasNoDangling,
         RegistryP!Lobby, RegistryP!Identity,
         Registry!TypeOK, Registry!IndexInverse,
         Registry!LobbiesAreIndexed, Registry!IndexHasNoDangling,
         Registry!Lobby, Registry!Identity
<1> QED  BY <1>1, <1>2, <1>3, PTL

(* A user's messages go to the connection it signed in on last              *)
RouterInv == Router!TypeOK /\ Router!LatestSignInReachable

LEMMA RouterKeeps ==
  ASSUME Router!RouterAssumption
  PROVE  Router!Spec => []RouterInv
<1> USE DEF Router!RouterAssumption, RouterInv, Router!TypeOK,
            Router!LatestSignInReachable
<1>1. Router!Init => RouterInv
  BY DEF Router!Init
<1>2. RouterInv /\ [Router!Next]_(Router!vars) => RouterInv'
  <2> SUFFICES ASSUME RouterInv, [Router!Next]_(Router!vars)
               PROVE  RouterInv'
    OBVIOUS
  <2>1. ASSUME NEW c \in Connections, NEW u \in Users, Router!SignIn(c, u)
        PROVE  RouterInv'
    BY <2>1 DEF Router!SignIn, Router!Register
  <2>2. ASSUME NEW c \in Connections, Router!End(c)
        PROVE  RouterInv'
    BY <2>2 DEF Router!End, Router!Unregister
  <2>3. CASE Router!TakeId
    BY <2>3 DEF Router!TakeId
  <2>4. ASSUME NEW u \in Users, NEW id \in 1..MaxMessages,
               Router!Push(u, id)
        PROVE  RouterInv'
    <3>1. inbox' \in [Connections -> Seq(1..MaxMessages)]
      BY <2>4 DEF Router!Push
    <3> QED  BY <2>4, <3>1 DEF Router!Push
  <2>5. CASE UNCHANGED Router!vars
    BY <2>5 DEF Router!vars
  <2> QED  BY <2>1, <2>2, <2>3, <2>4, <2>5 DEF Router!Next
<1> QED  BY <1>1, <1>2, PTL DEF Router!Spec

(* A presence goes with the connection that set it                          *)
PresenceInv == Presences!TypeOK /\ Presences!PresenceGoesWithItsOwner

LEMMA PresencesStep ==
  ASSUME Presences!PresenceAssumption, PresenceInv,
         [Presences!Next]_(Presences!vars)
  PROVE  /\ PresenceInv'
         /\ \A u \in Users :
              rich_presences[u] # None /\ rich_presences'[u] = None =>
                /\ rich_presences[u].owner \in InPresence
                /\ rich_presences[u].owner \notin InPresence'
<1> USE DEF Presences!PresenceAssumption, PresenceInv, Presences!TypeOK,
            Presences!Presence, Presences!PresenceGoesWithItsOwner
<1>1. ASSUME NEW c \in Connections, NEW u \in Users, Presences!SignIn(c, u)
      PROVE  PresenceInv' /\ rich_presences' = rich_presences
  BY <1>1 DEF Presences!SignIn
<1>2. ASSUME NEW c \in Connections, NEW u \in Users, NEW data \in Blobs,
             Presences!SetInfo(c, u, data)
      PROVE  /\ PresenceInv'
             /\ \A v \in Users : rich_presences[v] # None =>
                                  rich_presences'[v] # None
  <2> DEFINE presence == [owner |-> c, data |-> data]
  <2>1. presence \in Presences!Presence /\ presence # None /\ presence.owner = c
    BY <1>2 DEF Presences!SetInfo
  <2> HIDE DEF presence
  <2>2. /\ rich_presences' = [rich_presences EXCEPT ![u] = presence]
        /\ c \in InPresence /\ user[c] = u
        /\ UNCHANGED <<InPresence, user, switched>>
    BY <1>2 DEF Presences!SetInfo, presence
  <2> QED  BY <2>1, <2>2
<1>3. ASSUME NEW c \in Connections, Presences!Disconnect(c)
      PROVE  /\ PresenceInv'
             /\ \A v \in Users :
                  rich_presences[v] # None /\ rich_presences'[v] = None =>
                    /\ rich_presences[v].owner \in InPresence
                    /\ rich_presences[v].owner \notin InPresence'
  BY <1>3 DEF Presences!Disconnect, Presences!PresencesWithout
<1>4. CASE UNCHANGED Presences!vars
  BY <1>4 DEF Presences!vars
<1> QED  BY <1>1, <1>2, <1>3, <1>4 DEF Presences!Next

LEMMA PresencesKeep ==
  ASSUME Presences!PresenceAssumption
  PROVE  Presences!Spec => []PresenceInv
<1>1. Presences!Init => PresenceInv
  BY DEF Presences!Init, PresenceInv, Presences!TypeOK,
         Presences!PresenceGoesWithItsOwner
<1>2. PresenceInv /\ [Presences!Next]_(Presences!vars) => PresenceInv'
  BY PresencesStep
<1> QED  BY <1>1, <1>2, PTL DEF Presences!Spec
-----------------------------------------------------------------------------
(* What a step of the server is to each service                             *)

Threads == /\ phase \in [Connections -> Phases]
           /\ counter_poisoned \in BOOLEAN
           /\ unregister_cb \in Connections \cup {None}
           /\ reset \subseteq Connections

LEMMA ThreadsKept == Spec => []Threads
<1>1. Init => Threads
  BY DEF Init, Threads, Phases
<1>2. Threads /\ [Next]_vars => Threads'
  <2> SUFFICES ASSUME Threads, [Next]_vars
               PROVE  Threads'
    OBVIOUS
  <2> USE DEF Threads, Phases, Goto, threadVars
  <2>1. ASSUME NEW c \in Connections, Step(c)
        PROVE  Threads'
    BY <2>1 DEF Step, Register, RegisterPanics, AdjustCounts, LockCallbacks,
                RemoveGroups, RemoveLobby, Unregister, RemovePresence
  <2>2. ASSUME NEW c \in Connections,
               \/ PeerResets(c)
               \/ \E u \in Users : SignIn(c, u)
               \/ Matchmaking(c) \/ SetGroups(c) \/ SetInfo(c)
               \/ Leave(c)
        PROVE  Threads'
    BY <2>2 DEF PeerResets, SignIn, Matchmaking, SetGroups, SetInfo, Leave
  <2>3. CASE UNCHANGED vars
    BY <2>3 DEF vars
  <2> QED  BY <2>1, <2>2, <2>3 DEF Next, AllOver
<1> QED  BY <1>1, <1>2, PTL DEF Spec

(* For the registry every step of the server is one of its own, or none.    *)
LEMMA StepOfRegistry ==
  ASSUME [Next]_vars
  PROVE  [Registry!Next]_registryVars
<1>1. ASSUME NEW c \in Connections, Matchmaking(c)
      PROVE  Registry!Next
  BY <1>1 DEF Matchmaking, Registry!Next
<1>2. ASSUME NEW c \in Connections, RemoveLobby(c)
      PROVE  Registry!Next
  BY <1>2 DEF RemoveLobby, Registry!Next
<1>3. ASSUME NEW c \in Connections,
             \/ Register(c) \/ RegisterPanics(c) \/ AdjustCounts(c)
             \/ LockCallbacks(c) \/ RemoveGroups(c)
             \/ Unregister(c) \/ RemovePresence(c)
             \/ PeerResets(c)
             \/ \E u \in Users : SignIn(c, u)
             \/ SetGroups(c) \/ SetInfo(c) \/ Leave(c)
      PROVE  UNCHANGED registryVars
  BY <1>3 DEF Register, RegisterPanics, AdjustCounts, LockCallbacks,
              RemoveGroups, Unregister, RemovePresence, PeerResets, SignIn,
              SetGroups, SetInfo, Leave, registryVars
<1>4. UNCHANGED vars => UNCHANGED registryVars
  BY DEF vars, registryVars
<1> QED  BY <1>1, <1>2, <1>3, <1>4 DEF Next, Step, AllOver

(* For the group service too.                                               *)
LEMMA StepOfGroups ==
  ASSUME [Next]_vars
  PROVE  [GroupSvc!Next]_groupVars
<1>1. ASSUME NEW c \in Connections,
             SetGroups(c) \/ AdjustCounts(c) \/ RemoveGroups(c)
      PROVE  [GroupSvc!Next]_groupVars
  BY <1>1 DEF SetGroups, AdjustCounts, RemoveGroups, GroupSvc!Next
<1>2. ASSUME NEW c \in Connections,
             \/ Register(c) \/ RegisterPanics(c)
             \/ LockCallbacks(c) \/ RemoveLobby(c)
             \/ Unregister(c) \/ RemovePresence(c)
             \/ PeerResets(c)
             \/ \E u \in Users : SignIn(c, u)
             \/ Matchmaking(c) \/ SetInfo(c) \/ Leave(c)
      PROVE  UNCHANGED groupVars
  BY <1>2 DEF Register, RegisterPanics, LockCallbacks, RemoveLobby,
              Unregister, RemovePresence, PeerResets, SignIn, Matchmaking,
              SetInfo, Leave, groupVars
<1>3. UNCHANGED vars => UNCHANGED groupVars
  BY DEF vars, groupVars
<1> QED  BY <1>1, <1>2, <1>3 DEF Next, Step, AllOver

(* For the router, a connection is open until the third callback.           *)
LEMMA StepOfRouter ==
  ASSUME Threads, [Next]_vars
  PROVE  [Router!Next]_(Router!vars)
<1> USE DEF Threads, Goto
<1>1. ASSUME NEW c \in Connections, NEW u \in Users, SignIn(c, u)
      PROVE  Router!Next
  <2>1. c \in InRouter
    BY <1>1 DEF SignIn, Free, InRouter
  <2>2. InRouter' = InRouter
    BY <1>1 DEF SignIn, InRouter, threadVars
  <2> QED  BY <1>1, <2>1, <2>2 DEF SignIn, Router!Next, Router!SignIn
<1>2. ASSUME NEW c \in Connections, Unregister(c)
      PROVE  Router!Next
  <2>1. c \in InRouter /\ InRouter' = InRouter \ {c}
    BY <1>2 DEF Unregister, InRouter
  <2> QED  BY <1>2, <2>1 DEF Unregister, Router!Next, Router!End
<1>3. ASSUME NEW c \in Connections,
             \/ Register(c) \/ RegisterPanics(c)
             \/ LockCallbacks(c) \/ RemoveGroups(c) \/ RemoveLobby(c)
             \/ RemovePresence(c) \/ Leave(c)
      PROVE  UNCHANGED Router!vars
  <2>1. \E next \in Phases :
          /\ phase' = [phase EXCEPT ![c] = next]
          /\ next \in {"presence", "closed"} <=>
               phase[c] \in {"presence", "closed"}
    BY <1>3 DEF Register, RegisterPanics, LockCallbacks, RemoveGroups,
                RemoveLobby, RemovePresence, Leave, Free, Phases
  <2>2. InRouter' = InRouter
    BY <2>1 DEF InRouter
  <2> QED  BY <1>3, <2>2
           DEF Register, RegisterPanics, LockCallbacks, RemoveGroups,
               RemoveLobby, RemovePresence, Leave, routerVars, Router!vars
<1>4. ASSUME NEW c \in Connections,
             \/ AdjustCounts(c) \/ PeerResets(c) \/ Matchmaking(c)
             \/ SetGroups(c) \/ SetInfo(c)
      PROVE  UNCHANGED Router!vars
  <2>1. phase' = phase /\ user' = user /\ UNCHANGED routerVars
    BY <1>4 DEF AdjustCounts, PeerResets, Matchmaking, SetGroups, SetInfo,
                threadVars, Presences!SetInfo
  <2> QED  BY <2>1 DEF routerVars, Router!vars, InRouter
<1>5. UNCHANGED vars => UNCHANGED Router!vars
  BY DEF vars, threadVars, routerVars, Router!vars, InRouter
<1> QED  BY <1>1, <1>2, <1>3, <1>4, <1>5 DEF Next, Step, AllOver

(* For the presences it is open until the last.                             *)
LEMMA StepOfPresences ==
  ASSUME Threads, [Next]_vars
  PROVE  [Presences!Next]_(Presences!vars)
<1> USE DEF Threads, Goto
<1>1. ASSUME NEW c \in Connections, NEW u \in Users, SignIn(c, u)
      PROVE  Presences!Next
  <2>1. c \in InPresence
    BY <1>1 DEF SignIn, Free, InPresence
  <2>2. InPresence' = InPresence
    BY <1>1 DEF SignIn, InPresence, threadVars
  <2> QED  BY <1>1, <2>1, <2>2 DEF SignIn, Presences!Next, Presences!SignIn
<1>2. ASSUME NEW c \in Connections, SetInfo(c)
      PROVE  Presences!Next
  BY <1>2 DEF SetInfo, Presences!Next
<1>3. ASSUME NEW c \in Connections, RemovePresence(c)
      PROVE  Presences!Next
  <2>1. c \in InPresence /\ InPresence' = InPresence \ {c}
    BY <1>3 DEF RemovePresence, InPresence
  <2> QED  BY <1>3, <2>1 DEF RemovePresence, Presences!Next, Presences!Disconnect
<1>4. ASSUME NEW c \in Connections,
             \/ Register(c) \/ RegisterPanics(c)
             \/ LockCallbacks(c) \/ RemoveGroups(c) \/ RemoveLobby(c)
             \/ Unregister(c) \/ Leave(c)
      PROVE  UNCHANGED Presences!vars
  <2>1. \E next \in Phases \ {"closed"} :
          phase[c] # "closed" /\ phase' = [phase EXCEPT ![c] = next]
    BY <1>4 DEF Register, RegisterPanics, LockCallbacks, RemoveGroups,
                RemoveLobby, Unregister, Leave, Free, Phases
  <2>2. InPresence' = InPresence
    BY <2>1 DEF InPresence
  <2> QED  BY <1>4, <2>2
           DEF Register, RegisterPanics, LockCallbacks, RemoveGroups,
               RemoveLobby, Unregister, Leave, presenceVars, Presences!vars
<1>5. ASSUME NEW c \in Connections,
             \/ AdjustCounts(c) \/ PeerResets(c) \/ Matchmaking(c)
             \/ SetGroups(c)
      PROVE  UNCHANGED Presences!vars
  <2>1. phase' = phase /\ user' = user /\ UNCHANGED presenceVars
    BY <1>5 DEF AdjustCounts, PeerResets, Matchmaking, SetGroups, threadVars
  <2> QED  BY <2>1 DEF presenceVars, Presences!vars, InPresence
<1>6. UNCHANGED vars => UNCHANGED Presences!vars
  BY DEF vars, threadVars, presenceVars, Presences!vars, InPresence
<1> QED  BY <1>1, <1>2, <1>3, <1>4, <1>5, <1>6 DEF Next, Step, AllOver

(* Seen from each of its services, the server's life of connections - lost  *)
(* at any point, ended one after the other under the unregister_cb mutex -  *)
(* is a behaviour of that service alone.                                    *)
THEOREM ServerRunsItsServices ==
  Spec => /\ Registry!Spec /\ GroupSvc!Spec
          /\ Router!Spec /\ Presences!Spec
<1>1. Spec => Registry!Spec
  <2>1. Init => Registry!Init
    BY DEF Init
  <2>2. [Next]_vars => [Registry!Next]_registryVars
    BY StepOfRegistry
  <2> QED  BY <2>1, <2>2, PTL
           DEF Spec, Registry!Spec, Registry!vars, registryVars
<1>2. Spec => GroupSvc!Spec
  <2>1. Init => GroupSvc!Init
    BY DEF Init
  <2>2. [Next]_vars => [GroupSvc!Next]_groupVars
    BY StepOfGroups
  <2> QED  BY <2>1, <2>2, PTL
           DEF Spec, GroupSvc!Spec, GroupSvc!vars, groupVars
<1>3. Init => InRouter = Connections /\ InPresence = Connections
  BY DEF Init, InRouter, InPresence
<1>4. Spec => Router!Spec
  <2>1. Init => Router!Init
    BY <1>3 DEF Init, Router!Init
  <2>2. Threads /\ [Next]_vars => [Router!Next]_(Router!vars)
    BY StepOfRouter
  <2> QED  BY <2>1, <2>2, ThreadsKept, PTL DEF Spec, Router!Spec
<1>5. Spec => Presences!Spec
  <2>1. Init => Presences!Init
    BY <1>3 DEF Init, Presences!Init
  <2>2. Threads /\ [Next]_vars => [Presences!Next]_(Presences!vars)
    BY StepOfPresences
  <2> QED  BY <2>1, <2>2, ThreadsKept, PTL DEF Spec, Presences!Spec
<1> QED  BY <1>1, <1>2, <1>4, <1>5, PTL

(* What the services keep to on their own, they keep to in the server.      *)
Services == Registry!TypeOK /\ Registry!IndexInverse /\ GroupIInv
              /\ RouterInv /\ PresenceInv

LEMMA ServicesKeep == Spec => [](Threads /\ Services)
<1>1. /\ Registry!NoneAssumption /\ GroupSvc!GroupAssumption
      /\ Router!RouterAssumption /\ Presences!PresenceAssumption
  BY LobbyAssumption DEF LobbyAssumption
<1>2. Registry!Spec => [](Registry!TypeOK /\ Registry!IndexInverse)
  BY <1>1, RegistryKeeps
<1>3. GroupSvc!Spec => []GroupIInv
  BY <1>1, GroupInductive
<1>4. Router!Spec => []RouterInv
  BY <1>1, RouterKeeps
<1>5. Presences!Spec => []PresenceInv
  BY <1>1, PresencesKeep
<1>6. (Registry!TypeOK /\ Registry!IndexInverse) /\ GroupIInv /\ RouterInv
        /\ PresenceInv => Services
  BY DEF Services
<1> QED  BY <1>2, <1>3, <1>4, <1>5, <1>6, ServerRunsItsServices, ThreadsKept,
            PTL

-----------------------------------------------------------------------------
(* What a connection can have, by how far its thread is                     *)

(* A thread that never signed in has nothing, and one that did has what the *)
(* callbacks have not taken yet.                                            *)
NothingUnsigned ==
  \A c \in Connections :
    /\ phase[c] \in {"accepted", "panicked"} => user[c] = None
    /\ user[c] = None =>
         /\ sessions[c] = None /\ session_groups[c] = None /\ pending[c] = None
         /\ \A u \in Users :
              /\ latest[u] # c /\ recipients[u] # c
              /\ rich_presences[u] # None => rich_presences[u].owner # c

CallbacksCleanUp ==
  \A c \in Connections :
    /\ phase[c] \in {"router", "presence", "closed"} => sessions[c] = None
    /\ phase[c] \in {"matchmaking", "router", "presence", "closed"} =>
         session_groups[c] = None
    /\ phase[c] \in {"ending", "groups", "router", "presence", "closed"} =>
         pending[c] = None

ServerInv == Threads /\ Services /\ NothingUnsigned /\ CallbacksCleanUp

LEMMA InitServerInv ==
  ASSUME Init
  PROVE  NothingUnsigned /\ CallbacksCleanUp
  BY LobbyAssumption
     DEF LobbyAssumption, Router!RouterAssumption, Init, NothingUnsigned,
         CallbacksCleanUp, Registry!Init, GroupSvc!Init,
         Router!Init, Presences!Init

(* A registry method changes the lobby of its connection only.              *)
LEMMA OwnLobbyOnly ==
  ASSUME Registry!TypeOK, NEW c \in Connections,
         \/ \E ad \in Ads : Registry!Create(c, ad) \/ Registry!Update(c, ad)
         \/ \E id \in Ids : Registry!Delete(c, id)
         \/ Registry!RemoveConnection(c)
  PROVE  /\ \A d \in Connections \ {c} : sessions'[d] = sessions[d]
         /\ Registry!RemoveConnection(c) => sessions'[c] = None
<1> DEFINE st == Registry!Forget(Registry!State, c)
<1>1. st.sessions = [sessions EXCEPT ![c] = None]
  BY DEF Registry!Forget, Registry!State, Registry!TypeOK
<1> HIDE DEF st
<1>2. ASSUME NEW lobby,
             Registry!Install(Registry!Remember(st, c, lobby))
      PROVE  \A d \in Connections \ {c} : sessions'[d] = sessions[d]
  BY <1>1, <1>2 DEF Registry!Install, Registry!Remember, Registry!TypeOK
<1>3. ASSUME Registry!Install(st)
      PROVE  sessions'[c] = None
               /\ \A d \in Connections \ {c} : sessions'[d] = sessions[d]
  BY <1>1, <1>3 DEF Registry!Install, Registry!TypeOK
<1>4. ASSUME NEW ad \in Ads, Registry!Create(c, ad) \/ Registry!Update(c, ad)
      PROVE  \A d \in Connections \ {c} : sessions'[d] = sessions[d]
  BY <1>4, <1>2 DEF Registry!Create, Registry!Update, st
<1>5. ASSUME Registry!RemoveConnection(c) \/ \E id \in Ids : Registry!Delete(c, id)
      PROVE  sessions'[c] = None
               /\ \A d \in Connections \ {c} : sessions'[d] = sessions[d]
  BY <1>5, <1>3 DEF Registry!RemoveConnection, Registry!Delete, st
<1> QED  BY <1>4, <1>5

(* A thread's own messages touch what is its connection's only.             *)
LEMMA MessageStep ==
  ASSUME ServerInv, NEW c \in Connections,
         \/ \E u \in Users : SignIn(c, u)
         \/ Matchmaking(c) \/ SetGroups(c) \/ SetInfo(c) \/ AdjustCounts(c)
  PROVE  NothingUnsigned' /\ CallbacksCleanUp'
<1> USE DEF ServerInv, NothingUnsigned, CallbacksCleanUp, threadVars
<1>1. ASSUME NEW u \in Users, SignIn(c, u)
      PROVE  NothingUnsigned' /\ CallbacksCleanUp'
  <2>1. /\ phase[c] = "open" /\ c # None /\ u # None
        /\ user' = [user EXCEPT ![c] = u]
        /\ recipients' = [recipients EXCEPT ![u] = c]
        /\ latest' = [latest EXCEPT ![u] = c]
        /\ UNCHANGED <<phase, sessions, session_groups, pending, rich_presences>>
    BY <1>1, LobbyAssumption
       DEF SignIn, Free, Router!Register, LobbyAssumption,
                Router!RouterAssumption, registryVars, groupVars
  <2> QED  BY <2>1 DEF Services, RouterInv, Router!TypeOK
<1>2. ASSUME Matchmaking(c)
      PROVE  NothingUnsigned' /\ CallbacksCleanUp'
  <2>1. /\ phase[c] = "open" /\ user[c] # None
        /\ \A d \in Connections \ {c} : sessions'[d] = sessions[d]
        /\ UNCHANGED <<phase, user, session_groups, pending, recipients,
                       latest, rich_presences>>
    BY <1>2, OwnLobbyOnly
       DEF Matchmaking, Serves, Free, Services, groupVars, routerVars,
           presenceVars
  <2> QED  BY <2>1
<1>3. ASSUME SetGroups(c)
      PROVE  NothingUnsigned' /\ CallbacksCleanUp'
  <2>1. /\ phase[c] = "open" /\ user[c] # None
        /\ \A d \in Connections \ {c} : /\ session_groups'[d] = session_groups[d]
                                        /\ pending'[d] = pending[d]
        /\ UNCHANGED <<phase, user, sessions, recipients, latest,
                       rich_presences>>
    BY <1>3 DEF SetGroups, GroupSvc!SetGroups, Serves, Free, Services,
                GroupIInv, GroupShape, registryVars, routerVars, presenceVars
  <2> QED  BY <2>1
<1>4. ASSUME SetInfo(c)
      PROVE  NothingUnsigned' /\ CallbacksCleanUp'
  <2>1. PICK u \in Users, data \in Blobs : Presences!SetInfo(c, u, data)
    BY <1>4 DEF SetInfo
  <2>2. /\ phase[c] = "open" /\ user[c] # None
        /\ rich_presences' =
             [rich_presences EXCEPT ![u] = [owner |-> c, data |-> data]]
        /\ UNCHANGED <<phase, user, sessions, session_groups, pending,
                       recipients, latest>>
    BY <1>4, <2>1 DEF SetInfo, Presences!SetInfo, Serves, Free, registryVars,
                groupVars, routerVars
  <2> QED  BY <2>2 DEF Services, PresenceInv, Presences!TypeOK
<1>5. ASSUME AdjustCounts(c)
      PROVE  NothingUnsigned' /\ CallbacksCleanUp'
  <2>1. /\ pending' = [pending EXCEPT ![c] = None]
        /\ UNCHANGED <<phase, user, sessions, session_groups, recipients,
                       latest, rich_presences>>
    BY <1>5 DEF AdjustCounts, GroupSvc!AdjustCounts, registryVars, routerVars,
                presenceVars
  <2> QED  BY <2>1 DEF Services, GroupIInv, GroupShape
<1> QED  BY <1>1, <1>2, <1>3, <1>4, <1>5

(* Accepting a connection gives it nothing.                                 *)
LEMMA StartStep ==
  ASSUME ServerInv, NEW c \in Connections,
         \/ PeerResets(c) \/ Register(c) \/ RegisterPanics(c) \/ Leave(c)
         \/ LockCallbacks(c)
  PROVE  NothingUnsigned' /\ CallbacksCleanUp'
<1> USE DEF ServerInv, Threads, Goto
<1>1. /\ UNCHANGED <<user, sessions, session_groups, pending, recipients,
                     latest, rich_presences>>
      /\ \/ UNCHANGED phase
         \/ /\ phase[c] = "accepted"
            /\ phase' \in {[phase EXCEPT ![c] = "open"],
                           [phase EXCEPT ![c] = "panicked"]}
         \/ /\ phase[c] = "open" /\ pending[c] = None
            /\ phase' = [phase EXCEPT ![c] = "ending"]
         \/ /\ phase[c] = "ending"
            /\ phase' = [phase EXCEPT ![c] = "groups"]
  BY DEF PeerResets, Register, RegisterPanics, Leave, LockCallbacks, Free,
         registryVars, groupVars, routerVars, presenceVars
<1> QED  BY <1>1 DEF NothingUnsigned, CallbacksCleanUp

(* Each callback takes what it is there to take, and gives nothing.         *)
LEMMA CallbackStep ==
  ASSUME ServerInv, NEW c \in Connections,
         \/ RemoveGroups(c) \/ RemoveLobby(c) \/ Unregister(c)
         \/ RemovePresence(c)
  PROVE  NothingUnsigned' /\ CallbacksCleanUp'
<1> USE DEF ServerInv, Threads, Goto, NothingUnsigned, CallbacksCleanUp
<1>1. ASSUME RemoveGroups(c)
      PROVE  NothingUnsigned' /\ CallbacksCleanUp'
  <2>1. /\ phase[c] = "groups"
        /\ phase' = [phase EXCEPT ![c] = "matchmaking"]
        /\ session_groups'[c] = None
        /\ session_groups[c] = None => pending'[c] = pending[c]
        /\ \A d \in Connections \ {c} : /\ session_groups'[d] = session_groups[d]
                                        /\ pending'[d] = pending[d]
        /\ UNCHANGED <<user, sessions, recipients, latest, rich_presences>>
    BY <1>1 DEF RemoveGroups, GroupSvc!RemoveAllGroups, Services, GroupIInv,
                GroupShape, registryVars, groupVars, routerVars, presenceVars
  <2> QED  BY <2>1
<1>2. ASSUME RemoveLobby(c)
      PROVE  NothingUnsigned' /\ CallbacksCleanUp'
  <2>1. /\ phase[c] = "matchmaking" /\ pending[c] = None
        /\ phase' = [phase EXCEPT ![c] = "router"]
        /\ sessions'[c] = None
        /\ \A d \in Connections \ {c} : sessions'[d] = sessions[d]
        /\ UNCHANGED <<user, session_groups, pending, recipients, latest,
                       rich_presences>>
    BY <1>2, OwnLobbyOnly DEF RemoveLobby, Services, groupVars, routerVars,
                              presenceVars
  <2> QED  BY <2>1
<1>3. ASSUME Unregister(c)
      PROVE  NothingUnsigned' /\ CallbacksCleanUp'
  <2>1. /\ phase[c] = "router"
        /\ phase' = [phase EXCEPT ![c] = "presence"]
        /\ \A u \in Users : recipients'[u] \in {recipients[u], None}
        /\ UNCHANGED <<user, sessions, session_groups, pending, latest,
                       rich_presences>>
    BY <1>3 DEF Unregister, Router!Unregister, registryVars, groupVars,
                presenceVars
  <2>2. None \notin Connections
    BY LobbyAssumption DEF LobbyAssumption, Router!RouterAssumption
  <2> QED  BY <2>1, <2>2
<1>4. ASSUME RemovePresence(c)
      PROVE  NothingUnsigned' /\ CallbacksCleanUp'
  <2>1. /\ phase[c] = "presence"
        /\ phase' = [phase EXCEPT ![c] = "closed"]
        /\ \A u \in Users : rich_presences'[u] \in {rich_presences[u], None}
        /\ UNCHANGED <<user, sessions, session_groups, pending, recipients,
                       latest>>
    BY <1>4 DEF RemovePresence, Presences!PresencesWithout, registryVars,
                groupVars, routerVars
  <2> QED  BY <2>1
<1> QED  BY <1>1, <1>2, <1>3, <1>4

LEMMA ServerKeeps == Spec => []ServerInv
<1>1. Init => NothingUnsigned /\ CallbacksCleanUp
  BY InitServerInv
<1>2. ServerInv /\ [Next]_vars => NothingUnsigned' /\ CallbacksCleanUp'
  <2> SUFFICES ASSUME ServerInv, [Next]_vars
               PROVE  NothingUnsigned' /\ CallbacksCleanUp'
    OBVIOUS
  <2>1. CASE UNCHANGED vars
    BY <2>1 DEF ServerInv, NothingUnsigned, CallbacksCleanUp, vars, threadVars,
                registryVars, groupVars, routerVars, presenceVars
  <2> QED  BY <2>1, MessageStep, StartStep, CallbackStep DEF Next, Step, AllOver
<1>3. ServerInv <=> (Threads /\ Services) /\ NothingUnsigned /\ CallbacksCleanUp
  BY DEF ServerInv
<1> QED  BY <1>1, <1>2, <1>3, ServicesKeep, PTL DEF Spec

-----------------------------------------------------------------------------
(* Thread phases, mutexes and the services' maps keep their types.          *)
THEOREM ServerTypeOK == Spec => []TypeOK
<1>1. Threads /\ Registry!TypeOK /\ GroupSvc!TypeOK /\ Router!TypeOK
        /\ Presences!TypeOK => TypeOK
  BY DEF Threads, TypeOK
<1>2. GroupSvc!Spec => []GroupSvc!TypeOK
  BY GroupTypeOK, LobbyAssumption DEF LobbyAssumption
<1>3. Services => Registry!TypeOK /\ Router!TypeOK /\ Presences!TypeOK
  BY DEF Services, RouterInv, PresenceInv
<1> QED  BY <1>1, <1>2, <1>3, ServicesKeep, ServerRunsItsServices, PTL

(* A connection that ended leaves nothing behind in any service but the     *)
(* presence of a user it signed in as before another, one that never signed *)
(* in has nothing at any time, and no presence outlives the connection that *)
(* set it otherwise.                                                        *)
THEOREM OnlySignedInLeaveTraces == Spec => []OnlySignedInSessionsLeaveTraces
<1>1. ServerInv => OnlySignedInSessionsLeaveTraces
  <2> SUFFICES ASSUME ServerInv
               PROVE  OnlySignedInSessionsLeaveTraces
    OBVIOUS
  <2> USE DEF ServerInv, Services
  <2>1. ASSUME NEW c \in Connections, NEW id \in Ids, by_host[id] = c
        PROVE  sessions[c] # None
    BY <2>1, LobbyAssumption
       DEF Registry!IndexInverse, Registry!IndexHasNoDangling,
           LobbyAssumption, Router!RouterAssumption
  <2>2. ASSUME NEW c \in Connections,
               phase[c] \in {"accepted", "panicked"} \/ user[c] = None
        PROVE  ~Holds(c)
    BY <2>1, <2>2 DEF NothingUnsigned, Holds
  <2>3. ASSUME NEW c \in Connections, phase[c] = "closed", c \notin switched
        PROVE  ~Holds(c)
    <3>1. sessions[c] = None /\ session_groups[c] = None /\ pending[c] = None
      BY <2>3 DEF CallbacksCleanUp
    <3>2. \A u \in Users : recipients[u] # c
      BY <2>3, LobbyAssumption
         DEF RouterInv, Router!LatestSignInReachable, InRouter,
                  LobbyAssumption, Router!RouterAssumption
    <3>3. \A u \in Users :
            rich_presences[u] # None => rich_presences[u].owner # c
      BY <2>3 DEF PresenceInv, Presences!PresenceGoesWithItsOwner, InPresence
    <3> QED  BY <2>1, <3>1, <3>2, <3>3 DEF Holds
  <2>4. Presences!PresenceGoesWithItsOwner
    BY DEF PresenceInv
  <2> QED  BY <2>2, <2>3, <2>4 DEF OnlySignedInSessionsLeaveTraces
<1> QED  BY <1>1, ServerKeeps, PTL

(* Whoever owns a lobby a search can list is on the router's map too, as    *)
(* long as its user has not signed in elsewhere.                            *)
THEOREM ListedHostsReachable == Spec => []ListedHostsAreReachable
<1>1. ServerInv => ListedHostsAreReachable
  BY DEF ServerInv, Services, CallbacksCleanUp, RouterInv,
         Router!LatestSignInReachable, InRouter, ListedHostsAreReachable
<1> QED  BY <1>1, ServerKeeps, PTL

(* The group counts of the whole server never overstate.                    *)
THEOREM ServerCountsNeverOverstate == Spec => []CountsNeverOverstate
<1>1. Services => CountsNeverOverstate
  BY DEF Services, GroupIInv, CountsNeverOverstate
<1> QED  BY <1>1, ServicesKeep, PTL

(* They are exact between calls while no client repeats a group.            *)
THEOREM ServerCountsExact == Spec => []CountsExactWithoutRepeats
<1>1. Services => CountsExactWithoutRepeats
  BY DEF Services, GroupIInv, CountsExactWithoutRepeats
<1> QED  BY <1>1, ServicesKeep, PTL

(* No step takes a presence but the callback of the connection that set it. *)
THEOREM ServerPresencesEnd == Spec => PresenceEndsWithItsOwner
<1>1. PresenceInv /\ [Presences!Next]_(Presences!vars) =>
        [\A u \in Users :
           rich_presences[u] # None /\ rich_presences'[u] = None =>
             LET owner == rich_presences[u].owner
             IN  owner \in InPresence /\ owner \notin InPresence']_(Presences!vars)
  BY PresencesStep, LobbyAssumption DEF LobbyAssumption
<1>2. Services => PresenceInv
  BY DEF Services
<1> QED  BY <1>1, <1>2, ServicesKeep, ServerRunsItsServices, PTL
         DEF Presences!Spec, PresenceEndsWithItsOwner,
             Presences!PresenceEndsWithItsOwner
=============================================================================
