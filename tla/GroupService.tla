---------------------------- MODULE GroupService ----------------------------
(***************************************************************************)
(* DwGroupService (dw-server/src/lobby/group/service.rs): which groups each *)
(* connection joined, and how many members each group is said to have.     *)
(* set_groups and the disconnect callback work in two critical sections:    *)
(* the connection's list is swapped under session_groups, and the counts    *)
(* are adjusted later under aggregated_group_counts, from what the first    *)
(* section saw.  Other connections run in between.  One connection's calls  *)
(* follow each other: they all run on its thread.                           *)
(*                                                                         *)
(* A list of group ids is modelled by how often each group occurs in it;    *)
(* its order plays no part.  A connection name may stand for a later        *)
(* connection after its disconnect callback.                                *)
(*                                                                         *)
(* The service is modelled for any caller.  Today no client reaches         *)
(* set_groups through the lobby: LobbyCalls shows why.                      *)
(***************************************************************************)
EXTENDS Naturals, FiniteSets

CONSTANTS
  Connections,  \* SessionId
  Groups,       \* GroupId
  MaxRepeat,    \* bound: how often one group occurs in a list
  None          \* "no list", "nothing pending", "no counter"

List == [Groups -> 0..MaxRepeat]

(* An adjustment: groups to count one up, groups to count down and by how   *)
(* much, and whether a counter already at zero is worth an error! line      *)
Adjustment == [up : SUBSET Groups, down : List, strict : BOOLEAN]

(* Assumed by the modules that instantiate this one                         *)
GroupAssumption == /\ MaxRepeat \in Nat \ {0}
                   /\ IsFiniteSet(Connections)
                   /\ None \notin Nat /\ None \notin List
                   /\ None \notin Adjustment

VARIABLES
  session_groups,           \* connection -> list, or None
  aggregated_group_counts,  \* group -> count, or None before its first member
  pending,     \* connection -> the adjustment its call still has to make
  wrong,       \* "Aggregated group counts appear to be wrong!" was logged
  repeated     \* history: some client kept a group from one list to its next
               \* or named one twice in a list

vars == <<session_groups, aggregated_group_counts, pending, wrong, repeated>>

GroupsOf(list) == IF list = None THEN {} ELSE {g \in Groups : list[g] > 0}
Once(S) == [g \in Groups |-> IF g \in S THEN 1 ELSE 0]

Init == /\ session_groups = [c \in Connections |-> None]
        /\ aggregated_group_counts = [g \in Groups |-> None]
        /\ pending = [c \in Connections |-> None]
        /\ wrong = FALSE
        /\ repeated = FALSE

(* MUTANT *)
NewGroupsUnfiltered(list, previous) == GroupsOf(list)

NewGroups(list, previous) == GroupsOf(list) \ previous

(* left_groups filters previous by the NEW groups, which never meet it      *)
LeftGroups(list, previous) == previous \ NewGroups(list, previous)

(* set_groups, first critical section                                       *)
SetGroups(c, list) ==
  LET previous == GroupsOf(session_groups[c]) IN
  /\ pending[c] = None
  /\ session_groups' = [session_groups EXCEPT ![c] = list]
  /\ pending' = [pending EXCEPT ![c] =
       [up |-> NewGroups(list, previous),
        down |-> Once(LeftGroups(list, previous)),
        strict |-> FALSE]]
  /\ repeated' = \/ repeated
                 \/ GroupsOf(list) \cap previous # {}
                 \/ \E g \in Groups : list[g] > 1
  /\ UNCHANGED <<aggregated_group_counts, wrong>>

(* MUTANT *)
RemoveForgettingCounts(c) ==
  /\ pending[c] = None
  /\ session_groups[c] # None
  /\ session_groups' = [session_groups EXCEPT ![c] = None]
  /\ pending' = [pending EXCEPT ![c] =
       [up |-> {}, down |-> Once({}), strict |-> TRUE]]
  /\ UNCHANGED <<aggregated_group_counts, wrong, repeated>>

(* remove_all_groups_for_session, first critical section: without a list    *)
(* there is nothing to do                                                   *)
RemoveAllGroups(c) ==
  /\ pending[c] = None
  /\ session_groups[c] # None
  /\ session_groups' = [session_groups EXCEPT ![c] = None]
  /\ pending' = [pending EXCEPT ![c] =
       [up |-> {}, down |-> session_groups[c], strict |-> TRUE]]
  /\ UNCHANGED <<aggregated_group_counts, wrong, repeated>>

(* MUTANT *)
AdjustedByInsert(count, adj, g) ==
  LET known == IF count = None THEN 0 ELSE count
      up == IF g \in adj.up THEN 1 ELSE known
  IN  IF count = None /\ g \notin adj.up THEN None
      ELSE IF up > adj.down[g] THEN up - adj.down[g] ELSE 0

(* One counter after an adjustment: up first, then down while above zero    *)
Adjusted(count, adj, g) ==
  LET known == IF count = None THEN 0 ELSE count
      up == IF g \in adj.up THEN known + 1 ELSE known
  IN  IF count = None /\ g \notin adj.up THEN None
      ELSE IF up > adj.down[g] THEN up - adj.down[g] ELSE 0

(* The error! line: a group to count down has no counter, or the disconnect *)
(* callback finds one at zero                                               *)
LogsWrong(count, adj, g) ==
  /\ adj.down[g] > 0
  /\ \/ count = None /\ g \notin adj.up
     \/ adj.strict /\ count # None /\ count < adj.down[g]

(* The second critical section of either call                               *)
AdjustCounts(c) ==
  LET adj == pending[c] IN
  /\ adj # None
  /\ aggregated_group_counts' =
       [g \in Groups |-> Adjusted(aggregated_group_counts[g], adj, g)]
  /\ wrong' = (wrong \/ \E g \in Groups :
                          LogsWrong(aggregated_group_counts[g], adj, g))
  /\ pending' = [pending EXCEPT ![c] = None]
  /\ UNCHANGED <<session_groups, repeated>>

(* get_group_counts reads under the lock and changes nothing                *)
GetGroupCount(g) == IF aggregated_group_counts[g] = None THEN 0
                    ELSE aggregated_group_counts[g]

Next == \E c \in Connections :
          \/ \E list \in List : SetGroups(c, list)
          \/ RemoveAllGroups(c)
          \/ AdjustCounts(c)

Spec == Init /\ [][Next]_vars

-----------------------------------------------------------------------------
(* The service's maps hold lists and counters; wrong and repeated are flags.*)
TypeOK ==
  /\ session_groups \in [Connections -> List \cup {None}]
  /\ aggregated_group_counts \in
       [Groups -> (0..Cardinality(Connections)) \cup {None}]
  /\ pending \in [Connections -> Adjustment \cup {None}]
  /\ wrong \in BOOLEAN
  /\ repeated \in BOOLEAN

(* The connections whose membership of g the counts should show: a pending  *)
(* join is not counted yet and a pending leave still is.                    *)
Members(g) ==
  {c \in Connections :
     IF pending[c] = None THEN g \in GroupsOf(session_groups[c])
     ELSE \/ pending[c].down[g] > 0
          \/ g \in GroupsOf(session_groups[c]) /\ g \notin pending[c].up}

(* No interleaving of joins, list changes and disconnects makes a group     *)
(* look bigger than it is; in particular the counts of an empty server are  *)
(* zero, so what get_group_counts reports never grows stale upwards.        *)
CountsNeverOverstate ==
  \A g \in Groups : GetGroupCount(g) <= Cardinality(Members(g))

(* As long as every client only ever moves to groups it was not in, and     *)
(* names each once, get_group_counts is exact between the critical sections *)
(* of everybody's calls: the snapshot taken under session_groups is still   *)
(* right when the counts are adjusted, and the service never finds its own  *)
(* counts wrong.  (Once a client keeps a group from one list to the next,   *)
(* it does: left_groups has the kept group.)                                *)
CountsExactWithoutRepeats ==
  ~repeated => /\ ~wrong
               /\ \A g \in Groups : GetGroupCount(g) = Cardinality(Members(g))
=============================================================================
