----------------------------- MODULE MCRecords -----------------------------
(***************************************************************************)
(* The instance of Milestones and Organization that TLC checks: the plan   *)
(* and the people of an organisation.                                      *)
(*                                                                         *)
(* The components share no state and no property speaks of both, so TLC    *)
(* walks their sum and not their product: in a behaviour one of them moves *)
(* and the other stays in its initial state.                               *)
(***************************************************************************)
EXTENDS Milestones, Organization, TLC

MCSymmetry == Permutations(Person) \cup Permutations(Relationship)
-----------------------------------------------------------------------------
\* Either two planners forecast and complete a milestone, or a few milestones
\* are put in an order and met.
PlanFocus ==
  \/ Cardinality({m \in Milestone : Known(m)}) <= 1
  \/ /\ \A m \in Milestone : Known(m) => milestone[m].forecast = None /\ milestone[m].version <= 2
     /\ \E u \in Planner : \A v \in Planner, m \in Milestone :
          reading[v][m] # None => v = u /\ reading[v][m].forecast = None

\* Either reporting lines among any number of people, or one relationship of
\* any kind while positions are made and people leave.
PeopleFocus ==
  \/ Cardinality({i \in Relationship : rel[i] # NoRow}) <= 1
  \/ /\ \A i \in Relationship : rel[i] # NoRow => rel[i].kind = "reports_to"
     /\ (\A p \in Person : active[p]) /\ (\A n \in Position : position[n] = NoRow)

MCInit == Init /\ PeopleInit

MCNext ==
  \/ Next /\ PlanFocus' /\ PeopleInit /\ UNCHANGED people
  \/ PeopleNext /\ PeopleFocus' /\ Init /\ UNCHANGED vars

MCSpec == MCInit /\ [][MCNext]_<<vars, people>>
=============================================================================
