------------------------------- MODULE Organization -------------------------------
(***************************************************************************)
(* Who reports to whom, and when.  Positions, and relationships that hold  *)
(* for a period: reporting lines, membership of a team, and cover.  A      *)
(* question about the structure names an instant, and history stays        *)
(* answerable: a relationship is ended, never removed.                     *)
(*                                                                         *)
(* Every operation is one transaction under the organisation's lock.       *)
(***************************************************************************)
EXTENDS Integers, FiniteSets

CONSTANTS
  Person, Position,   \* principals and positions
  Relationship,       \* identities of org_relationships
  Kind,               \* the kinds of relationship an instance has
  MaxTime,            \* bound: the instants 0..MaxTime
  MaxDepth,           \* levels that the management walk climbs; the code: 64
  MaxRevocations,     \* bound: people deactivated
  NoRow

\* There may be any finite number of people.
ASSUME OrganizationAssumption ==
  IsFiniteSet(Person) /\ MaxTime \in Nat /\ MaxDepth \in Nat

VARIABLES
  active,     \* principals.active
  position,   \* positions: the parent, or the position itself at the top
  rel         \* org_relationships

people == <<active, position, rel>>
-----------------------------------------------------------------------------
Instant == 0..MaxTime
Forever == MaxTime + 1    \* upper_inf

\* [from, to), never empty.
Period == {p \in [from : Instant, to : 1..Forever] : p.from < p.to}

RelationshipRow == [subject : Person, kind : Kind, object : Person \cup Position,
                    valid : Period]

PeopleTypeOK ==
  /\ active \in [Person -> BOOLEAN]
  /\ position \in [Position -> Position \cup {NoRow}]
  /\ rel \in [Relationship -> RelationshipRow \cup {NoRow}]
  /\ \A i \in Relationship : rel[i] # NoRow =>
       rel[i].object \in IF rel[i].kind = "member_of" THEN Position ELSE Person

PeopleInit ==
  /\ active = [p \in Person |-> TRUE]
  /\ position = [n \in Position |-> NoRow]
  /\ rel = [i \in Relationship |-> NoRow]

Overlap(p, q) == p.from < q.to /\ q.from < p.to
-----------------------------------------------------------------------------
CreatePosition(n, parent) ==
  /\ \E actor \in Person : active[actor]
  /\ position[n] = NoRow
  /\ parent # n => position[parent] # NoRow
  /\ position' = [position EXCEPT ![n] = parent]
  /\ UNCHANGED <<active, rel>>

Lines == {rel[i] : i \in {j \in Relationship :
                            rel[j] # NoRow /\ rel[j].kind = "reports_to"}}

\* Mutant: the lines of the day the new one starts.
ManagersOnTheDay(p, valid) ==
  {l.object : l \in {m \in Lines : m.subject = p /\ m.valid.from <= valid.from
                                    /\ valid.from < m.valid.to}}

\* The managers of p at some time during the period.
Managers(p, valid) ==
  {l.object : l \in {m \in Lines : m.subject = p /\ Overlap(m.valid, valid)}}

\* The walk up from a manager, over the lines that overlap the period: who is met
\* within d steps.
Chain(manager, valid) ==
  LET Above[d \in 0..MaxDepth] ==
        IF d = 0 THEN {}
        ELSE UNION {Managers(p, valid) : p \in {manager} \cup Above[d - 1]}
  IN Above

\* detectManagementCycle: whether the walk meets the subject within MaxDepth
\* steps.  The manager itself, where the walk begins, is not compared.
DetectManagementCycle(subject, manager, valid) ==
  subject \in Chain(manager, valid)[MaxDepth]

\* The exclusion constraint org_relationships_one_manager.
Exclusive(i, subject, valid) == \A j \in Relationship \ {i} :
  rel[j] # NoRow /\ rel[j].kind = "reports_to" /\ rel[j].subject = subject
    => ~Overlap(rel[j].valid, valid)

CreateRelationship(i, subject, kind, object, valid) ==
  /\ rel[i] = NoRow
  /\ active[subject]
  /\ IF kind = "member_of" THEN object \in Position /\ position[object] # NoRow
                           ELSE object \in Person /\ active[object]
  /\ kind = "reports_to" =>
       /\ ~DetectManagementCycle(subject, object, valid)
       /\ Exclusive(i, subject, valid)
  /\ rel' = [rel EXCEPT ![i] = [subject |-> subject, kind |-> kind,
                                object |-> object, valid |-> valid]]
  /\ UNCHANGED <<active, position>>

\* A period that ended before is left alone, and the call succeeds.
EndRelationship(i, at) ==
  /\ \E actor \in Person : active[actor]
  /\ rel[i] # NoRow /\ rel[i].valid.from < at
  /\ rel' = IF at < rel[i].valid.to THEN [rel EXCEPT ![i].valid.to = at] ELSE rel
  /\ UNCHANGED <<active, position>>

\* A principal is deactivated (by an operator: no endpoint does it).
Revoke(p) ==
  /\ active[p]
  /\ Cardinality({q \in Person : ~active[q]}) < MaxRevocations
  /\ active' = [active EXCEPT ![p] = FALSE]
  /\ UNCHANGED <<position, rel>>

PeopleNext ==
  \/ \E n, parent \in Position : CreatePosition(n, parent)
  \/ \E i \in Relationship, p \in Person, k \in Kind, o \in Person \cup Position,
        valid \in Period : CreateRelationship(i, p, k, o, valid)
  \/ \E i \in Relationship, at \in Instant : EndRelationship(i, at)
  \/ \E p \in Person : Revoke(p)

PeopleSpec == PeopleInit /\ [][PeopleNext]_people
-----------------------------------------------------------------------------
(* RelationshipsAsOf, and what holds of its answers.                       *)

Holds(i, t) == rel[i] # NoRow /\ rel[i].valid.from <= t /\ t < rel[i].valid.to

ManagerAsOf(t) == {<<rel[i].subject, rel[i].object>> :
  i \in {j \in Relationship : Holds(j, t) /\ rel[j].kind = "reports_to"}}

\* At every instant nobody has two managers, and no people are above each other in
\* a circle, whatever periods were opened and closed before and after, and in
\* whichever order: among any few people one has no manager in their midst but
\* possibly himself.  Somebody may be their own manager, and a circle of more
\* people than MaxDepth + 1 is not found: the walk compares neither.
HierarchyAsOf == \A t \in Instant :
  /\ \A l, m \in ManagerAsOf(t) : l[1] = m[1] => l = m
  /\ \A S \in SUBSET Person : Cardinality(S) \in 1..(MaxDepth + 1) =>
       \E p \in S : \A q \in S \ {p} : <<p, q>> \notin ManagerAsOf(t)

\* Rows are well formed, and at every instant they are a hierarchy
\* (CreateRelationship, EndRelationship).
PeopleFormAHierarchy == PeopleTypeOK /\ HierarchyAsOf
=============================================================================
