--------------------------- MODULE RecordsProofs ---------------------------
(***************************************************************************)
(* Proofs about Milestones, for any number of milestones and planners, and *)
(* about Organization, for any number of people, relationships and levels  *)
(* of the management walk.                                                 *)
(***************************************************************************)
EXTENDS Milestones, Organization, FiniteSetTheorems, WellFoundedInduction,
        NaturalsInduction, TLAPS

(***************************************************************************)
(* The order of prerequisites.                                             *)
(*                                                                         *)
(* That no milestone reaches itself is not inductive in a form that can be *)
(* used; that every set of milestones has one that waits for none of the   *)
(* set is, and it gives both the absence of cycles and of deadlock.        *)
(***************************************************************************)
WellFounded ==
  \A S \in SUBSET Milestone : S # {} => \E m \in S : Parents(m) \cap S = {}

\* What the recursive query returns contains the parents and their parents.
LEMMA ReachIsClosed ==
  ASSUME NEW p \in Milestone
  PROVE  /\ Reach(p) \in SUBSET Milestone
         /\ Parents(p) \subseteq Reach(p)
         /\ \A v \in Reach(p) : Parents(v) \subseteq Reach(p)
<1>1. Reach(p) \in SUBSET Milestone
  BY DEF Reach
<1>2. Parents(p) \subseteq Reach(p)
  BY DEF Reach, Parents
<1>3. ASSUME NEW v \in Reach(p), NEW w \in Parents(v)
      PROVE  w \in Reach(p)
  <2>1. w \in Milestone
    BY DEF Parents
  <2> SUFFICES ASSUME NEW S \in SUBSET Milestone, Parents(p) \subseteq S,
                      \A x \in S : Parents(x) \subseteq S
               PROVE  w \in S
    BY <2>1 DEF Reach
  <2>2. v \in S
    BY <1>3 DEF Reach
  <2> QED
    BY <1>3, <2>2
<1> QED
  BY <1>1, <1>2, <1>3

\* It contains nothing that a closed set with the parents does not contain.
LEMMA ReachIsLeast ==
  ASSUME NEW p \in Milestone, NEW S \in SUBSET Milestone, Parents(p) \subseteq S,
         \A v \in S : Parents(v) \subseteq S
  PROVE  Reach(p) \subseteq S
  BY DEF Reach

THEOREM WellFoundedIsAcyclic == WellFounded => Acyclic
<1> SUFFICES ASSUME WellFounded, NEW m \in Milestone, m \in Reach(m)
             PROVE  FALSE
  BY DEF Acyclic
<1> DEFINE S == {x \in Reach(m) : m \in Reach(x)}
<1>1. PICK x \in S : Parents(x) \cap S = {}
  <2>1. m \in S /\ S \in SUBSET Milestone
    BY ReachIsClosed
  <2> QED
    BY <2>1 DEF WellFounded
<1>2. x \in Milestone /\ x \in Reach(m) /\ m \in Reach(x)
  BY <1>1, ReachIsClosed
<1> DEFINE C == UNION {{y} \cup Reach(y) : y \in Parents(x)}
<1>3. \A y \in Parents(x) : y \in Milestone
  BY DEF Parents
<1>4. C \in SUBSET Milestone /\ Parents(x) \subseteq C
  BY <1>3, ReachIsClosed
<1>5. \A v \in C : Parents(v) \subseteq C
  <2> SUFFICES ASSUME NEW y \in Parents(x), NEW v \in {y} \cup Reach(y)
               PROVE  Parents(v) \subseteq Reach(y)
    OBVIOUS
  <2> QED
    BY <1>3, ReachIsClosed
<1>6. m \in C
  BY <1>2, <1>4, <1>5, ReachIsLeast
<1>7. PICK y \in Parents(x) : m \in {y} \cup Reach(y)
  BY <1>6
<1>8. y \in Reach(m)
  BY <1>2, <1>7, ReachIsClosed
<1>9. y \in S
  BY <1>7, <1>8
<1> QED
  BY <1>1, <1>7, <1>9

\* A prerequisite that does not wait for the milestone leaves the order well
\* founded: the sets that meet what the prerequisite reaches have a minimum
\* there, where nothing changed, and the others do not contain it.
LEMMA AddKeepsWellFounded ==
  ASSUME WellFounded, NEW m \in Milestone, NEW p \in Milestone,
         m # p, ~WaitsFor(p, m), dep' = dep \cup {<<m, p>>}
  PROVE  WellFounded'
<1> SUFFICES ASSUME NEW S \in SUBSET Milestone, S # {}
             PROVE  \E x \in S : Parents(x)' \cap S = {}
  BY DEF WellFounded
<1> DEFINE R == {p} \cup Reach(p)
<1>1. /\ R \in SUBSET Milestone /\ m \notin R
      /\ \A v \in R : Parents(v) \subseteq R
  BY ReachIsClosed DEF WaitsFor
<1>2. \A x \in Milestone : x # m => Parents(x)' = Parents(x)
  BY DEF Parents
<1>3. Parents(m)' \subseteq Parents(m) \cup {p}
  BY DEF Parents
<1>4. CASE S \cap R # {}
  <2>1. PICK x \in S \cap R : Parents(x) \cap (S \cap R) = {}
    BY <1>1, <1>4 DEF WellFounded
  <2>2. Parents(x) \cap S = {}
    BY <1>1, <2>1
  <2> QED
    BY <1>1, <1>2, <2>1, <2>2
<1>5. CASE S \cap R = {}
  <2>1. PICK x \in S : Parents(x) \cap S = {}
    BY DEF WellFounded
  <2>2. p \notin S
    BY <1>5
  <2> QED
    BY <1>2, <1>3, <2>1, <2>2
<1> QED
  BY <1>4, <1>5
-----------------------------------------------------------------------------
(***************************************************************************)
(* The inductive invariant.                                                *)
(***************************************************************************)

\* Prerequisites are between milestones that exist.
DepIsKnown == \A m, p \in Milestone : <<m, p>> \in dep => Known(m) /\ Known(p)

\* What was read is an older version or the present row.
ReadingsAreRows == \A u \in Planner, m \in Milestone : reading[u][m] # None =>
  /\ Known(m) /\ reading[u][m].version <= milestone[m].version
  /\ reading[u][m].version = milestone[m].version => reading[u][m] = milestone[m]

IInv == TypeOK /\ WellFounded /\ DepIsKnown /\ MetInOrder /\ ReadingsAreRows

LEMMA InitIInv == Init => IInv
<1> SUFFICES ASSUME Init PROVE IInv
  OBVIOUS
<1>1. TypeOK
  BY DEF Init, TypeOK
<1>2. WellFounded
  BY DEF Init, WellFounded, Parents
<1>3. DepIsKnown /\ MetInOrder /\ ReadingsAreRows
  BY DEF Init, DepIsKnown, MetInOrder, ReadingsAreRows
<1> QED
  BY <1>1, <1>2, <1>3 DEF IInv

\* While no prerequisite is added the order stays as it is.
LEMMA SameOrder == WellFounded /\ UNCHANGED dep => WellFounded'
  BY DEF WellFounded, Parents

LEMMA CreateKeeps ==
  ASSUME IInv, NEW m \in Milestone, NEW f \in Day \cup {None}, CreateMilestone(m, f)
  PROVE  IInv'
<1> USE DEF IInv, TypeOK
<1> DEFINE row == [status |-> "planned", forecast |-> f, version |-> 1]
<1>1. row \in MilestoneRow
  BY MilestonesAssumption DEF MilestoneRow
<1>2. TypeOK'
  BY <1>1 DEF CreateMilestone
<1>3. WellFounded'
  BY SameOrder DEF CreateMilestone
<1>4. /\ milestone'[m] = row /\ ~Known(m) /\ Known(m)' /\ ~Met(m)'
      /\ \A x \in Milestone : x # m => milestone'[x] = milestone[x]
  BY <1>1, NoneAssumption DEF CreateMilestone, Known, Met
<1>5. DepIsKnown'
  BY <1>4 DEF CreateMilestone, DepIsKnown, Known
<1>6. MetInOrder'
  BY <1>4 DEF CreateMilestone, DepIsKnown, MetInOrder, Known, Met
<1>7. ReadingsAreRows'
  BY <1>4 DEF CreateMilestone, ReadingsAreRows, Known
<1> QED
  BY <1>2, <1>3, <1>5, <1>6, <1>7

LEMMA GetKeeps ==
  ASSUME IInv, NEW u \in Planner, NEW m \in Milestone, GetMilestone(u, m)
  PROVE  IInv'
<1> USE DEF IInv, TypeOK
<1>1. TypeOK'
  BY DEF GetMilestone
<1>2. WellFounded' /\ DepIsKnown' /\ MetInOrder'
  BY SameOrder DEF GetMilestone, DepIsKnown, MetInOrder, Known, Met
<1>3. milestone[m] \in MilestoneRow /\ milestone[m].version \in Nat
  BY MilestonesAssumption DEF GetMilestone, Known, MilestoneRow
<1>4. ReadingsAreRows'
  BY <1>3 DEF GetMilestone, ReadingsAreRows, Known
<1> QED
  BY <1>1, <1>2, <1>4

\* A new version of m, with the status it had or met when all is ready.
LEMMA RevisionKeeps ==
  ASSUME IInv, NEW m \in Milestone, Known(m), NEW row \in MilestoneRow,
         row.version = milestone[m].version + 1,
         Met(m) => row.status = "met",
         row.status = "met" => Met(m) \/ Ready(m),
         milestone' = [milestone EXCEPT ![m] = row], UNCHANGED <<dep, reading, late>>
  PROVE  IInv'
<1> USE DEF IInv, TypeOK
<1>1. TypeOK'
  OBVIOUS
<1>2. WellFounded'
  BY SameOrder
<1>3. /\ milestone'[m] = row /\ Known(m)' /\ (Met(m)' <=> row.status = "met")
      /\ \A x \in Milestone : x # m => milestone'[x] = milestone[x]
  BY NoneAssumption DEF Known, Met
<1>4. DepIsKnown'
  BY <1>3 DEF DepIsKnown, Known
<1>5. MetInOrder'
  <2> SUFFICES ASSUME NEW x \in Milestone, NEW p \in Milestone,
                      <<x, p>> \in dep \ late, Met(x)'
               PROVE  Met(p)'
    BY DEF MetInOrder
  <2>1. \A y \in Milestone : Met(y) => Met(y)'
    BY <1>3 DEF Met, Known
  <2>2. CASE Met(x)
    BY <2>1, <2>2 DEF MetInOrder
  <2>3. CASE ~Met(x)
    <3>1. x = m /\ Ready(m)
      BY <1>3, <2>3 DEF Met, Known
    <3>2. Met(p)
      BY <3>1 DEF Ready, Parents
    <3> QED
      BY <2>1, <3>2
  <2> QED
    BY <2>2, <2>3
<1>6. milestone[m].version \in Nat
  BY MilestonesAssumption DEF Known, MilestoneRow
<1>7. ReadingsAreRows'
  <2> SUFFICES ASSUME NEW u \in Planner, NEW x \in Milestone, reading[u][x] # None
               PROVE  /\ Known(x)' /\ reading[u][x].version <= milestone'[x].version
                      /\ reading[u][x].version = milestone'[x].version
                           => reading[u][x] = milestone'[x]
    BY DEF ReadingsAreRows
  <2>1. /\ Known(x) /\ reading[u][x].version <= milestone[x].version
        /\ reading[u][x].version = milestone[x].version => reading[u][x] = milestone[x]
    BY DEF ReadingsAreRows
  <2>2. CASE x = m
    <3>1. reading[u][m].version \in Nat
      BY <2>2, MilestonesAssumption DEF MilestoneRow
    <3> QED
      BY <1>3, <1>6, <2>1, <2>2, <3>1
  <2>3. CASE x # m
    BY <1>3, <2>1, <2>3 DEF Known
  <2> QED
    BY <2>2, <2>3
<1> QED
  BY <1>1, <1>2, <1>4, <1>5, <1>7

\* A revision of a row is a row.
LEMMA RevisedRow ==
  ASSUME NEW r \in MilestoneRow, r.version < MaxVersion, NEW f \in Day \cup {None}
  PROVE  /\ [status |-> r.status, forecast |-> f, version |-> r.version + 1] \in MilestoneRow
         /\ [status |-> "met", forecast |-> r.forecast, version |-> r.version + 1] \in MilestoneRow
<1>1. r.version \in 1..MaxVersion /\ r.status \in {"planned", "met"}
      /\ r.forecast \in Day \cup {None}
  BY DEF MilestoneRow
<1>2. r.version + 1 \in 1..MaxVersion
  BY <1>1, MilestonesAssumption
<1> QED
  BY <1>1, <1>2 DEF MilestoneRow

LEMMA ForecastKeeps ==
  ASSUME IInv, NEW m \in Milestone, NEW f \in Day \cup {None}, SetMilestoneForecast(m, f)
  PROVE  IInv'
<1> DEFINE row == [status |-> milestone[m].status, forecast |-> f,
                   version |-> milestone[m].version + 1]
<1>1. milestone[m] \in MilestoneRow /\ milestone[m].version < MaxVersion
  BY DEF IInv, TypeOK, SetMilestoneForecast, Known
<1>2. row \in MilestoneRow /\ row.status = milestone[m].status
      /\ row.version = milestone[m].version + 1
  BY <1>1, RevisedRow
<1>3. milestone' = [milestone EXCEPT ![m] = row]
  BY DEF SetMilestoneForecast
<1> QED
  BY <1>2, <1>3, RevisionKeeps DEF SetMilestoneForecast, Met

LEMMA CompleteKeeps ==
  ASSUME IInv, NEW u \in Planner, NEW m \in Milestone, CompleteMilestone(u, m)
  PROVE  IInv'
<1> DEFINE row == [status |-> "met", forecast |-> milestone[m].forecast,
                   version |-> milestone[m].version + 1]
<1>1. milestone[m] \in MilestoneRow /\ milestone[m].version < MaxVersion
  BY DEF IInv, TypeOK, CompleteMilestone, Known
<1>2. row \in MilestoneRow /\ row.status = "met"
      /\ row.version = milestone[m].version + 1
  BY <1>1, RevisedRow
<1>3. milestone' = [milestone EXCEPT ![m] = row]
  BY DEF CompleteMilestone
<1> QED
  BY <1>2, <1>3, RevisionKeeps DEF CompleteMilestone

LEMMA AddKeeps ==
  ASSUME IInv, NEW m \in Milestone, NEW p \in Milestone, AddMilestoneDependency(m, p)
  PROVE  IInv'
<1> USE DEF IInv, TypeOK
<1>1. TypeOK'
  BY DEF AddMilestoneDependency
<1>2. WellFounded'
  BY AddKeepsWellFounded DEF AddMilestoneDependency
<1>3. DepIsKnown'
  BY DEF AddMilestoneDependency, DepIsKnown, Known
<1>4. MetInOrder'
  BY DEF AddMilestoneDependency, MetInOrder, Met, Known
<1>5. ReadingsAreRows'
  BY DEF AddMilestoneDependency, ReadingsAreRows, Known
<1> QED
  BY <1>1, <1>2, <1>3, <1>4, <1>5

LEMMA NextIInv == IInv /\ [Next]_vars => IInv'
<1>1. ASSUME IInv, UNCHANGED vars PROVE IInv'
  BY <1>1 DEF vars, IInv, TypeOK, WellFounded, DepIsKnown, MetInOrder,
              ReadingsAreRows, Parents, Known, Met
<1> QED
  BY <1>1, CreateKeeps, GetKeeps, ForecastKeeps, CompleteKeeps, AddKeeps DEF Next

THEOREM Invariance == Spec => []IInv
  BY InitIInv, NextIInv, PTL DEF Spec
-----------------------------------------------------------------------------
(***************************************************************************)
(* The properties.                                                         *)
(***************************************************************************)

\* The type invariant.
THEOREM TypeCorrect == Spec => []TypeOK
<1>1. IInv => TypeOK
  BY DEF IInv
<1> QED
  BY <1>1, Invariance, PTL

\* No order of calls to AddMilestoneDependency closes a cycle.
THEOREM NoCycles == Spec => []Acyclic
<1>1. IInv => Acyclic
  BY WellFoundedIsAcyclic DEF IInv
<1> QED
  BY <1>1, Invariance, PTL

\* While something is not met, something can be met next.
THEOREM PlanNeverDeadlocks == Spec => []SomethingIsReady
<1>1. ASSUME IInv, NEW x \in Milestone, Known(x), ~Met(x)
      PROVE  \E m \in Milestone : Known(m) /\ ~Met(m) /\ Ready(m)
  <2> DEFINE S == {m \in Milestone : Known(m) /\ ~Met(m)}
  <2>1. PICK m \in S : Parents(m) \cap S = {}
    BY <1>1 DEF IInv, WellFounded
  <2>2. Ready(m)
    BY <1>1, <2>1 DEF IInv, DepIsKnown, Ready, Parents
  <2> QED
    BY <2>1, <2>2
<1>2. IInv => SomethingIsReady
  BY <1>1 DEF SomethingIsReady
<1> QED
  BY <1>2, Invariance, PTL

\* Milestones are met after the prerequisites that were known.
THEOREM MetAfterKnownPrerequisites == Spec => []MetInOrder
<1>1. IInv => MetInOrder
  BY DEF IInv
<1> QED
  BY <1>1, Invariance, PTL

\* The plan can be followed, and what is met was met in its order.
THEOREM PlanIsKept == Spec => []PlanIsFollowed
<1>1. SomethingIsReady /\ MetInOrder => PlanIsFollowed
  BY DEF PlanIsFollowed
<1> QED
  BY <1>1, PlanNeverDeadlocks, MetAfterKnownPrerequisites, PTL

\* Whoever calls a milestone met has read its present forecast.
THEOREM NobodyMeetsAnOldReading == Spec => MetAsRead
<1>1. ASSUME IInv, [Next]_vars, NEW m \in Milestone, ~Met(m), Met(m)'
      PROVE  \E u \in Planner : reading[u][m] = milestone[m]
  <2>1. ASSUME NEW x \in Milestone, NEW f \in Day \cup {None}, CreateMilestone(x, f)
        PROVE  FALSE
    BY <1>1, <2>1 DEF IInv, TypeOK, CreateMilestone, Met, Known
  <2>2. ASSUME NEW x \in Milestone, NEW f \in Day \cup {None}, SetMilestoneForecast(x, f)
        PROVE  FALSE
    <3>1. milestone[x] \in MilestoneRow
      BY <1>1, <2>2 DEF IInv, TypeOK, SetMilestoneForecast, Known
    <3> QED
      BY <1>1, <2>2, <3>1 DEF IInv, TypeOK, SetMilestoneForecast, Met, Known, MilestoneRow
  <2>3. ASSUME NEW x \in Milestone, NEW u \in Planner, CompleteMilestone(u, x)
        PROVE  \E v \in Planner : reading[v][m] = milestone[m]
    <3>1. x = m
      BY <1>1, <2>3 DEF IInv, TypeOK, CompleteMilestone, Met, Known
    <3> QED
      BY <1>1, <2>3, <3>1 DEF IInv, ReadingsAreRows, CompleteMilestone
  <2>4. ASSUME UNCHANGED milestone PROVE FALSE
    BY <1>1, <2>4 DEF Met, Known
  <2> QED
    BY <1>1, <2>1, <2>2, <2>3, <2>4 DEF Next, GetMilestone, AddMilestoneDependency, vars
<1>2. IInv /\ [Next]_vars => [\A m \in Milestone : ~Met(m) /\ Met(m)' =>
        \E u \in Planner : reading[u][m] = milestone[m]]_vars
  BY <1>1
<1> QED
  BY <1>2, Invariance, PTL DEF Spec, MetAsRead
-----------------------------------------------------------------------------
(***************************************************************************)
(* Induction, without a theorem that takes an operator.                    *)
(***************************************************************************)

\* Every set of naturals with a member has a least one.
LEMMA Least ==
  ASSUME NEW T \in SUBSET Nat, T # {}
  PROVE  \E n \in T : \A m \in T : n <= m
<1>1. PICK x \in T : \A y \in T : ~ (<<y, x>> \in OpToRel(<, Nat))
  BY WFMin, NatLessThanWellFounded
<1>2. ASSUME NEW y \in T PROVE x <= y
  <2>1. ~ (y < x)
    BY <1>1 DEF OpToRel
  <2> QED
    BY <2>1
<1> QED
  BY <1>2

\* f goes from base by step, n times.
Iteration(f, S, base, step, n) ==
  f \in [0..n -> S] /\ f[0] = base /\ \A i \in 1..n : f[i] = step[f[i - 1]]

LEMMA Iterates ==
  ASSUME NEW S, NEW base \in S, NEW step \in [S -> S], NEW n \in Nat
  PROVE  \E f : Iteration(f, S, base, step, n)
<1> DEFINE Good(k) == \E f : Iteration(f, S, base, step, k)
           T == {k \in Nat : ~Good(k)}
<1> SUFFICES ASSUME ~Good(n) PROVE FALSE
  OBVIOUS
<1>1. PICK k \in T : \A m \in T : k <= m
  BY Least
<1>2. Good(0)
  <2>1. Iteration([i \in 0..0 |-> base], S, base, step, 0)
    BY DEF Iteration
  <2> QED
    BY <2>1
<1>3. k \in Nat /\ k # 0 /\ k - 1 \in Nat
  BY <1>2
<1>4. Good(k - 1)
  <2> HIDE DEF Good
  <2>1. k - 1 \notin T
    BY <1>1, <1>3
  <2> QED
    BY <1>3, <2>1
<1>5. PICK g : Iteration(g, S, base, step, k - 1)
  BY <1>4
<1> DEFINE f == [i \in 0..k |-> IF i = k THEN step[g[k - 1]] ELSE g[i]]
<1>6. Iteration(f, S, base, step, k)
  <2>1. f \in [0..k -> S]
    BY <1>3, <1>5 DEF Iteration
  <2>2. f[0] = base /\ \A i \in 1..k : f[i] = step[f[i - 1]]
    BY <1>3, <1>5 DEF Iteration
  <2> QED
    BY <2>1, <2>2 DEF Iteration
<1> QED
  BY <1>1, <1>6
-----------------------------------------------------------------------------
(***************************************************************************)
(* The walk for a management cycle.                                        *)
(***************************************************************************)

\* One level of the walk, from the people x.
Level(manager, valid, x) == UNION {Managers(p, valid) : p \in {manager} \cup x}

\* Managers are people.
LEMMA ManagersArePeople ==
  ASSUME PeopleTypeOK, NEW p, NEW valid
  PROVE  Managers(p, valid) \subseteq Person
<1> SUFFICES ASSUME NEW i \in Relationship, rel[i] # NoRow, rel[i].kind = "reports_to"
             PROVE  rel[i].object \in Person
  BY DEF Managers, Lines
<1> QED
  BY DEF PeopleTypeOK

\* The walk begins with nobody and goes up one level at a time.
LEMMA ChainClimbs ==
  ASSUME PeopleTypeOK, NEW manager, NEW valid
  PROVE  /\ Chain(manager, valid)[0] = {}
         /\ \A d \in 1..MaxDepth : Chain(manager, valid)[d] =
              Level(manager, valid, Chain(manager, valid)[d - 1])
         /\ \A d \in 0..MaxDepth : Chain(manager, valid)[d] \subseteq Person
<1> DEFINE S    == SUBSET Person
           step == [x \in S |-> Level(manager, valid, x)]
           Walk(f) == [d \in 0..MaxDepth |->
             IF d = 0 THEN {}
             ELSE UNION {Managers(p, valid) : p \in {manager} \cup f[d - 1]}]
<1>1. step \in [S -> S]
  BY ManagersArePeople DEF Level
<1>2. PICK f : Iteration(f, S, {}, step, MaxDepth)
  <2>1. {} \in S /\ MaxDepth \in Nat
    BY OrganizationAssumption
  <2> HIDE DEF step, S
  <2> QED
    BY <1>1, <2>1, Iterates
<1>3. f = Walk(f)
  <2>1. /\ f \in [0..MaxDepth -> S] /\ f[0] = {}
        /\ \A i \in 1..MaxDepth : f[i] = step[f[i - 1]]
    BY <1>2 DEF Iteration
  <2>2. ASSUME NEW d \in 0..MaxDepth
        PROVE  f[d] = IF d = 0 THEN {}
                      ELSE UNION {Managers(p, valid) : p \in {manager} \cup f[d - 1]}
    <3>1. CASE d # 0
      <4>1. d \in 1..MaxDepth /\ d - 1 \in 0..MaxDepth
        BY <3>1, OrganizationAssumption
      <4>2. f[d - 1] \in S /\ f[d] = step[f[d - 1]]
        BY <2>1, <4>1
      <4> QED
        BY <3>1, <4>2 DEF Level
    <3> QED
      BY <2>1, <3>1
  <2> QED
    BY <2>1, <2>2
<1>4. Chain(manager, valid) = Walk(Chain(manager, valid))
  <2>1. \E h : h = Walk(h)
    BY <1>3
  <2> QED
    BY <2>1, Zenon DEF Chain
<1> DEFINE above == Chain(manager, valid)
<1>5. /\ above[0] = {}
      /\ \A d \in 1..MaxDepth : above[d] = Level(manager, valid, above[d - 1])
  <2> HIDE DEF above
  <2>1. above = Walk(above)
    BY <1>4 DEF above
  <2>2. above[0] = {}
    BY <2>1, OrganizationAssumption
  <2>3. ASSUME NEW d \in 1..MaxDepth
        PROVE  above[d] = Level(manager, valid, above[d - 1])
    <3>1. d \in 0..MaxDepth /\ d # 0
      BY OrganizationAssumption
    <3> QED
      BY <2>1, <3>1, Zenon DEF Level
  <2> QED
    BY <2>2, <2>3
<1>6. \A d \in 0..MaxDepth : above[d] \subseteq Person
  <2> HIDE DEF above
  <2> SUFFICES ASSUME NEW d \in 0..MaxDepth
               PROVE  above[d] \subseteq Person
    OBVIOUS
  <2>1. CASE d # 0
    <3>1. d \in 1..MaxDepth
      BY <2>1, OrganizationAssumption
    <3> QED
      BY <1>5, <3>1, ManagersArePeople DEF Level
  <2> QED
    BY <1>5, <2>1
<1> QED
  BY <1>5, <1>6

\* Who is met at one level is met at every higher one.
LEMMA ChainGrows ==
  ASSUME PeopleTypeOK, NEW manager, NEW valid, NEW d \in 0..MaxDepth, NEW e \in 0..d
  PROVE  Chain(manager, valid)[e] \subseteq Chain(manager, valid)[d]
<1> DEFINE above(i) == Chain(manager, valid)[i]
<1>1. /\ above(0) = {}
      /\ \A i \in 1..MaxDepth : above(i) = Level(manager, valid, above(i - 1))
  BY ChainClimbs
<1> HIDE DEF above
<1>2. \A i \in 1..MaxDepth : above(i - 1) \subseteq above(i)
  <2> DEFINE T == {i \in 1..MaxDepth : ~(above(i - 1) \subseteq above(i))}
  <2> SUFFICES ASSUME T # {} PROVE FALSE
    OBVIOUS
  <2>1. T \in SUBSET Nat
    BY OrganizationAssumption
  <2>2. PICK i \in T : \A j \in T : i <= j
    <3> HIDE DEF T
    <3> QED
      BY <2>1, Least
  <2>3. i \in 1..MaxDepth /\ i # 1
    BY <1>1, <2>2
  <2>4. i - 1 \in 1..MaxDepth /\ i - 1 \notin T /\ i - 2 = (i - 1) - 1
    BY <2>2, <2>3, OrganizationAssumption
  <2>5. above(i - 2) \subseteq above(i - 1)
    BY <2>4
  <2>6. /\ above(i - 1) = Level(manager, valid, above(i - 2))
        /\ above(i) = Level(manager, valid, above(i - 1))
    BY <1>1, <2>3, <2>4
  <2>7. above(i - 1) \subseteq above(i)
    BY <2>5, <2>6 DEF Level
  <2> QED
    BY <2>2, <2>7
<1> DEFINE T == {i \in 0..MaxDepth : \E j \in 0..i : ~(above(j) \subseteq above(i))}
<1>3. T = {}
  <2> SUFFICES ASSUME T # {} PROVE FALSE
    OBVIOUS
  <2>1. T \in SUBSET Nat
    BY OrganizationAssumption
  <2>2. PICK i \in T : \A j \in T : i <= j
    <3> HIDE DEF T
    <3> QED
      BY <2>1, Least
  <2>3. PICK j \in 0..i : ~(above(j) \subseteq above(i))
    BY <2>2
  <2>4. i \in 0..MaxDepth /\ i # j /\ j \in 0..(i - 1) /\ i \in 1..MaxDepth
    BY <2>2, <2>3, OrganizationAssumption
  <2>5. i - 1 \in 0..MaxDepth /\ i - 1 \notin T
    BY <2>2, <2>4, OrganizationAssumption
  <2>6. above(j) \subseteq above(i - 1)
    BY <2>4, <2>5
  <2> QED
    BY <1>2, <2>3, <2>4, <2>6
<1>4. above(e) \subseteq above(d)
  BY <1>3
<1> QED
  BY <1>4 DEF above

\* A circle of MaxDepth + 1 people at most is found, if there was none before: of
\* the circle the walk meets one more person at each level.
LEMMA CirclesAreFound ==
  ASSUME PeopleTypeOK, NEW s, NEW m, s # m, NEW valid,
         NEW S \in SUBSET Person, s \in S, m \in S, Cardinality(S) <= MaxDepth + 1,
         NEW lines,
         \A p \in S, q \in S : <<p, q>> \in lines => q \in Managers(p, valid),
         \A p \in S \ {s} : \E q \in S \ {p} : <<p, q>> \in lines,
         \A Q \in SUBSET (S \ {s}) : Q # {} =>
           \E p \in Q : \A q \in Q \ {p} : <<p, q>> \notin lines
  PROVE  s \in Chain(m, valid)[MaxDepth]
<1> SUFFICES ASSUME s \notin Chain(m, valid)[MaxDepth] PROVE FALSE
  OBVIOUS
<1> DEFINE above(d) == Chain(m, valid)[d]
           R(d)     == ({m} \cup above(d)) \cap S
<1>1. /\ above(0) = {}
      /\ \A d \in 1..MaxDepth : above(d) = Level(m, valid, above(d - 1))
  BY ChainClimbs
<1>2. \A d \in 0..MaxDepth, e \in 0..MaxDepth : e <= d => above(e) \subseteq above(d)
  <2> SUFFICES ASSUME NEW d \in 0..MaxDepth, NEW e \in 0..MaxDepth, e <= d
               PROVE  Chain(m, valid)[e] \subseteq Chain(m, valid)[d]
    OBVIOUS
  <2>1. e \in 0..d
    BY OrganizationAssumption
  <2> QED
    BY <2>1, ChainGrows
<1>3. s \notin above(MaxDepth)
  OBVIOUS
<1> HIDE DEF above
<1>4. \A d \in 0..MaxDepth : R(d) \subseteq S \ {s}
  BY <1>2, <1>3, OrganizationAssumption
<1>5. IsFiniteSet(S) /\ \A d \in 0..MaxDepth : IsFiniteSet(R(d)) /\ Cardinality(R(d)) \in Nat
  BY FS_Subset, FS_CardinalityType, OrganizationAssumption
<1>6. ASSUME NEW d \in 1..MaxDepth
      PROVE  Cardinality(R(d - 1)) < Cardinality(R(d))
  <2>1. d - 1 \in 0..MaxDepth /\ d \in 0..MaxDepth /\ d - 1 <= d
    BY OrganizationAssumption
  <2>2. R(d - 1) \subseteq R(d)
    BY <1>2, <2>1
  <2>3. PICK p \in R(d - 1) : \A q \in R(d - 1) \ {p} : <<p, q>> \notin lines
    <3>1. m \in R(d - 1) /\ R(d - 1) \in SUBSET (S \ {s})
      BY <1>4, <2>1
    <3> QED
      BY <3>1
  <2>4. PICK q \in S \ {p} : <<p, q>> \in lines
    BY <1>4, <2>1, <2>3
  <2>5. q \in Managers(p, valid)
    BY <2>3, <2>4
  <2>6. q \in R(d)
    BY <1>1, <2>3, <2>4, <2>5 DEF Level
  <2>7. R(d - 1) # R(d)
    BY <2>3, <2>4, <2>6
  <2> HIDE DEF R
  <2>8. Cardinality(R(d - 1)) <= Cardinality(R(d)) /\ Cardinality(R(d)) # Cardinality(R(d - 1))
    BY <1>5, <2>1, <2>2, <2>7, FS_Subset
  <2> QED
    BY <1>5, <2>1, <2>8
<1>7. \A d \in 0..MaxDepth : Cardinality(R(d)) >= d + 1
  <2> DEFINE T == {d \in 0..MaxDepth : ~(Cardinality(R(d)) >= d + 1)}
  <2> SUFFICES ASSUME T # {} PROVE FALSE
    OBVIOUS
  <2>1. PICK d \in T : \A e \in T : d <= e
    <3>1. T \in SUBSET Nat
      BY OrganizationAssumption
    <3> HIDE DEF T
    <3> QED
      BY <3>1, Least
  <2>2. Cardinality(R(0)) = 1
    <3>1. R(0) = {m}
      BY <1>1
    <3> QED
      BY <3>1, FS_Singleton
  <2> HIDE DEF R
  <2>3. d \in 1..MaxDepth /\ d - 1 \in 0..MaxDepth /\ d - 1 \notin T
    BY <2>1, <2>2, OrganizationAssumption
  <2>4. Cardinality(R(d - 1)) >= d
    BY <2>3
  <2>5. Cardinality(R(d)) \in Nat /\ Cardinality(R(d - 1)) \in Nat
    BY <1>5, <2>3
  <2>6. Cardinality(R(d)) >= d + 1
    BY <1>6, <2>3, <2>4, <2>5
  <2> QED
    BY <2>1, <2>6
<1>8. MaxDepth \in 0..MaxDepth /\ MaxDepth \in Nat
  BY OrganizationAssumption
<1>9. Cardinality(S \ {s}) = Cardinality(S) - 1 /\ IsFiniteSet(S \ {s})
  BY <1>5, FS_RemoveElement
<1>10. Cardinality(R(MaxDepth)) <= Cardinality(S \ {s})
  BY <1>4, <1>8, <1>9, FS_Subset
<1>11. Cardinality(S) \in Nat
  BY <1>5, FS_CardinalityType
<1> HIDE DEF R
<1>12. Cardinality(R(MaxDepth)) \in Nat /\ Cardinality(R(MaxDepth)) >= MaxDepth + 1
  BY <1>5, <1>7, <1>8
<1> QED
  BY <1>8, <1>9, <1>10, <1>11, <1>12
-----------------------------------------------------------------------------
(***************************************************************************)
(* The hierarchy, as an inductive invariant.                               *)
(***************************************************************************)

IsLine(i) == rel[i] # NoRow /\ rel[i].kind = "reports_to"

\* Nobody has two managers at a time.
OneManager == \A i, j \in Relationship :
  i # j /\ IsLine(i) /\ IsLine(j) /\ rel[i].subject = rel[j].subject
    => ~Overlap(rel[i].valid, rel[j].valid)

NoCircle == \A t \in Instant, S \in SUBSET Person :
  Cardinality(S) \in 1..(MaxDepth + 1) =>
    \E p \in S : \A q \in S \ {p} : <<p, q>> \notin ManagerAsOf(t)

PeopleInv == PeopleTypeOK /\ OneManager /\ NoCircle

\* Bounds of periods are instants.
LEMMA PeriodBounds ==
  ASSUME NEW v \in Period
  PROVE  v.from \in Int /\ v.to \in Int /\ v.from < v.to
  BY OrganizationAssumption DEF Period, Instant, Forever

\* The pairs of a line, of managers at an instant, and of a period.
LEMMA ManagerLines ==
  ASSUME NEW t, NEW p, NEW q
  PROVE  <<p, q>> \in ManagerAsOf(t) <=>
           \E i \in Relationship : /\ IsLine(i) /\ rel[i].valid.from <= t /\ t < rel[i].valid.to
                                   /\ rel[i].subject = p /\ rel[i].object = q
  BY DEF ManagerAsOf, Holds, IsLine

\* A line that holds at an instant of a period is one of the period.
LEMMA ManagersOfThePeriod ==
  ASSUME PeopleTypeOK, NEW valid \in Period, NEW t \in Instant,
         valid.from <= t, t < valid.to, NEW p, NEW q, <<p, q>> \in ManagerAsOf(t)
  PROVE  q \in Managers(p, valid)
<1>1. PICK i \in Relationship :
        /\ IsLine(i) /\ rel[i].valid.from <= t /\ t < rel[i].valid.to
        /\ rel[i].subject = p /\ rel[i].object = q
  BY ManagerLines
<1>2. rel[i].valid \in Period
  BY <1>1 DEF PeopleTypeOK, RelationshipRow, IsLine
<1>3. Overlap(rel[i].valid, valid)
  <2>1. t \in Int
    BY OrganizationAssumption DEF Instant
  <2>2. /\ rel[i].valid.from \in Int /\ rel[i].valid.to \in Int
        /\ valid.from \in Int /\ valid.to \in Int
    BY <1>2, PeriodBounds
  <2> QED
    BY <1>1, <2>1, <2>2 DEF Overlap
<1> QED
  BY <1>1, <1>3 DEF Managers, Lines, IsLine

\* A new relationship leaves a hierarchy: a line that closes a circle is refused.
LEMMA CreateRelationshipKeeps ==
  ASSUME PeopleInv, NEW i \in Relationship, NEW s \in Person, NEW kind \in Kind,
         NEW object \in Person \cup Position, NEW valid \in Period,
         CreateRelationship(i, s, kind, object, valid)
  PROVE  PeopleInv'
<1> DEFINE row == [subject |-> s, kind |-> kind, object |-> object, valid |-> valid]
<1>1. row \in RelationshipRow
  BY DEF RelationshipRow
<1>2. rel' = [rel EXCEPT ![i] = row] /\ UNCHANGED <<active, position>> /\ rel[i] = NoRow
  BY DEF CreateRelationship
<1>3. rel'[i] = row /\ \A j \in Relationship \ {i} : rel'[j] = rel[j]
  BY <1>2 DEF PeopleInv, PeopleTypeOK
<1>4. PeopleTypeOK'
  <2>1. object \in IF kind = "member_of" THEN Position ELSE Person
    BY DEF CreateRelationship
  <2>2. rel' \in [Relationship -> RelationshipRow \cup {NoRow}]
    BY <1>1, <1>2 DEF PeopleInv, PeopleTypeOK
  <2>3. \A j \in Relationship : rel'[j] # NoRow =>
          rel'[j].object \in IF rel'[j].kind = "member_of" THEN Position ELSE Person
    BY <1>3, <2>1 DEF PeopleInv, PeopleTypeOK
  <2> QED
    BY <1>2, <2>2, <2>3 DEF PeopleInv, PeopleTypeOK
<1>5. OneManager'
  <2> SUFFICES ASSUME NEW j \in Relationship, NEW k \in Relationship, j # k,
                      IsLine(j)', IsLine(k)', rel'[j].subject = rel'[k].subject
               PROVE  ~Overlap(rel'[j].valid, rel'[k].valid)
    BY DEF OneManager
  <2>1. CASE i \notin {j, k}
    BY <1>3, <2>1 DEF PeopleInv, OneManager, IsLine
  <2>2. CASE i = j
    BY <1>3, <2>2 DEF CreateRelationship, Exclusive, IsLine, Overlap
  <2>3. CASE i = k
    BY <1>3, <2>3 DEF CreateRelationship, Exclusive, IsLine, Overlap
  <2> QED
    BY <2>1, <2>2, <2>3
<1>6. NoCircle'
  <2> SUFFICES ASSUME NEW t \in Instant, NEW S \in SUBSET Person,
                      Cardinality(S) \in 1..(MaxDepth + 1),
                      \A p \in S : \E q \in S \ {p} : <<p, q>> \in ManagerAsOf(t)'
               PROVE  FALSE
    BY DEF NoCircle
  <2> DEFINE lines == ManagerAsOf(t)
  <2>1. ASSUME NEW p \in S, NEW q \in S, <<p, q>> \in ManagerAsOf(t)', <<p, q>> \notin lines
        PROVE  /\ kind = "reports_to" /\ p = s /\ q = object
               /\ valid.from <= t /\ t < valid.to
    <3>1. PICK j \in Relationship :
            /\ IsLine(j)' /\ rel'[j].valid.from <= t /\ t < rel'[j].valid.to
            /\ rel'[j].subject = p /\ rel'[j].object = q
      BY <2>1 DEF ManagerAsOf, Holds, IsLine
    <3>2. j = i
      BY <1>3, <2>1, <3>1, ManagerLines DEF IsLine
    <3> QED
      BY <1>3, <3>1, <3>2 DEF IsLine
  <2>2. PICK x \in S : \A q \in S \ {x} : <<x, q>> \notin lines
    BY DEF PeopleInv, NoCircle
  <2>3. PICK y \in S \ {x} : <<x, y>> \in ManagerAsOf(t)'
    OBVIOUS
  <2>4. /\ kind = "reports_to" /\ x = s /\ y = object
        /\ valid.from <= t /\ t < valid.to
    BY <2>1, <2>2, <2>3
  <2>5. \A p \in S \ {s} : \E q \in S \ {p} : <<p, q>> \in lines
    BY <2>1, <2>4
  <2>6. IsFiniteSet(S) /\ Cardinality(S) <= MaxDepth + 1
    BY FS_Subset, OrganizationAssumption
  <2>7. ASSUME NEW Q \in SUBSET (S \ {s}), Q # {}
        PROVE  \E p \in Q : \A q \in Q \ {p} : <<p, q>> \notin lines
    <3>1. IsFiniteSet(Q) /\ Cardinality(Q) <= Cardinality(S)
      BY <2>6, FS_Subset
    <3>2. Cardinality(Q) \in Nat /\ Cardinality(S) \in Nat
      BY <2>6, <3>1, FS_CardinalityType
    <3>3. Cardinality(Q) # 0
      BY <2>7, <3>1, FS_EmptySet
    <3>4. Cardinality(Q) \in 1..(MaxDepth + 1)
      BY <2>6, <3>1, <3>2, <3>3, OrganizationAssumption
    <3> QED
      BY <3>4 DEF PeopleInv, NoCircle
  <2>8. \A p \in S, q \in S : <<p, q>> \in lines => q \in Managers(p, valid)
    BY <2>4, ManagersOfThePeriod DEF PeopleInv
  <2>9. s \in S /\ object \in S /\ s # object /\ PeopleTypeOK
    BY <2>3, <2>4 DEF PeopleInv
  <2> HIDE DEF lines
  <2>10. s \in Chain(object, valid)[MaxDepth]
    BY <2>5, <2>6, <2>7, <2>8, <2>9, CirclesAreFound
  <2> QED
    BY <2>4, <2>10 DEF CreateRelationship, DetectManagementCycle
<1> QED
  BY <1>4, <1>5, <1>6 DEF PeopleInv

\* A relationship that is ended holds for a part of the time it did.
LEMMA Shortened ==
  ASSUME PeopleTypeOK, NEW i \in Relationship, NEW at \in Instant, EndRelationship(i, at)
  PROVE  /\ rel' \in [Relationship -> RelationshipRow \cup {NoRow}]
         /\ \A j \in Relationship : rel'[j] # NoRow =>
              /\ rel[j] # NoRow /\ rel'[j].subject = rel[j].subject
              /\ rel'[j].kind = rel[j].kind /\ rel'[j].object = rel[j].object
              /\ rel'[j].valid.from = rel[j].valid.from
              /\ rel'[j].valid.to <= rel[j].valid.to
         /\ UNCHANGED <<active, position>>
<1>1. /\ rel[i] \in RelationshipRow /\ rel[i] # NoRow /\ rel[i].valid.from < at
      /\ UNCHANGED <<active, position>>
  BY DEF EndRelationship, PeopleTypeOK
<1>2. \A j \in Relationship : rel[j] # NoRow =>
        rel[j].valid \in Period /\ rel[j].valid.to \in Int
  BY PeriodBounds DEF PeopleTypeOK, RelationshipRow
<1>3. CASE at < rel[i].valid.to
  <2> DEFINE valid == [from |-> rel[i].valid.from, to |-> at]
             row   == [subject |-> rel[i].subject, kind |-> rel[i].kind,
                       object |-> rel[i].object, valid |-> valid]
  <2>1. valid \in Period
    <3>1. rel[i].valid \in [from : Instant, to : 1..Forever]
      BY <1>1 DEF RelationshipRow, Period
    <3>2. rel[i].valid.from \in Instant /\ at \in 1..Forever
      BY <1>1, <3>1, OrganizationAssumption DEF Instant, Forever
    <3> QED
      BY <1>1, <3>2 DEF Period
  <2>2. row \in RelationshipRow
    BY <1>1, <2>1 DEF RelationshipRow
  <2>3. rel' = [rel EXCEPT ![i] = row]
    <3>1. rel' = [rel EXCEPT ![i].valid.to = at]
      BY <1>3 DEF EndRelationship
    <3>2. [rel[i] EXCEPT !.valid = valid] = row
      BY <1>1 DEF RelationshipRow
    <3>3. [rel[i].valid EXCEPT !.to = at] = valid
      BY <1>1 DEF RelationshipRow, Period
    <3> QED
      BY <3>1, <3>2, <3>3, Zenon
  <2> HIDE DEF row
  <2>4. rel' \in [Relationship -> RelationshipRow \cup {NoRow}]
    BY <2>2, <2>3 DEF PeopleTypeOK
  <2>5. rel'[i] = row /\ \A j \in Relationship \ {i} : rel'[j] = rel[j]
    BY <2>3 DEF PeopleTypeOK
  <2>6. at \in Int
    BY OrganizationAssumption DEF Instant
  <2> QED
    BY <1>1, <1>2, <1>3, <2>4, <2>5, <2>6 DEF row
<1>4. CASE ~(at < rel[i].valid.to)
  <2>1. rel' = rel
    BY <1>4 DEF EndRelationship
  <2> QED
    BY <1>1, <1>2, <2>1 DEF PeopleTypeOK
<1> QED
  BY <1>3, <1>4

\* With fewer lines, or with the same ones, the hierarchy stays.
LEMMA EndRelationshipKeeps ==
  ASSUME PeopleInv, NEW i \in Relationship, NEW at \in Instant, EndRelationship(i, at)
  PROVE  PeopleInv'
<1>1. /\ rel' \in [Relationship -> RelationshipRow \cup {NoRow}]
      /\ \A j \in Relationship : rel'[j] # NoRow =>
           /\ rel[j] # NoRow /\ rel'[j].subject = rel[j].subject
           /\ rel'[j].kind = rel[j].kind /\ rel'[j].object = rel[j].object
           /\ rel'[j].valid.from = rel[j].valid.from
           /\ rel'[j].valid.to <= rel[j].valid.to
      /\ UNCHANGED <<active, position>>
  BY Shortened DEF PeopleInv
<1>2. PeopleTypeOK'
  BY <1>1 DEF PeopleInv, PeopleTypeOK
<1>3. \A j \in Relationship : rel'[j] # NoRow =>
        /\ rel[j].valid.from \in Int /\ rel[j].valid.to \in Int
        /\ rel'[j].valid.from \in Int /\ rel'[j].valid.to \in Int
  <2> SUFFICES ASSUME NEW j \in Relationship, rel'[j] # NoRow
               PROVE  rel[j].valid \in Period /\ rel'[j].valid \in Period
    BY PeriodBounds
  <2> QED
    BY <1>1 DEF PeopleInv, PeopleTypeOK, RelationshipRow
<1>4. OneManager'
  <2> SUFFICES ASSUME NEW j \in Relationship, NEW k \in Relationship, j # k,
                      IsLine(j)', IsLine(k)', rel'[j].subject = rel'[k].subject,
                      Overlap(rel'[j].valid, rel'[k].valid)
               PROVE  FALSE
    BY DEF OneManager
  <2>1. IsLine(j) /\ IsLine(k) /\ rel[j].subject = rel[k].subject
    BY <1>1 DEF IsLine
  <2>2. Overlap(rel[j].valid, rel[k].valid)
    BY <1>1, <1>3 DEF IsLine, Overlap
  <2> QED
    BY <2>1, <2>2 DEF PeopleInv, OneManager
<1>5. \A t \in Instant : ManagerAsOf(t)' \subseteq ManagerAsOf(t)
  <2> SUFFICES ASSUME NEW t \in Instant, NEW j \in Relationship, IsLine(j)',
                      rel'[j].valid.from <= t, t < rel'[j].valid.to
               PROVE  <<rel'[j].subject, rel'[j].object>> \in ManagerAsOf(t)
    BY DEF ManagerAsOf, Holds, IsLine
  <2>1. IsLine(j) /\ rel[j].subject = rel'[j].subject /\ rel[j].object = rel'[j].object
    BY <1>1 DEF IsLine
  <2>2. rel[j].valid.from <= t /\ t < rel[j].valid.to
    BY <1>1, <1>3, OrganizationAssumption DEF IsLine, Instant
  <2> QED
    BY <2>1, <2>2 DEF ManagerAsOf, Holds, IsLine
<1>6. NoCircle'
  BY <1>5 DEF PeopleInv, NoCircle
<1> QED
  BY <1>2, <1>4, <1>6 DEF PeopleInv

\* Steps that touch no relationship.
LEMMA OthersKeep ==
  ASSUME PeopleInv, UNCHANGED rel,
         active' \in [Person -> BOOLEAN], position' \in [Position -> Position \cup {NoRow}]
  PROVE  PeopleInv'
  BY DEF PeopleInv, PeopleTypeOK, OneManager, NoCircle, IsLine, ManagerAsOf, Holds

\* The invariant holds of every state of Organization.
THEOREM PeopleInvariance == PeopleSpec => []PeopleInv
<1>1. PeopleInit => PeopleInv
  <2> SUFFICES ASSUME PeopleInit PROVE PeopleInv
    OBVIOUS
  <2>1. PeopleTypeOK /\ OneManager
    BY DEF PeopleInit, PeopleTypeOK, OneManager, IsLine
  <2>2. \A t \in Instant : ManagerAsOf(t) = {}
    BY DEF PeopleInit, ManagerAsOf, Holds
  <2>3. \A S \in SUBSET Person : Cardinality(S) \in 1..(MaxDepth + 1) => S # {}
    BY FS_EmptySet
  <2>4. NoCircle
    BY <2>2, <2>3 DEF NoCircle
  <2> QED
    BY <2>1, <2>4 DEF PeopleInv
<1>2. PeopleInv /\ [PeopleNext]_people => PeopleInv'
  <2> SUFFICES ASSUME PeopleInv, [PeopleNext]_people PROVE PeopleInv'
    OBVIOUS
  <2>1. ASSUME NEW n \in Position, NEW parent \in Position, CreatePosition(n, parent)
        PROVE  PeopleInv'
    BY <2>1, OthersKeep DEF CreatePosition, PeopleInv, PeopleTypeOK
  <2>2. ASSUME NEW p \in Person, Revoke(p)
        PROVE  PeopleInv'
    BY <2>2, OthersKeep DEF Revoke, PeopleInv, PeopleTypeOK
  <2>3. ASSUME UNCHANGED people
        PROVE  PeopleInv'
    BY <2>3, OthersKeep DEF people, PeopleInv, PeopleTypeOK
  <2> QED
    BY <2>1, <2>2, <2>3, CreateRelationshipKeeps, EndRelationshipKeeps DEF PeopleNext
<1> QED
  BY <1>1, <1>2, PTL DEF PeopleSpec

\* At every instant, past or to come, people form a hierarchy: one manager each,
\* and no circle as small as the walk is deep.
THEOREM PeopleHierarchy == PeopleSpec => []PeopleFormAHierarchy
<1>1. ASSUME PeopleInv, NEW t \in Instant, NEW l \in ManagerAsOf(t), NEW m \in ManagerAsOf(t),
             l[1] = m[1]
      PROVE  l = m
  <2>1. PICK i \in Relationship :
          /\ IsLine(i) /\ rel[i].valid.from <= t /\ t < rel[i].valid.to
          /\ l = <<rel[i].subject, rel[i].object>>
    BY DEF ManagerAsOf, Holds, IsLine
  <2>2. PICK j \in Relationship :
          /\ IsLine(j) /\ rel[j].valid.from <= t /\ t < rel[j].valid.to
          /\ m = <<rel[j].subject, rel[j].object>>
    BY DEF ManagerAsOf, Holds, IsLine
  <2>3. rel[i].valid \in Period /\ rel[j].valid \in Period
    BY <1>1, <2>1, <2>2 DEF PeopleInv, PeopleTypeOK, RelationshipRow, IsLine
  <2>4. Overlap(rel[i].valid, rel[j].valid)
    <3>1. /\ rel[i].valid.from \in Int /\ rel[i].valid.to \in Int
          /\ rel[j].valid.from \in Int /\ rel[j].valid.to \in Int /\ t \in Int
      BY <2>3, PeriodBounds, OrganizationAssumption DEF Instant
    <3> QED
      BY <2>1, <2>2, <3>1 DEF Overlap
  <2>5. rel[i].subject = rel[j].subject
    BY <1>1, <2>1, <2>2
  <2>6. i = j
    BY <1>1, <2>1, <2>2, <2>4, <2>5 DEF PeopleInv, OneManager
  <2> QED
    BY <2>1, <2>2, <2>6
<1>2. PeopleInv => PeopleFormAHierarchy
  BY <1>1 DEF PeopleInv, NoCircle, PeopleFormAHierarchy, HierarchyAsOf
<1> QED
  BY <1>2, PeopleInvariance, PTL

\* Without a bound on the walk that is smaller than the organisation, nobody is
\* above himself by way of others.
THEOREM NoCircleAtAll ==
  ASSUME Cardinality(Person) <= MaxDepth + 1
  PROVE  PeopleSpec => [](\A t \in Instant, S \in SUBSET Person : S # {} =>
           \E p \in S : \A q \in S \ {p} : <<p, q>> \notin ManagerAsOf(t))
<1>1. ASSUME NEW S \in SUBSET Person, S # {}
      PROVE  Cardinality(S) \in 1..(MaxDepth + 1)
  <2>1. IsFiniteSet(S) /\ Cardinality(S) <= Cardinality(Person)
    BY FS_Subset, OrganizationAssumption
  <2>2. Cardinality(S) \in Nat /\ Cardinality(Person) \in Nat
    BY <2>1, FS_CardinalityType, OrganizationAssumption
  <2>3. Cardinality(S) # 0
    BY <1>1, <2>1, FS_EmptySet
  <2> QED
    BY <2>1, <2>2, <2>3, OrganizationAssumption
<1>2. PeopleInv => \A t \in Instant, S \in SUBSET Person : S # {} =>
        \E p \in S : \A q \in S \ {p} : <<p, q>> \notin ManagerAsOf(t)
  BY <1>1 DEF PeopleInv, NoCircle
<1> QED
  BY <1>2, PeopleInvariance, PTL
=============================================================================
