------------------------------ MODULE RegistryProofs ------------------------------
(***************************************************************************)
(* Theorems about Registry for any releases, families, harnesses,          *)
(* capabilities, operators, agents, templates and runs.                    *)
(***************************************************************************)
EXTENDS Registry, TLAPS

\* An administrator o writes r, as he saw it last: what he may change, and what
\* he may not.
Written(o, r) ==
  /\ Fresh(o, r)
  /\ release[r] \in ReleaseRow
  /\ release' = [release EXCEPT ![r] = release'[r]]
  /\ release'[r] \in ReleaseRow /\ release'[r] # None
  /\ release'[r].revision = release[r].revision + 1
  /\ release[r].granted \subseteq release'[r].granted
  /\ \/ release'[r].state = release[r].state
     \/ CanTransition(release[r].state, release'[r].state)
  /\ release'[r].state = "active" => release[r].state = "active" \/ FamilyIsFree(r)
  /\ reading' = [reading EXCEPT ![o] = [of |-> r, row |-> release'[r]]]
  /\ passed' = [passed EXCEPT ![r] = @ \cup {release'[r].state}]
  /\ decided' = [decided EXCEPT ![r] = decided'[r]]
  /\ decided'[r] \in SUBSET Capability
  /\ release[r].granted = decided[r] => release'[r].granted = decided'[r]
  /\ Touch(r)
  /\ UNCHANGED <<agent, template, run>>
-----------------------------------------------------------------------------
(* What steps do.                                                          *)

\* What Write makes of a row is a row.
LEMMA WriteIsRow ==
  ASSUME TypeOK, NEW o \in Operator, NEW r \in Release, NEW state \in State,
         NEW granted \in SUBSET Capability, Fresh(o, r), Write(o, r, state, granted)
  PROVE  /\ release[r] \in ReleaseRow
         /\ release'[r] = [state |-> state, requested |-> release[r].requested,
                           granted |-> granted, revision |-> release[r].revision + 1]
         /\ release'[r] \in ReleaseRow /\ release'[r] # None
         /\ release' = [release EXCEPT ![r] = release'[r]]
         /\ reading' = [reading EXCEPT ![o] = [of |-> r, row |-> release'[r]]]
         /\ passed' = [passed EXCEPT ![r] = @ \cup {state}]
         /\ Touch(r)
<1> DEFINE new == [state |-> state, requested |-> release[r].requested,
                   granted |-> granted, revision |-> release[r].revision + 1]
<1>1. release[r] \in ReleaseRow /\ release[r] # None
  BY DEF TypeOK, Fresh
<1>2. release[r].revision + 1 \in 1..MaxRevision
  BY <1>1, RegistryAssumption DEF ReleaseRow, Fresh
<1>3. new \in ReleaseRow
  BY <1>1, <1>2 DEF ReleaseRow
<1>4. /\ release' = [release EXCEPT ![r] = new]
      /\ reading' = [reading EXCEPT ![o] = [of |-> r, row |-> new]]
      /\ passed' = [passed EXCEPT ![r] = @ \cup {state}]
      /\ Touch(r)
  BY DEF Write
<1>5. release'[r] = new
  BY <1>4 DEF TypeOK
<1> QED BY <1>1, <1>3, <1>4, <1>5, NoneAssumption

\* A transition and a grant are writes of one release.
LEMMA TransitionWrites ==
  ASSUME TypeOK, NEW o \in Operator, NEW r \in Release, NEW target \in State,
         TransitionRegistryRelease(o, r, target)
  PROVE  Written(o, r)
<1> DEFINE granted == IF target = "active"
                      THEN release[r].requested \cup release[r].granted
                      ELSE release[r].granted
<1>1. /\ Fresh(o, r) /\ CanTransition(release[r].state, target)
      /\ Write(o, r, target, granted)
      /\ target = "active" => FamilyIsFree(r)
      /\ UNCHANGED <<agent, template, run>>
  BY DEF TransitionRegistryRelease, Activated
<1>2. release[r] \in ReleaseRow
  BY <1>1 DEF Fresh, TypeOK
<1>3. granted \in SUBSET Capability /\ release[r].granted \subseteq granted
  BY <1>2 DEF ReleaseRow
<1>4. /\ decided' = [decided EXCEPT ![r] = decided'[r]]
      /\ decided'[r] \in SUBSET Capability
      /\ release[r].granted = decided[r] => granted = decided'[r]
  <2>1. CASE target = "active"
    BY <1>2, <2>1 DEF TransitionRegistryRelease, TypeOK, ReleaseRow
  <2>2. CASE target # "active"
    <3>1. decided' = decided /\ granted = release[r].granted
      BY <2>2 DEF TransitionRegistryRelease
    <3> HIDE DEF granted
    <3> QED BY <3>1 DEF TypeOK
  <2> QED BY <2>1, <2>2
<1> HIDE DEF granted
<1>5. /\ release'[r] = [state |-> target, requested |-> release[r].requested,
                        granted |-> granted, revision |-> release[r].revision + 1]
      /\ release'[r] \in ReleaseRow /\ release'[r] # None
      /\ release' = [release EXCEPT ![r] = release'[r]]
      /\ reading' = [reading EXCEPT ![o] = [of |-> r, row |-> release'[r]]]
      /\ passed' = [passed EXCEPT ![r] = @ \cup {target}]
      /\ Touch(r)
  BY <1>1, <1>3, WriteIsRow
<1> QED BY <1>1, <1>2, <1>3, <1>4, <1>5 DEF Written

\* A grant leaves the state of the release.
LEMMA GrantWrites ==
  ASSUME TypeOK, NEW o \in Operator, NEW r \in Release, NEW caps \in SUBSET Capability,
         GrantRegistryCapabilities(o, r, caps)
  PROVE  Written(o, r) /\ release'[r].state = release[r].state
<1> DEFINE granted == release[r].granted \cup caps
           state   == release[r].state
<1>1. /\ Fresh(o, r) /\ Write(o, r, state, granted)
      /\ UNCHANGED <<agent, template, run>>
  BY DEF GrantRegistryCapabilities, Merged
<1>2. release[r] \in ReleaseRow
  BY <1>1 DEF Fresh, TypeOK
<1>3. /\ granted \in SUBSET Capability /\ release[r].granted \subseteq granted
      /\ state \in State
  BY <1>2 DEF ReleaseRow
<1>4. /\ decided' = [decided EXCEPT ![r] = decided'[r]]
      /\ decided'[r] \in SUBSET Capability
      /\ release[r].granted = decided[r] => granted = decided'[r]
  BY <1>2 DEF GrantRegistryCapabilities, TypeOK, ReleaseRow
<1> HIDE DEF granted, state
<1>5. /\ release'[r] = [state |-> state, requested |-> release[r].requested,
                        granted |-> granted, revision |-> release[r].revision + 1]
      /\ release'[r] \in ReleaseRow /\ release'[r] # None
      /\ release' = [release EXCEPT ![r] = release'[r]]
      /\ reading' = [reading EXCEPT ![o] = [of |-> r, row |-> release'[r]]]
      /\ passed' = [passed EXCEPT ![r] = @ \cup {state}]
      /\ Touch(r)
  BY <1>1, <1>3, WriteIsRow
<1> QED BY <1>1, <1>2, <1>3, <1>4, <1>5 DEF Written, state

\* The steps: one creates a release, one writes a release, one reads one, and the
\* others leave releases alone.
LEMMA Steps ==
  ASSUME TypeOK, [Next]_vars
  PROVE  \/ \E r \in Release, caps \in SUBSET Capability : CreateRegistryRelease(r, caps)
         \/ \E o \in Operator, r \in Release : Written(o, r)
         \/ \E o \in Operator, r \in Release : GetRegistryRelease(o, r)
         \/ UNCHANGED releases
<1>1. CASE UNCHANGED vars
  BY <1>1 DEF vars, releases
<1>2. CASE Configuring
  BY <1>2 DEF Configuring, CreateAgent, CreateAgentTemplate, PublishAgentTemplate,
              CreateAgentFromTemplate, releases
<1>3. CASE \E j \in Run, a \in Agent : CreateAgentRun(j, a)
  BY <1>3 DEF CreateAgentRun, releases
<1>4. ASSUME NEW o \in Operator, NEW r \in Release, Operating(o, r)
      PROVE  Written(o, r) \/ GetRegistryRelease(o, r)
  BY <1>4, TransitionWrites, GrantWrites DEF Operating
<1> QED BY <1>1, <1>2, <1>3, <1>4 DEF Next

\* A new release waits for its checks, with nothing granted.
LEMMA CreatedRow ==
  ASSUME TypeOK, NEW r \in Release, NEW caps \in SUBSET Capability,
         CreateRegistryRelease(r, caps)
  PROVE  /\ release[r] = None
         /\ release'[r].state = "quarantined" /\ release'[r].granted = {}
         /\ release'[r].revision = 1
         /\ release'[r] \in ReleaseRow /\ release'[r] # None
         /\ \A q \in Release : q # r => release'[q] = release[q]
         /\ passed'[r] = {"quarantined"}
         /\ \A q \in Release : q # r => passed'[q] = passed[q]
         /\ UNCHANGED <<reading, agent, template, run, decided>>
<1> DEFINE new == [state |-> "quarantined", requested |-> caps,
                   granted |-> {}, revision |-> 1]
<1>1. new \in ReleaseRow
  BY RegistryAssumption DEF ReleaseRow, State
<1>2. release'[r] = new
  BY DEF TypeOK, CreateRegistryRelease
<1> QED BY <1>1, <1>2, NoneAssumption DEF TypeOK, CreateRegistryRelease

\* What is granted is never taken away, and a release that exists stays.
LEMMA ReleasesGrow ==
  ASSUME TypeOK, [Next]_vars, NEW r \in Release, release[r] # None
  PROVE  release'[r] # None /\ release[r].granted \subseteq release'[r].granted
<1>1. ASSUME NEW q \in Release, NEW caps \in SUBSET Capability, CreateRegistryRelease(q, caps)
      PROVE  release'[r] = release[r]
  BY <1>1, CreatedRow
<1>2. ASSUME NEW o \in Operator, NEW q \in Release, Written(o, q)
      PROVE  release'[r] # None /\ release[r].granted \subseteq release'[r].granted
  BY <1>2 DEF Written, TypeOK
<1>3. CASE (\E o \in Operator, q \in Release : GetRegistryRelease(o, q)) \/ UNCHANGED releases
  BY <1>3 DEF GetRegistryRelease, releases
<1> QED BY <1>1, <1>2, <1>3, Steps

\* An agent is never changed, and neither is a template that was published.
LEMMA AgentsLast ==
  ASSUME TypeOK, [Next]_vars
  PROVE  /\ \A a \in Agent : agent[a] # None => agent'[a] = agent[a]
         /\ \A t \in Template : template[t] # None =>
              /\ template'[t] # None
              /\ template[t].status = "published" => template'[t] = template[t]
<1>1. ASSUME NEW t \in Template, PublishAgentTemplate(t)
      PROVE  /\ template[t].status = "draft" /\ template'[t] # None
             /\ \A q \in Template : q # t => template'[q] = template[q]
  <2>1. template[t] \in TemplateRow
    BY <1>1 DEF TypeOK, PublishAgentTemplate
  <2>2. template'[t] \in TemplateRow
    BY <1>1, <2>1 DEF TypeOK, PublishAgentTemplate, TemplateRow
  <2> QED BY <1>1, <2>2, NoneAssumption DEF TypeOK, PublishAgentTemplate
<1>2. CASE \E t \in Template : PublishAgentTemplate(t)
  BY <1>1, <1>2 DEF PublishAgentTemplate
<1>3. CASE \E a \in Agent, h \in Harness, caps \in SUBSET Capability : CreateAgent(a, h, caps)
  BY <1>3 DEF CreateAgent, TypeOK
<1>4. CASE \E t \in Template, h \in Harness, caps \in SUBSET Capability :
             CreateAgentTemplate(t, h, caps)
  BY <1>4 DEF CreateAgentTemplate, TypeOK
<1>5. CASE \E a \in Agent, t \in Template, caps \in (SUBSET Capability) \cup {None} :
             CreateAgentFromTemplate(a, t, caps)
  BY <1>5 DEF CreateAgentFromTemplate, TypeOK
<1>6. CASE UNCHANGED <<agent, template>>
  BY <1>6
<1>7. UNCHANGED <<agent, template>> \/ Configuring
  <2>1. ASSUME NEW o \in Operator, NEW r \in Release, Operating(o, r)
        PROVE  UNCHANGED <<agent, template>>
    BY <2>1 DEF Operating, GetRegistryRelease, TransitionRegistryRelease,
                GrantRegistryCapabilities
  <2> QED BY <2>1 DEF Next, vars, CreateRegistryRelease, CreateAgentRun
<1> QED BY <1>2, <1>3, <1>4, <1>5, <1>6, <1>7 DEF Configuring
-----------------------------------------------------------------------------
(* Types.                                                                  *)

\* The part of TypeOK that is about releases.
LEMMA TypesOfReleases ==
  ASSUME TypeOK, [Next]_vars
  PROVE  /\ release' \in [Release -> ReleaseRow \cup {None}]
         /\ later' \in [Release -> SUBSET Release]
         /\ reading' \in [Operator -> Reading \cup {None}]
         /\ decided' \in [Release -> SUBSET Capability]
         /\ passed' \in [Release -> SUBSET State]
<1>1. ASSUME NEW r \in Release, Touch(r)
      PROVE  later' \in [Release -> SUBSET Release]
  BY <1>1 DEF TypeOK, Touch
<1>2. ASSUME NEW r \in Release, NEW caps \in SUBSET Capability, CreateRegistryRelease(r, caps)
      PROVE  /\ release' \in [Release -> ReleaseRow \cup {None}]
             /\ passed' \in [Release -> SUBSET State]
             /\ Touch(r) /\ UNCHANGED <<reading, decided>>
  <2>1. release'[r] \in ReleaseRow
    BY <1>2, CreatedRow
  <2> QED BY <1>2, <2>1 DEF CreateRegistryRelease, TypeOK, State
<1>3. ASSUME NEW o \in Operator, NEW r \in Release, Written(o, r)
      PROVE  /\ release' \in [Release -> ReleaseRow \cup {None}]
             /\ passed' \in [Release -> SUBSET State]
             /\ reading' \in [Operator -> Reading \cup {None}]
             /\ decided' \in [Release -> SUBSET Capability]
             /\ Touch(r)
  <2>1. [of |-> r, row |-> release'[r]] \in Reading
    BY <1>3 DEF Written, Reading
  <2>2. release'[r].state \in State
    BY <1>3 DEF Written, ReleaseRow
  <2> QED BY <1>3, <2>1, <2>2 DEF Written, TypeOK
<1>4. ASSUME NEW o \in Operator, NEW r \in Release, GetRegistryRelease(o, r)
      PROVE  /\ UNCHANGED <<release, later, decided, passed>>
             /\ reading' \in [Operator -> Reading \cup {None}]
  <2>1. release[r] \in ReleaseRow
    BY <1>4 DEF GetRegistryRelease, TypeOK
  <2> QED BY <1>4, <2>1 DEF GetRegistryRelease, TypeOK, Reading
<1>5. CASE UNCHANGED releases
  BY <1>5 DEF releases, TypeOK
<1> QED BY <1>1, <1>2, <1>3, <1>4, <1>5, Steps DEF TypeOK

\* The part of TypeOK that is about templates, agents and runs.
LEMMA TypesOfWork ==
  ASSUME TypeOK, [Next]_vars
  PROVE  /\ agent' \in [Agent -> AgentRow \cup {None}]
         /\ template' \in [Template -> TemplateRow \cup {None}]
         /\ run' \in [Run -> RunRow \cup {None}]
<1>1. ASSUME NEW a \in Agent, NEW h \in Harness, NEW caps \in SUBSET Capability,
             CreateAgent(a, h, caps)
      PROVE  agent' \in [Agent -> AgentRow \cup {None}] /\ UNCHANGED <<template, run>>
  BY <1>1 DEF CreateAgent, TypeOK, AgentRow
<1>2. ASSUME NEW t \in Template, NEW h \in Harness, NEW caps \in SUBSET Capability,
             CreateAgentTemplate(t, h, caps)
      PROVE  template' \in [Template -> TemplateRow \cup {None}] /\ UNCHANGED <<agent, run>>
  BY <1>2 DEF CreateAgentTemplate, TypeOK, TemplateRow
<1>3. ASSUME NEW t \in Template, PublishAgentTemplate(t)
      PROVE  template' \in [Template -> TemplateRow \cup {None}] /\ UNCHANGED <<agent, run>>
  BY <1>3 DEF PublishAgentTemplate, TypeOK, TemplateRow
<1>4. ASSUME NEW a \in Agent, NEW t \in Template, NEW caps \in (SUBSET Capability) \cup {None},
             CreateAgentFromTemplate(a, t, caps)
      PROVE  agent' \in [Agent -> AgentRow \cup {None}] /\ UNCHANGED <<template, run>>
  <2>1. template[t] \in TemplateRow
    BY <1>4 DEF CreateAgentFromTemplate, TypeOK
  <2> DEFINE new == [harness |-> template[t].harness, template |-> t,
                     capabilities |-> IF caps = None THEN template[t].capabilities ELSE caps]
  <2>2. new \in AgentRow
    BY <2>1 DEF AgentRow, TemplateRow
  <2>3. agent' = [agent EXCEPT ![a] = new] /\ UNCHANGED <<template, run>>
    BY <1>4 DEF CreateAgentFromTemplate
  <2> QED BY <2>2, <2>3 DEF TypeOK
<1>5. ASSUME NEW j \in Run, NEW a \in Agent, CreateAgentRun(j, a)
      PROVE  run' \in [Run -> RunRow \cup {None}] /\ UNCHANGED <<agent, template>>
  BY <1>5 DEF CreateAgentRun, TypeOK, RunRow, Newest, Serving
<1>6. ASSUME NEW o \in Operator, NEW r \in Release, Operating(o, r)
      PROVE  UNCHANGED <<agent, template, run>>
  BY <1>6 DEF Operating, GetRegistryRelease, TransitionRegistryRelease,
              GrantRegistryCapabilities
<1>7. CASE UNCHANGED vars
  BY <1>7 DEF vars, TypeOK
<1> QED
  BY <1>1, <1>2, <1>3, <1>4, <1>5, <1>6, <1>7
     DEF Next, Configuring, CreateRegistryRelease, TypeOK

\* Releases, grants, agents and runs stay rows of their tables.
THEOREM TypeCorrect == Spec => []TypeOK
<1>1. Init => TypeOK
  BY DEF Init, TypeOK
<1>2. TypeOK /\ [Next]_vars => TypeOK'
  BY TypesOfReleases, TypesOfWork DEF TypeOK
<1> QED BY <1>1, <1>2, PTL DEF Spec
-----------------------------------------------------------------------------
(* The inductive invariant.                                                *)

\* What was granted is on record, and nothing is on record of what is unknown.
GrantsOnRecord == \A r \in Release :
  IF release[r] = None THEN decided[r] = {} /\ passed[r] = {}
                       ELSE release[r].granted = decided[r]

\* The checks that stand behind each state of a release.
Checks(state) ==
  IF state = "quarantined" THEN {}
  ELSE IF state = "verified" THEN {"verified"}
  ELSE IF state = "approved" THEN {"verified", "approved"}
  ELSE {"verified", "approved", "installed"}

Vetted == \A r \in Release : release[r] # None =>
  /\ Checks(release[r].state) \subseteq passed[r]
  /\ "revoked" \in passed[r] => release[r].state = "revoked"

\* Of a family one release at most is active.
OneOfFamily == \A q, r \in Release :
  release[q] # None /\ release[r] # None /\ FamilyOf[q] = FamilyOf[r]
    /\ release[q].state = "active" /\ release[r].state = "active"
      => q = r

\* A reading is older than its release, or it is the release as it is.
ReadingsAge == \A o \in Operator : reading[o] # None =>
  LET r == reading[o].of IN
    /\ release[r] # None /\ reading[o].row.revision <= release[r].revision
    /\ reading[o].row.revision = release[r].revision => reading[o].row = release[r]

\* Of two releases that exist one is the later.
OrderIsStrict == \A q, r \in Release :
  /\ q \notin later[q]
  /\ q # r /\ release[q] # None /\ release[r] # None => (q \in later[r] <=> r \notin later[q])

\* A run has an agent and a release, which grants what the agent declares.
RunsAreFounded == \A j \in Run : run[j] # None =>
  /\ agent[run[j].agent] # None /\ release[run[j].release] # None
  /\ agent[run[j].agent].capabilities \subseteq release[run[j].release].granted

\* An agent made from a template has one that exists.
TemplatesExist == \A a \in Agent :
  agent[a] # None /\ agent[a].template # None => template[agent[a].template] # None

\* What was published can run.
PublishedCanRun == \A t \in Template :
  template[t] # None /\ template[t].status = "published" => template[t].harness \in Supported

IInv ==
  TypeOK /\ GrantsOnRecord /\ Vetted /\ OneOfFamily /\ ReadingsAge /\ OrderIsStrict
    /\ RunsAreFounded /\ TemplatesExist /\ PublishedCanRun /\ AgentsStayInScope
-----------------------------------------------------------------------------
(* Each part is preserved.                                                 *)

\* Grants and their record move together.
LEMMA GrantsOnRecordNext ==
  ASSUME TypeOK, GrantsOnRecord, [Next]_vars
  PROVE  GrantsOnRecord'
<1> USE DEF GrantsOnRecord
<1>1. ASSUME NEW r \in Release, NEW caps \in SUBSET Capability, CreateRegistryRelease(r, caps)
      PROVE  GrantsOnRecord'
  BY <1>1, CreatedRow
<1>2. ASSUME NEW o \in Operator, NEW r \in Release, Written(o, r)
      PROVE  GrantsOnRecord'
  <2>1. /\ release'[r] # None /\ release[r] # None
        /\ release'[r].granted = decided'[r]
    BY <1>2 DEF Written, Fresh
  <2>2. \A q \in Release : q # r =>
          release'[q] = release[q] /\ decided'[q] = decided[q] /\ passed'[q] = passed[q]
    BY <1>2 DEF Written, TypeOK
  <2> QED BY <2>1, <2>2
<1>3. CASE (\E o \in Operator, r \in Release : GetRegistryRelease(o, r)) \/ UNCHANGED releases
  BY <1>3 DEF GetRegistryRelease, releases
<1> QED BY <1>1, <1>2, <1>3, Steps

\* A check is passed by the transition that ends it.
LEMMA CheckedBefore ==
  ASSUME NEW from \in State, NEW to \in State, CanTransition(from, to)
  PROVE  /\ Checks(to) \subseteq Checks(from) \cup {to}
         /\ from # "revoked"
BY DEF CanTransition, Checks, State

\* A release moves one check at a time, and never from revoked.
LEMMA VettedNext ==
  ASSUME TypeOK, Vetted, GrantsOnRecord, [Next]_vars
  PROVE  Vetted'
<1> USE DEF Vetted
<1>1. ASSUME NEW r \in Release, NEW caps \in SUBSET Capability, CreateRegistryRelease(r, caps)
      PROVE  Vetted'
  BY <1>1, CreatedRow DEF Checks
<1>2. ASSUME NEW o \in Operator, NEW r \in Release, Written(o, r)
      PROVE  Vetted'
  <2>1. /\ release[r] # None
        /\ release[r].state \in State /\ release'[r].state \in State
        /\ passed'[r] = passed[r] \cup {release'[r].state}
    BY <1>2 DEF Written, Fresh, ReleaseRow, TypeOK
  <2>2. \A q \in Release : q # r => release'[q] = release[q] /\ passed'[q] = passed[q]
    BY <1>2 DEF Written, TypeOK
  <2>3. /\ Checks(release'[r].state) \subseteq passed'[r]
        /\ "revoked" \in passed'[r] => release'[r].state = "revoked"
    <3>1. CASE release'[r].state = release[r].state
      BY <2>1, <3>1
    <3>2. CASE CanTransition(release[r].state, release'[r].state)
      BY <2>1, <3>2, CheckedBefore
    <3> QED BY <1>2, <3>1, <3>2 DEF Written
  <2> QED BY <2>2, <2>3
<1>3. CASE (\E o \in Operator, r \in Release : GetRegistryRelease(o, r)) \/ UNCHANGED releases
  BY <1>3 DEF GetRegistryRelease, releases
<1> QED BY <1>1, <1>2, <1>3, Steps

\* FamilyIsFree is asked before a release becomes active.
LEMMA OneOfFamilyNext ==
  ASSUME TypeOK, OneOfFamily, [Next]_vars
  PROVE  OneOfFamily'
<1> USE DEF OneOfFamily
<1>1. ASSUME NEW r \in Release, NEW caps \in SUBSET Capability, CreateRegistryRelease(r, caps)
      PROVE  OneOfFamily'
  BY <1>1, CreatedRow
<1>2. ASSUME NEW o \in Operator, NEW r \in Release, Written(o, r)
      PROVE  OneOfFamily'
  <2>1. release[r] # None /\ \A q \in Release : q # r => release'[q] = release[q]
    BY <1>2 DEF Written, Fresh, TypeOK
  <2>2. CASE release'[r].state # "active"
    BY <2>1, <2>2
  <2>3. CASE release[r].state = "active"
    BY <2>1, <2>3
  <2>4. CASE FamilyIsFree(r)
    BY <2>1, <2>4 DEF FamilyIsFree
  <2> QED BY <1>2, <2>2, <2>3, <2>4 DEF Written
<1>3. CASE (\E o \in Operator, r \in Release : GetRegistryRelease(o, r)) \/ UNCHANGED releases
  BY <1>3 DEF GetRegistryRelease, releases
<1> QED BY <1>1, <1>2, <1>3, Steps

\* A write takes the next revision, and its caller gets the new row.
LEMMA ReadingsAgeNext ==
  ASSUME TypeOK, ReadingsAge, [Next]_vars
  PROVE  ReadingsAge'
<1> USE DEF ReadingsAge
<1>1. ASSUME NEW r \in Release, NEW caps \in SUBSET Capability, CreateRegistryRelease(r, caps)
      PROVE  ReadingsAge'
  <2>1. \A o \in Operator : reading[o] # None => reading[o].of # r /\ reading[o].of \in Release
    BY <1>1, CreatedRow DEF TypeOK, Reading
  <2> QED BY <1>1, <2>1, CreatedRow
<1>2. ASSUME NEW o \in Operator, NEW r \in Release, Written(o, r)
      PROVE  ReadingsAge'
  <2>1. /\ release'[r] # None /\ release[r] # None
        /\ release[r].revision \in Int /\ release'[r].revision = release[r].revision + 1
        /\ \A q \in Release : q # r => release'[q] = release[q]
    BY <1>2 DEF Written, Fresh, TypeOK, ReleaseRow
  <2>2. /\ reading'[o] = [of |-> r, row |-> release'[r]]
        /\ \A p \in Operator : p # o => reading'[p] = reading[p]
    BY <1>2 DEF Written, TypeOK
  <2>3. ASSUME NEW p \in Operator, p # o, reading[p] # None
        PROVE  LET q == reading[p].of IN
                 /\ release'[q] # None /\ reading[p].row.revision <= release'[q].revision
                 /\ reading[p].row.revision = release'[q].revision
                      => reading[p].row = release'[q]
    <3>1. reading[p].of \in Release /\ reading[p].row.revision \in Int
      BY <2>3 DEF TypeOK, Reading, ReleaseRow
    <3>2. CASE reading[p].of = r
      BY <2>1, <2>3, <3>1, <3>2
    <3>3. CASE reading[p].of # r
      BY <2>1, <2>3, <3>1, <3>3
    <3> QED BY <3>2, <3>3
  <2>4. release'[r].revision \in Int
    BY <2>1
  <2> QED BY <2>1, <2>2, <2>3, <2>4
<1>3. ASSUME NEW o \in Operator, NEW r \in Release, GetRegistryRelease(o, r)
      PROVE  ReadingsAge'
  <2>1. /\ release[r] # None /\ release[r].revision \in Int
        /\ UNCHANGED release /\ reading'[o] = [of |-> r, row |-> release[r]]
        /\ \A p \in Operator : p # o => reading'[p] = reading[p]
    BY <1>3 DEF GetRegistryRelease, TypeOK, ReleaseRow
  <2> QED BY <2>1
<1>4. CASE UNCHANGED releases
  BY <1>4 DEF releases
<1> QED BY <1>1, <1>2, <1>3, <1>4, Steps

\* The release that is touched becomes later than the others.
LEMMA OrderIsStrictNext ==
  ASSUME TypeOK, OrderIsStrict, [Next]_vars
  PROVE  OrderIsStrict'
<1>1. ASSUME NEW r \in Release, Touch(r), \A q \in Release : q # r => release'[q] = release[q]
      PROVE  OrderIsStrict'
  <2>1. later'[r] = {} /\ \A q \in Release : q # r => later'[q] = later[q] \cup {r}
    BY <1>1 DEF Touch
  <2> QED BY <1>1, <2>1 DEF OrderIsStrict
<1>2. ASSUME NEW r \in Release, NEW caps \in SUBSET Capability, CreateRegistryRelease(r, caps)
      PROVE  OrderIsStrict'
  BY <1>1, <1>2, CreatedRow DEF CreateRegistryRelease
<1>3. ASSUME NEW o \in Operator, NEW r \in Release, Written(o, r)
      PROVE  OrderIsStrict'
  BY <1>1, <1>3 DEF Written, TypeOK
<1>4. CASE (\E o \in Operator, r \in Release : GetRegistryRelease(o, r)) \/ UNCHANGED releases
  BY <1>4 DEF GetRegistryRelease, releases, OrderIsStrict
<1> QED BY <1>2, <1>3, <1>4, Steps

\* Agents last and grants grow, so a run that was admitted stays founded.
LEMMA RunsAreFoundedNext ==
  ASSUME TypeOK, RunsAreFounded, [Next]_vars
  PROVE  RunsAreFounded'
<1>1. ASSUME NEW a \in Agent, NEW r \in Release, agent[a] # None, release[r] # None,
             agent[a].capabilities \subseteq release[r].granted
      PROVE  /\ agent'[a] # None /\ release'[r] # None
             /\ agent'[a].capabilities \subseteq release'[r].granted
  BY <1>1, AgentsLast, ReleasesGrow
<1>2. ASSUME NEW j \in Run, run'[j] # None
      PROVE  /\ run'[j].agent \in Agent /\ run'[j].release \in Release
             /\ agent[run'[j].agent] # None /\ release[run'[j].release] # None
             /\ agent[run'[j].agent].capabilities \subseteq release[run'[j].release].granted
  <2>1. CASE run'[j] = run[j]
    BY <1>2, <2>1 DEF RunsAreFounded, TypeOK, RunRow
  <2>2. ASSUME NEW k \in Run, NEW a \in Agent, CreateAgentRun(k, a), run'[j] # run[j]
        PROVE  /\ run'[j].agent \in Agent /\ run'[j].release \in Release
               /\ agent[run'[j].agent] # None /\ release[run'[j].release] # None
               /\ agent[run'[j].agent].capabilities \subseteq release[run'[j].release].granted
    <3>1. PICK r \in Newest(agent[a].harness) :
            /\ AdmissionMissing(a, r) = {}
            /\ run' = [run EXCEPT ![k] = [agent |-> a, release |-> r]]
      BY <2>2 DEF CreateAgentRun
    <3>2. r \in Release /\ release[r] # None /\ agent[a] # None
      BY <2>2, <3>1 DEF Newest, Serving, CreateAgentRun
    <3>3. run'[j] = [agent |-> a, release |-> r]
      BY <2>2, <3>1 DEF TypeOK
    <3> QED BY <3>1, <3>2, <3>3 DEF AdmissionMissing
  <2>3. run' = run \/ \E k \in Run, a \in Agent : CreateAgentRun(k, a)
    <3>1. ASSUME NEW o \in Operator, NEW r \in Release, Operating(o, r)
          PROVE  run' = run
      BY <3>1 DEF Operating, GetRegistryRelease, TransitionRegistryRelease,
                  GrantRegistryCapabilities
    <3> QED BY <3>1 DEF Next, Configuring, vars, CreateRegistryRelease, CreateAgent,
                        CreateAgentTemplate, PublishAgentTemplate, CreateAgentFromTemplate
  <2> QED BY <2>1, <2>2, <2>3
<1> QED BY <1>1, <1>2 DEF RunsAreFounded

\* A harness is asked about when a template is published.
LEMMA PublishedCanRunNext ==
  ASSUME TypeOK, PublishedCanRun, [Next]_vars
  PROVE  PublishedCanRun'
<1> USE DEF PublishedCanRun
<1>1. ASSUME NEW t \in Template, NEW h \in Harness, NEW caps \in SUBSET Capability,
             CreateAgentTemplate(t, h, caps)
      PROVE  PublishedCanRun'
  BY <1>1 DEF CreateAgentTemplate, TypeOK
<1>2. ASSUME NEW t \in Template, PublishAgentTemplate(t)
      PROVE  PublishedCanRun'
  <2>1. template[t] \in TemplateRow
    BY <1>2 DEF PublishAgentTemplate, TypeOK
  <2>2. /\ template'[t].harness = template[t].harness
        /\ \A u \in Template : u # t => template'[u] = template[u]
    BY <1>2, <2>1 DEF PublishAgentTemplate, TypeOK, TemplateRow
  <2> QED BY <1>2, <2>2 DEF PublishAgentTemplate
<1>3. CASE UNCHANGED template
  BY <1>3
<1>4. ASSUME NEW o \in Operator, NEW r \in Release, Operating(o, r)
      PROVE  UNCHANGED template
  BY <1>4 DEF Operating, GetRegistryRelease, TransitionRegistryRelease,
              GrantRegistryCapabilities
<1> QED
  BY <1>1, <1>2, <1>3, <1>4
     DEF Next, Configuring, vars, CreateRegistryRelease, CreateAgent,
         CreateAgentFromTemplate, CreateAgentRun

\* A new agent is in the scope of its template; the templates of the others stay.
LEMMA AgentsStayInScopeNext ==
  ASSUME TypeOK, TemplatesExist, PublishedCanRun, AgentsStayInScope, [Next]_vars
  PROVE  TemplatesExist' /\ AgentsStayInScope'
<1> DEFINE InScopeOf(a, t) ==
             /\ t.status = "published" /\ t.harness \in Supported
             /\ a.harness = t.harness /\ a.capabilities \subseteq t.capabilities
<1>1. ASSUME NEW a \in Agent, agent[a] # None, agent[a].template # None
      PROVE  /\ agent'[a] = agent[a]
             /\ template'[agent[a].template] # None
             /\ InScopeOf(agent[a], template'[agent[a].template])
  <2>1. agent[a].template \in Template
    BY <1>1 DEF TypeOK, AgentRow
  <2>2. template[agent[a].template] # None /\ InScopeOf(agent[a], template[agent[a].template])
    BY <1>1 DEF TemplatesExist, AgentsStayInScope
  <2>3. template'[agent[a].template] = template[agent[a].template] /\ agent'[a] = agent[a]
    BY <1>1, <2>1, <2>2, AgentsLast
  <2> QED BY <2>2, <2>3
<1>2. ASSUME NEW a \in Agent, NEW t \in Template,
             NEW caps \in (SUBSET Capability) \cup {None}, CreateAgentFromTemplate(a, t, caps)
      PROVE  /\ agent'[a].template = t /\ template' = template
             /\ template[t] # None /\ InScopeOf(agent'[a], template[t])
             /\ \A b \in Agent : b # a => agent'[b] = agent[b]
  <2> DEFINE new == [harness |-> template[t].harness, template |-> t,
                     capabilities |-> IF caps = None THEN template[t].capabilities ELSE caps]
  <2>1. agent' = [agent EXCEPT ![a] = new] /\ UNCHANGED template
    BY <1>2 DEF CreateAgentFromTemplate
  <2>2. agent'[a] = new /\ \A b \in Agent : b # a => agent'[b] = agent[b]
    BY <2>1 DEF TypeOK
  <2>3. /\ template[t] # None /\ template[t].status = "published"
        /\ template[t].harness \in Supported
    BY <1>2 DEF CreateAgentFromTemplate, PublishedCanRun
  <2>4. new.capabilities \subseteq template[t].capabilities
    BY <1>2 DEF CreateAgentFromTemplate, InScope
  <2> HIDE DEF new
  <2>5. new.template = t /\ new.harness = template[t].harness
    BY DEF new
  <2> QED BY <2>1, <2>2, <2>3, <2>4, <2>5
<1>3. ASSUME NEW a \in Agent, agent'[a] # None, agent'[a].template # None
      PROVE  /\ template'[agent'[a].template] # None
             /\ InScopeOf(agent'[a], template'[agent'[a].template])
  <2>1. CASE agent'[a] = agent[a]
    BY <1>1, <1>3, <2>1
  <2>2. ASSUME NEW b \in Agent, NEW h \in Harness, NEW caps \in SUBSET Capability,
               CreateAgent(b, h, caps)
        PROVE  agent'[a] = agent[a]
    <3>1. agent' = [agent EXCEPT ![b] =
                      [harness |-> h, capabilities |-> caps, template |-> None]]
      BY <2>2 DEF CreateAgent
    <3>2. b # a
      BY <1>3, <3>1 DEF TypeOK
    <3> QED BY <3>1, <3>2 DEF TypeOK
  <2>3. ASSUME NEW b \in Agent, NEW t \in Template,
               NEW caps \in (SUBSET Capability) \cup {None}, CreateAgentFromTemplate(b, t, caps),
               agent'[a] # agent[a]
        PROVE  /\ template'[agent'[a].template] # None
               /\ InScopeOf(agent'[a], template'[agent'[a].template])
    BY <1>2, <2>3
  <2>4. \/ agent' = agent
        \/ \E b \in Agent, h \in Harness, caps \in SUBSET Capability : CreateAgent(b, h, caps)
        \/ \E b \in Agent, t \in Template, caps \in (SUBSET Capability) \cup {None} :
             CreateAgentFromTemplate(b, t, caps)
    <3>1. ASSUME NEW o \in Operator, NEW r \in Release, Operating(o, r)
          PROVE  agent' = agent
      BY <3>1 DEF Operating, GetRegistryRelease, TransitionRegistryRelease,
                  GrantRegistryCapabilities
    <3> QED
      BY <3>1 DEF Next, Configuring, vars, CreateRegistryRelease, CreateAgentTemplate,
                  PublishAgentTemplate, CreateAgentRun
  <2> QED BY <2>1, <2>2, <2>3, <2>4
<1> QED BY <1>3 DEF TemplatesExist, AgentsStayInScope
-----------------------------------------------------------------------------
\* The invariant holds of every state of Registry.
THEOREM Invariance == Spec => []IInv
<1>1. Init => IInv
  BY DEF Init, IInv, TypeOK, GrantsOnRecord, Vetted, OneOfFamily, ReadingsAge,
         OrderIsStrict, RunsAreFounded, TemplatesExist, PublishedCanRun, AgentsStayInScope
<1>2. IInv /\ [Next]_vars => IInv'
  BY TypesOfReleases, TypesOfWork, GrantsOnRecordNext, VettedNext, OneOfFamilyNext,
     ReadingsAgeNext, OrderIsStrictNext, RunsAreFoundedNext, PublishedCanRunNext,
     AgentsStayInScopeNext
     DEF IInv, TypeOK
<1> QED BY <1>1, <1>2, PTL DEF Spec

\* What is granted was decided by administrators, every run was admitted under a
\* release that grants what its agent declares and still does, and agents stay
\* in the scope of their templates.
THEOREM WorkGranted == Spec => []WorkIsGranted
<1>1. IInv => WorkIsGranted
  BY DEF IInv, WorkIsGranted, GrantsOnRecord, GrantsAreDecided, RunsAreFounded,
         AdmittedRunsAreCovered
<1> QED BY <1>1, Invariance, PTL

\* No release becomes active without having been verified, approved and
\* installed, and none comes back from being revoked.
THEOREM ActiveVetted == Spec => []ActiveIsVetted
<1>1. IInv => ActiveIsVetted
  BY DEF IInv, Vetted, ActiveIsVetted, Checks
<1> QED BY <1>1, Invariance, PTL

\* Of the active releases of a harness one at most is the newest, so a run never
\* has a choice and a ceiling is that of one release (the LIMIT 1 of the queries).
THEOREM NewestIsOne == Spec => [](\A h \in Harness : \A q, r \in Newest(h) : q = r)
<1>1. IInv => \A h \in Harness : \A q, r \in Newest(h) : q = r
  BY DEF IInv, OrderIsStrict, Newest, Serving
<1> QED BY <1>1, Invariance, PTL

\* Who writes a release read it as it is.
LEMMA DecidedAsReadStep ==
  ASSUME IInv, [Next]_vars, NEW r \in Release
  PROVE  DecidedAsRead(r)
<1> SUFFICES ASSUME release[r] # None, release'[r] # release[r]
             PROVE  \E o \in Admin : reading[o] = [of |-> r, row |-> release[r]]
                                     /\ reading'[o] = [of |-> r, row |-> release'[r]]
  BY DEF DecidedAsRead
<1> USE DEF IInv
<1>1. ASSUME NEW q \in Release, NEW caps \in SUBSET Capability, CreateRegistryRelease(q, caps)
      PROVE  FALSE
  BY <1>1, CreatedRow
<1>2. CASE (\E o \in Operator, q \in Release : GetRegistryRelease(o, q)) \/ UNCHANGED releases
  BY <1>2 DEF GetRegistryRelease, releases
<1>3. ASSUME NEW o \in Operator, NEW q \in Release, Written(o, q)
      PROVE  \E p \in Admin : reading[p] = [of |-> r, row |-> release[r]]
                              /\ reading'[p] = [of |-> r, row |-> release'[r]]
  <2>1. q = r
    BY <1>3 DEF Written, TypeOK
  <2>2. o \in Admin /\ reading'[o] = [of |-> r, row |-> release'[r]]
    BY <1>3, <2>1 DEF Written, Fresh, TypeOK
  <2>3. /\ reading[o] \in Reading /\ reading[o].of = r
        /\ reading[o].row = release[r]
    BY <1>3, <2>1 DEF Written, Fresh, TypeOK, ReadingsAge
  <2>4. reading[o] = [of |-> r, row |-> release[r]]
    BY <2>3 DEF Reading
  <2> QED BY <2>2, <2>4
<1> QED BY <1>1, <1>2, <1>3, Steps

\* A grant leaves the states of releases, and in one family that is all that
\* decides which one serves.
LEMMA GrantWidensStep ==
  ASSUME IInv, NEW h \in Harness
  PROVE  GrantWidens(h)
<1> SUFFICES ASSUME NEW o \in Operator, NEW r \in Release, NEW caps \in SUBSET Capability,
                    GrantRegistryCapabilities(o, r, caps),
                    \A p, q \in Release :
                      release[p] # None /\ RunnerOf[p] = h
                      /\ release[q] # None /\ RunnerOf[q] = h => FamilyOf[p] = FamilyOf[q]
             PROVE  Permitted(h) \subseteq Permitted(h)'
  BY DEF GrantWidens
<1> USE DEF IInv
<1>1. Written(o, r) /\ release'[r].state = release[r].state
  BY GrantWrites
<1>2. /\ release[r] # None /\ release'[r] # None
      /\ \A q \in Release : q # r => release'[q] = release[q]
      /\ release[r].granted \subseteq release'[r].granted
  BY <1>1 DEF Written, Fresh, TypeOK
<1>3. Serving(h)' = Serving(h)
  BY <1>1, <1>2 DEF Serving
<1>4. \A p, q \in Serving(h) : p = q
  BY DEF Serving, OneOfFamily
<1>5. \A q \in Serving(h) : q \notin later'[q]
  BY <1>1, <1>3 DEF Written, Touch, OrderIsStrict, Serving
<1>6. Newest(h) \subseteq Newest(h)'
  BY <1>3, <1>4, <1>5 DEF Newest
<1>7. \A q \in Release : release[q] # None => release[q].granted \subseteq release'[q].granted
  BY <1>2
<1>8. \A q \in Newest(h) : q \in Release /\ release[q] # None
  BY DEF Newest, Serving
<1> QED BY <1>6, <1>7, <1>8 DEF Permitted

\* Administrators who work at the same time lose no decision of each other, and
\* a grant takes nothing away from the harness it is for.
THEOREM ReleasesChange == Spec => ReleasesChangeAsDecided
<1>1. IInv /\ [Next]_vars =>
        [(\A r \in Release : DecidedAsRead(r)) /\ (\A h \in Harness : GrantWidens(h))]_vars
  BY DecidedAsReadStep, GrantWidensStep
<1> QED BY <1>1, Invariance, PTL DEF Spec, ReleasesChangeAsDecided
=============================================================================
