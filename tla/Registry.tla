--------------------------------- MODULE Registry ---------------------------------
(***************************************************************************)
(* What an agent may do: releases of harnesses with the capabilities that  *)
(* operators grant them, templates and agents that declare capabilities,   *)
(* and the admission of runs, where the two meet.                          *)
(*                                                                         *)
(* Every operation is one transaction under the organisation's lock.       *)
(* Operators work from what they read: an operation carries the revision   *)
(* that its caller saw, and others may come in between.  That the caller   *)
(* is an active principal is the subject of Access.  Releases of the other *)
(* kinds (connector, renderer, automation) move in the same way and run    *)
(* nothing.                                                                *)
(***************************************************************************)
EXTENDS Integers

CONSTANTS
  Release, FamilyOf,      \* releases, versions of a family
  RunnerOf,               \* the runner_id of a release's manifest, or its family
  Harness, Supported,     \* names of harnesses, and those this binary can run
  Capability,
  Operator, Admin,        \* callers, and those whose role is admin
  Agent, Template, Run,
  None,
  MaxRevision             \* bound: revisions of a release

ASSUME RegistryAssumption ==
  /\ RunnerOf \in [Release -> Harness]
  /\ Supported \subseteq Harness /\ Admin \subseteq Operator
  /\ MaxRevision \in Nat \ {0}
  /\ None \notin Release \cup Template

VARIABLES
  release,   \* registry_releases
  later,     \* of each release, those whose updated_at is later
  reading,   \* what each operator last read: a release and its row
  agent,     \* agents
  template,  \* agent_templates
  run,       \* agent_runs: the agent and the release it is pinned to
  decided,   \* history: what administrators granted each release
  passed     \* history: the states each release has been in

vars == <<release, later, reading, agent, template, run, decided, passed>>

releases == <<release, later, reading, decided, passed>>
-----------------------------------------------------------------------------
State == {"quarantined", "verified", "approved", "installed", "active",
          "draining", "disabled", "revoked"}

ReleaseRow  == [state : State, requested : SUBSET Capability,
                granted : SUBSET Capability, revision : 1..MaxRevision]
AgentRow    == [harness : Harness, capabilities : SUBSET Capability,
                template : Template \cup {None}]
TemplateRow == [harness : Harness, capabilities : SUBSET Capability,
                status : {"draft", "published"}]
Reading     == [of : Release, row : ReleaseRow]
RunRow      == [agent : Agent, release : Release]

ASSUME NoneAssumption ==
  /\ None \notin ReleaseRow /\ None \notin AgentRow /\ None \notin TemplateRow
  /\ None \notin Reading /\ None \notin RunRow

TypeOK ==
  /\ release \in [Release -> ReleaseRow \cup {None}]
  /\ later \in [Release -> SUBSET Release]
  /\ reading \in [Operator -> Reading \cup {None}]
  /\ agent \in [Agent -> AgentRow \cup {None}]
  /\ template \in [Template -> TemplateRow \cup {None}]
  /\ run \in [Run -> RunRow \cup {None}]
  /\ decided \in [Release -> SUBSET Capability]
  /\ passed \in [Release -> SUBSET State]

Init ==
  /\ release = [r \in Release |-> None]
  /\ later = [r \in Release |-> {}]
  /\ reading = [o \in Operator |-> None]
  /\ agent = [a \in Agent |-> None]
  /\ template = [t \in Template |-> None]
  /\ run = [j \in Run |-> None]
  /\ decided = [r \in Release |-> {}]
  /\ passed = [r \in Release |-> {}]
-----------------------------------------------------------------------------
(* Releases.                                                               *)

\* r gets the latest updated_at.  (Of two releases, the one that is not known
\* yet counts as the earlier one.)
Touch(r) == later' = [q \in Release |-> IF q = r THEN {} ELSE later[q] \cup {r}]

\* Anybody submits; nothing is granted yet, whatever the request says.
CreateRegistryRelease(r, requested) ==
  /\ release[r] = None
  /\ release' = [release EXCEPT ![r] =
       [state |-> "quarantined", requested |-> requested,
        granted |-> {}, revision |-> 1]]
  /\ Touch(r)
  /\ passed' = [passed EXCEPT ![r] = {"quarantined"}]
  /\ UNCHANGED <<reading, agent, template, run, decided>>

GetRegistryRelease(o, r) ==
  /\ release[r] # None
  /\ reading' = [reading EXCEPT ![o] = [of |-> r, row |-> release[r]]]
  /\ UNCHANGED <<release, later, agent, template, run, decided, passed>>

\* Mutant: approval is enough to be activated, and what was revoked may return.
CanTransitionEarly(from, to) ==
  <<from, to>> \in {<<"quarantined", "verified">>, <<"verified", "approved">>,
    <<"approved", "installed">>, <<"approved", "active">>,
    <<"installed", "active">>, <<"active", "draining">>,
    <<"active", "revoked">>, <<"draining", "disabled">>, <<"disabled", "active">>}

CanTransition(from, to) ==
  <<from, to>> \in {<<"quarantined", "verified">>, <<"verified", "approved">>,
    <<"approved", "installed">>, <<"installed", "active">>,
    <<"active", "draining">>, <<"active", "revoked">>,
    <<"draining", "disabled">>, <<"disabled", "active">>}

\* The caller is an administrator and knows the present revision of r.
Fresh(o, r) ==
  /\ release[r] # None /\ release[r].revision < MaxRevision
  /\ reading[o] # None /\ reading[o].of = r
  /\ reading[o].row.revision = release[r].revision
  /\ o \in Admin

\* Mutant: as if a grant were no change of the release.
WriteSilently(o, r, state, granted) ==
  LET new == [state |-> state, requested |-> release[r].requested,
              granted |-> granted, revision |-> release[r].revision]
  IN  /\ release' = [release EXCEPT ![r] = new]
      /\ Touch(r)
      /\ reading' = [reading EXCEPT ![o] = [of |-> r, row |-> new]]
      /\ passed' = [passed EXCEPT ![r] = @ \cup {state}]

\* The row gets the next revision and the latest updated_at, and is returned.
Write(o, r, state, granted) ==
  LET new == [state |-> state, requested |-> release[r].requested,
              granted |-> granted, revision |-> release[r].revision + 1]
  IN  /\ release' = [release EXCEPT ![r] = new]
      /\ Touch(r)
      /\ reading' = [reading EXCEPT ![o] = [of |-> r, row |-> new]]
      /\ passed' = [passed EXCEPT ![r] = @ \cup {state}]

\* The unique index registry_active_family.
FamilyIsFree(r) == \A q \in Release \ {r} :
  FamilyOf[q] = FamilyOf[r] /\ release[q] # None => release[q].state # "active"

\* Mutant: activation replaces what was granted by what was requested.
ActivatedAnew(row) == row.requested

\* Activation approves what was requested, and keeps every earlier grant.
Activated(row) == row.requested \cup row.granted

TransitionRegistryRelease(o, r, target) == LET row == release[r] IN
  /\ Fresh(o, r)
  /\ CanTransition(row.state, target)
  /\ IF target = "active"
     THEN /\ FamilyIsFree(r)
          /\ Write(o, r, target, Activated(row))
          /\ decided' = [decided EXCEPT ![r] = @ \cup row.requested]
     ELSE /\ Write(o, r, target, row.granted)
          /\ UNCHANGED decided
  /\ UNCHANGED <<agent, template, run>>

Merged(row, caps) == row.granted \cup caps

\* In any state of the release, and only by an administrator.
GrantRegistryCapabilities(o, r, caps) ==
  /\ Fresh(o, r)
  /\ caps # {}
  /\ Write(o, r, release[r].state, Merged(release[r], caps))
  /\ decided' = [decided EXCEPT ![r] = @ \cup caps]
  /\ UNCHANGED <<agent, template, run>>
-----------------------------------------------------------------------------
(* Templates and agents.                                                   *)

\* An agent is a description: nothing is compared with any grant.
CreateAgent(a, h, caps) ==
  /\ agent[a] = None
  /\ agent' = [agent EXCEPT ![a] =
       [harness |-> h, capabilities |-> caps, template |-> None]]
  /\ UNCHANGED <<releases, template, run>>

CreateAgentTemplate(t, h, caps) ==
  /\ template[t] = None
  /\ template' = [template EXCEPT ![t] =
       [harness |-> h, capabilities |-> caps, status |-> "draft"]]
  /\ UNCHANGED <<releases, agent, run>>

\* The revision of a template changes here and nowhere else: a caller who read
\* the draft knows it.
PublishAgentTemplate(t) ==
  /\ template[t] # None /\ template[t].status = "draft"
  /\ template[t].harness \in Supported
  /\ template' = [template EXCEPT ![t].status = "published"]
  /\ UNCHANGED <<releases, agent, run>>

InScope(t, caps) == caps \subseteq template[t].capabilities

\* Without capabilities of its own (nil) the agent gets the whole scope.
CreateAgentFromTemplate(a, t, caps) ==
  /\ agent[a] = None
  /\ template[t] # None /\ template[t].status = "published"
  /\ caps # None => InScope(t, caps)
  /\ agent' = [agent EXCEPT ![a] =
       [harness |-> template[t].harness, template |-> t,
        capabilities |-> IF caps = None THEN template[t].capabilities ELSE caps]]
  /\ UNCHANGED <<releases, template, run>>
-----------------------------------------------------------------------------
(* Admission.                                                              *)

\* The active releases that run harness h, and the latest of them.
Serving(h) == {r \in Release :
  release[r] # None /\ release[r].state = "active" /\ RunnerOf[r] = h}
Newest(h) == {r \in Serving(h) : later[r] \cap Serving(h) = {}}

\* permittedCapabilities: the ceiling of a harness.
Permitted(h) == UNION {release[r].granted : r \in Newest(h)}

\* CheckCapabilities, and Denied of AgentConfiguration.
Denied(h, caps) == caps \ Permitted(h)

AdmissionMissing(a, r) == agent[a].capabilities \ release[r].granted

CreateAgentRun(j, a) ==
  /\ run[j] = None /\ agent[a] # None /\ agent[a].harness \in Supported
  /\ \E r \in Newest(agent[a].harness) :
       /\ AdmissionMissing(a, r) = {}
       /\ run' = [run EXCEPT ![j] = [agent |-> a, release |-> r]]
  /\ UNCHANGED <<releases, agent, template>>
-----------------------------------------------------------------------------
Operating(o, r) ==
  \/ GetRegistryRelease(o, r)
  \/ \E target \in State : TransitionRegistryRelease(o, r, target)
  \/ \E caps \in SUBSET Capability : GrantRegistryCapabilities(o, r, caps)

Configuring ==
  \/ \E a \in Agent, h \in Harness, caps \in SUBSET Capability : CreateAgent(a, h, caps)
  \/ \E t \in Template, h \in Harness, caps \in SUBSET Capability :
       CreateAgentTemplate(t, h, caps)
  \/ \E t \in Template : PublishAgentTemplate(t)
  \/ \E a \in Agent, t \in Template, caps \in (SUBSET Capability) \cup {None} :
       CreateAgentFromTemplate(a, t, caps)

Next ==
  \/ \E r \in Release, caps \in SUBSET Capability : CreateRegistryRelease(r, caps)
  \/ \E o \in Operator, r \in Release : Operating(o, r)
  \/ Configuring
  \/ \E j \in Run, a \in Agent : CreateAgentRun(j, a)

Spec == Init /\ [][Next]_vars
-----------------------------------------------------------------------------
(* Safety.                                                                 *)

\* A release holds exactly what administrators granted it, one by one or by
\* activating it: nothing from its submitter, and nothing is lost on the way
\* through draining, disabling and activating it again.
GrantsAreDecided == \A r \in Release :
  release[r] # None => release[r].granted = decided[r]

\* Whatever happens to its release after a run was admitted, the release grants
\* all that the run's agent declares.
AdmittedRunsAreCovered == \A j \in Run : run[j] # None =>
  agent[run[j].agent].capabilities \subseteq release[run[j].release].granted

\* A release that runs work, or did, went through every check, and one that was
\* revoked stays revoked.
ActiveIsVetted == \A r \in Release : release[r] # None =>
  /\ release[r].state \in {"active", "draining", "disabled", "revoked"}
       => {"verified", "approved", "installed"} \subseteq passed[r]
  /\ "revoked" \in passed[r] => release[r].state = "revoked"

\* An agent made from a template stays within a scope that was published for a
\* harness that can run.
AgentsStayInScope == \A a \in Agent :
  agent[a] # None /\ agent[a].template # None =>
    LET t == template[agent[a].template] IN
      /\ t.status = "published" /\ t.harness \in Supported
      /\ agent[a].harness = t.harness
      /\ agent[a].capabilities \subseteq t.capabilities

\* Runs, agents and grants fit together, whatever happened to releases since
\* (GrantRegistryCapabilities, CreateAgentFromTemplate, CreateAgentRun).
WorkIsGranted ==
  TypeOK /\ GrantsAreDecided /\ AdmittedRunsAreCovered /\ AgentsStayInScope

\* Of two operators who read the same release, the slower one is refused: a
\* release changes only as the administrator who changes it last saw it.
DecidedAsRead(r) == release[r] # None /\ release'[r] # release[r] =>
  \E o \in Admin : reading[o] = [of |-> r, row |-> release[r]]
                   /\ reading'[o] = [of |-> r, row |-> release'[r]]

\* While the releases that run a harness are of one family, a grant takes
\* nothing from the harness: it does not change which release runs it.
GrantWidens(h) ==
  (\E o \in Operator, r \in Release, caps \in SUBSET Capability :
     GrantRegistryCapabilities(o, r, caps))
  /\ (\A q, r \in Release : release[q] # None /\ RunnerOf[q] = h
        /\ release[r] # None /\ RunnerOf[r] = h => FamilyOf[q] = FamilyOf[r])
    => Permitted(h) \subseteq Permitted(h)'

\* Administrators who work at the same time lose no decision of each other
\* (TransitionRegistryRelease, GrantRegistryCapabilities).
ReleasesChangeAsDecided ==
  [][(\A r \in Release : DecidedAsRead(r)) /\ (\A h \in Harness : GrantWidens(h))]_vars
=============================================================================
