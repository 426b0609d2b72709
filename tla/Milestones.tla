-------------------------------- MODULE Milestones --------------------------------
(***************************************************************************)
(* Outcomes that a project promises, what must be met before what, and     *)
(* the planners who revise forecasts, add prerequisites and record that a  *)
(* milestone was met, each from what they last read.                       *)
(*                                                                         *)
(* Every operation is one transaction under the organisation's lock.  That *)
(* the caller is an active principal is the subject of Access.  No         *)
(* operation makes a milestone active or cancels it: it is planned, then   *)
(* met.                                                                    *)
(***************************************************************************)
EXTENDS Integers, FiniteSets

CONSTANTS
  Milestone,
  Planner,      \* the callers
  Day,          \* forecast dates
  None,
  MaxVersion    \* bound: revisions of a milestone

ASSUME MilestonesAssumption == MaxVersion \in Nat \ {0}

VARIABLES
  milestone,  \* milestones: status, forecast_date and version
  dep,        \* milestone_dependencies: pairs of a milestone and its parent
  reading,    \* what each planner last read of each milestone
  late        \* history: dependencies that were added to a met milestone

vars == <<milestone, dep, reading, late>>
-----------------------------------------------------------------------------
MilestoneRow == [status : {"planned", "met"}, forecast : Day \cup {None},
                 version : 1..MaxVersion]

ASSUME NoneAssumption == None \notin MilestoneRow

TypeOK ==
  /\ milestone \in [Milestone -> MilestoneRow \cup {None}]
  /\ dep \in SUBSET (Milestone \X Milestone)
  /\ reading \in [Planner -> [Milestone -> MilestoneRow \cup {None}]]
  /\ late \in SUBSET (Milestone \X Milestone)

Init ==
  /\ milestone = [m \in Milestone |-> None]
  /\ dep = {}
  /\ reading = [u \in Planner |-> [m \in Milestone |-> None]]
  /\ late = {}

Known(m)   == milestone[m] # None
Met(m)     == Known(m) /\ milestone[m].status = "met"
Parents(m) == {p \in Milestone : <<m, p>> \in dep}

\* Everything that must be met before p: the recursive query of
\* AddMilestoneDependency.
Reach(p) == {q \in Milestone : \A S \in SUBSET Milestone :
  Parents(p) \subseteq S /\ (\A v \in S : Parents(v) \subseteq S) => q \in S}
-----------------------------------------------------------------------------
CreateMilestone(m, forecast) ==
  /\ ~Known(m)
  /\ milestone' = [milestone EXCEPT ![m] =
       [status |-> "planned", forecast |-> forecast, version |-> 1]]
  /\ UNCHANGED <<dep, reading, late>>

\* GetMilestone and ListMilestones, for one planner and one milestone.
GetMilestone(u, m) ==
  /\ Known(m)
  /\ reading' = [reading EXCEPT ![u][m] = milestone[m]]
  /\ UNCHANGED <<milestone, dep, late>>

\* Mutant: a forecast is a guess, and no revision.
SetMilestoneForecastQuietly(m, forecast) ==
  /\ Known(m)
  /\ milestone' = [milestone EXCEPT ![m].forecast = forecast]
  /\ UNCHANGED <<dep, reading, late>>

\* No revision is asked for, and a met milestone may be forecast again.
SetMilestoneForecast(m, forecast) ==
  /\ Known(m) /\ milestone[m].version < MaxVersion
  /\ milestone' = [milestone EXCEPT ![m] =
       [status |-> milestone[m].status, forecast |-> forecast,
        version |-> milestone[m].version + 1]]
  /\ UNCHANGED <<dep, reading, late>>

\* Mutant: only the direct way back is looked for.
WaitsForDirectly(p, m) == m \in Parents(p)

\* Whether p waits for m already.
WaitsFor(p, m) == m \in Reach(p)

\* The status of neither is looked at, and no version changes.
AddMilestoneDependency(m, p) ==
  /\ m # p /\ Known(m) /\ Known(p)
  /\ ~WaitsFor(p, m)
  /\ dep' = dep \cup {<<m, p>>}
  /\ late' = IF Met(m) /\ <<m, p>> \notin dep THEN late \cup {<<m, p>>} ELSE late
  /\ UNCHANGED <<milestone, reading>>

Ready(m) == \A p \in Parents(m) : Met(p)

\* The evidence is there, and the version is the one the planner read.
CompleteMilestone(u, m) ==
  /\ Known(m) /\ reading[u][m] # None
  /\ reading[u][m].version = milestone[m].version
  /\ ~Met(m)
  /\ Ready(m)
  /\ milestone[m].version < MaxVersion
  /\ milestone' = [milestone EXCEPT ![m] =
       [status |-> "met", forecast |-> milestone[m].forecast,
        version |-> milestone[m].version + 1]]
  /\ UNCHANGED <<dep, reading, late>>

Next == \E m \in Milestone :
  \/ \E f \in Day \cup {None} : CreateMilestone(m, f) \/ SetMilestoneForecast(m, f)
  \/ \E u \in Planner : GetMilestone(u, m) \/ CompleteMilestone(u, m)
  \/ \E p \in Milestone : AddMilestoneDependency(m, p)

Spec == Init /\ [][Next]_vars
-----------------------------------------------------------------------------
(* Safety.                                                                 *)

\* No milestone waits for itself, however long the way round.
Acyclic == \A m \in Milestone : m \notin Reach(m)

\* The plan never deadlocks: while something is not met, something that is not
\* met has all its prerequisites met.
SomethingIsReady ==
  (\E m \in Milestone : Known(m) /\ ~Met(m))
    => \E m \in Milestone : Known(m) /\ ~Met(m) /\ Ready(m)

\* Milestones are met in the order of their prerequisites, as far as these were
\* known when the milestone was met: the comment on AddMilestoneDependency makes
\* no such exception, and a met milestone may be given a prerequisite that is not.
MetInOrder == \A m, p \in Milestone :
  <<m, p>> \in dep \ late /\ Met(m) => Met(p)

\* Whoever adds prerequisites meanwhile, the plan can be followed to its end, and
\* what is met was met in its order (AddMilestoneDependency, the count of unmet
\* prerequisites in CompleteMilestone).
PlanIsFollowed == SomethingIsReady /\ MetInOrder

\* A planner who calls a milestone met has seen its present forecast: nobody
\* revised it in between.
MetAsRead == [][\A m \in Milestone : ~Met(m) /\ Met(m)' =>
  \E u \in Planner : reading[u][m] = milestone[m]]_vars
=============================================================================
