---------------------------- MODULE RunLifecycle ----------------------------
(***************************************************************************)
(* What a person who starts an agent run relies on, without workers, jobs, *)
(* tokens or leases: a run is open, may ask and be answered, and ends once *)
(* - with one published proposal, or without any.  Cancelling a task ends  *)
(* all its runs at that moment, and no run of a cancelled task is opened.  *)
(***************************************************************************)
EXTENDS Naturals

CONSTANTS Run, Task, TaskOf

VARIABLES
  phase,     \* how far each run is
  output,    \* how many proposals it has published
  cancelled  \* the cancelled tasks

vars == <<phase, output, cancelled>>

Unfinished == {"open", "asking"}

Init ==
  /\ phase = [r \in Run |-> "absent"]
  /\ output = [r \in Run |-> 0]
  /\ cancelled = {}

Open(r) ==
  /\ phase[r] = "absent"
  /\ TaskOf[r] \notin cancelled
  /\ phase' = [phase EXCEPT ![r] = "open"]
  /\ UNCHANGED <<output, cancelled>>

Ask(r) ==
  /\ phase[r] = "open"
  /\ phase' = [phase EXCEPT ![r] = "asking"]
  /\ UNCHANGED <<output, cancelled>>

Answer(r) ==
  /\ phase[r] = "asking"
  /\ phase' = [phase EXCEPT ![r] = "open"]
  /\ UNCHANGED <<output, cancelled>>

Succeed(r) ==
  /\ phase[r] = "open"
  /\ phase' = [phase EXCEPT ![r] = "succeeded"]
  /\ output' = [output EXCEPT ![r] = 1]
  /\ UNCHANGED cancelled

Fail(r) ==
  /\ phase[r] = "open"
  /\ phase' = [phase EXCEPT ![r] = "failed"]
  /\ UNCHANGED <<output, cancelled>>

Cancel(t) ==
  /\ cancelled' = cancelled \cup {t}
  /\ phase' = [r \in Run |-> IF TaskOf[r] = t /\ phase[r] \in Unfinished
                             THEN "cancelled" ELSE phase[r]]
  /\ UNCHANGED output

Next ==
  \/ \E r \in Run : Open(r) \/ Ask(r) \/ Answer(r) \/ Succeed(r) \/ Fail(r)
  \/ \E t \in Task : Cancel(t)

Spec == Init /\ [][Next]_vars
=============================================================================
