----------------------------- MODULE MCAgentRuns -----------------------------
(***************************************************************************)
(* Instances of AgentRuns for TLC: every run works on the first task, so   *)
(* that two runs compete for one task, its owner and its questions.        *)
(***************************************************************************)
EXTENDS AgentRuns, TLC

CONSTANTS t1, alice, bob

MCTaskOf == [r \in Run |-> t1]
MCAdmin == {bob}

MCSymmetry == Permutations(Run) \cup Permutations(Worker) \cup Permutations(Gate)
-----------------------------------------------------------------------------
Present == {r \in Run : run[r].status # "absent"}
GivenUp == {r \in Run : discarded[r] > 0}
Asked   == {g \in Gate : gate[g].status # "absent"}

\* Either one run that may ask twice while people come and go, and no job is
\* discarded; or two runs of a task that stays alice's, one question and one crash.
Focus ==
  \/ Cardinality(Present) <= 1 /\ GivenUp = {}
  \/ /\ Cardinality(Asked) <= 1 /\ faults <= 1 /\ Cardinality(GivenUp) <= 1
     /\ task[t1].owner = alice /\ bob \in active
     /\ \A r \in Run : run[r].initiator # bob
=============================================================================
