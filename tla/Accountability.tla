----------------------------- MODULE Accountability -----------------------------
(***************************************************************************)
(* What the handoffs promise about the person who answers for a task:      *)
(* accountability moves from the one who has it to one who was asked by    *)
(* that person, a bounded number of times, and whoever was asked besides   *)
(* the taker has to be asked again.                                        *)
(***************************************************************************)
EXTENDS Naturals

CONSTANTS Task, Principal, MaxHops

VARIABLES
  owner,   \* who answers for each task
  asked,   \* the people its owner asked to take it over
  hops     \* how often it changed hands

vars == <<owner, asked, hops>>

TypeOK ==
  /\ owner \in [Task -> Principal]
  /\ asked \in [Task -> SUBSET Principal]
  /\ hops \in [Task -> 0..MaxHops]

Init ==
  /\ owner \in [Task -> Principal]
  /\ asked = [t \in Task |-> {}]
  /\ hops = [t \in Task |-> 0]

Ask(t, a) ==
  /\ hops[t] < MaxHops
  /\ asked' = [asked EXCEPT ![t] = @ \cup {a}]
  /\ UNCHANGED <<owner, hops>>

\* Somebody declines or is no longer asked, or the offers lapse.
Forget ==
  /\ \A t \in Task : asked'[t] \subseteq asked[t]
  /\ asked' \in [Task -> SUBSET Principal]
  /\ UNCHANGED <<owner, hops>>

Take(t, a) ==
  /\ a \in asked[t]
  /\ hops[t] < MaxHops
  /\ owner' = [owner EXCEPT ![t] = a]
  /\ hops' = [hops EXCEPT ![t] = @ + 1]
  /\ asked' = [asked EXCEPT ![t] = {}]

Next ==
  \/ \E t \in Task, a \in Principal : Ask(t, a) \/ Take(t, a)
  \/ Forget

Spec == Init /\ [][Next]_vars
=============================================================================
