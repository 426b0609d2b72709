----------------------------- MODULE MCGovernance -----------------------------
(***************************************************************************)
(* Instances of Governance for TLC: alice prepares, bob may approve.       *)
(***************************************************************************)
EXTENDS Governance, TLC

CONSTANTS alice, bob, k1, k2, rec1, rec2, p1, p2, p3

\* Everything, and a smaller choice that still lets a proposal change two
\* records, or one record twice, and two proposals compete for a record.
AllTargets  == Key \X Record
SomeTargets == {<<k1, rec1>>, <<k2, rec1>>, <<k2, rec2>>}

MCSymmetry == Permutations(Task) \cup Permutations(Key) \cup Permutations(Record)
-----------------------------------------------------------------------------
Made(p) == proposal[p].status # "absent"

Untouched(t) ==
  /\ task[t] = [owner |-> alice, status |-> "draft"]
  /\ \A u \in Task : <<t, u>> \notin depends /\ <<u, t>> \notin depends
  /\ \A p \in Proposal : proposal[p].task # t

\* Identities of proposals are taken in their order.  Three tasks that wait for
\* each other, with two proposals of one operation; or two tasks with two
\* proposals, one of which repeats an operation id or meets a fault, or loses its
\* job; or two tasks with three proposals.
Focus ==
  /\ Made(p3) => Made(p2)
  /\ Made(p2) => Made(p1)
  /\ \/ /\ ~Made(p3) /\ faults + discarded + repeats = 0
        /\ \A p \in Proposal : Cardinality(proposal[p].ops) <= 1
     \/ ~Made(p3) /\ faults + discarded + repeats <= 1 /\ \E t \in Task : Untouched(t)
     \/ faults + discarded + repeats = 0 /\ \E t \in Task : Untouched(t)
=============================================================================
