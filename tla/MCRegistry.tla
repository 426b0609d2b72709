-------------------------------- MODULE MCRegistry --------------------------------
(***************************************************************************)
(* The instance of Registry that TLC checks: two releases of one family and *)
(* one of another, and all of them name the same runner in their manifests. *)
(***************************************************************************)
EXTENDS Registry, FiniteSets, TLC

CONSTANTS r1, r2, r3, cli, sim

MCFamilyOf == (r1 :> cli) @@ (r2 :> cli) @@ (r3 :> sim)
MCRunnerOf == [r \in Release |-> cli]

MCSymmetry == Permutations(Capability) \cup Permutations(Admin)
-----------------------------------------------------------------------------
Known    == {r \in Release : release[r] # None}
Readers  == {o \in Operator : reading[o] # None}
Agents   == {a \in Agent : agent[a] # None}
NoTemplates == \A t \in Template : template[t] = None
Idle     == Agents = {} /\ NoTemplates
CliOnly  == NoTemplates /\ \A a \in Agents : agent[a].harness = cli
Revisions(n) == \A r \in Known : release[r].revision <= n

\* Two administrators and a requester over one release; or one administrator
\* over a release and the work under it; or over two versions of a harness; or
\* over two families, where the release that serves a harness changes under its
\* runs; or templates and agents, without releases.  A second release is
\* submitted when the first one has been active.
Used == \E r \in Known :
  release[r].state \notin {"quarantined", "verified", "approved", "installed"}

Focus ==
  \/ Known \subseteq {r1} /\ Idle /\ Revisions(5)
  \/ /\ Cardinality(Readers) <= 1 /\ Readers \subseteq Admin
     /\ \/ Known \subseteq {r1} /\ CliOnly
        \/ Known \subseteq {r1, r2} /\ Used /\ Idle /\ Revisions(6)
        \/ Known \subseteq {r1, r3} /\ Used /\ CliOnly /\ Revisions(6)
  \/ Known = {}
=============================================================================
