------------------------------ MODULE SweepWalk ------------------------------
(***************************************************************************)
(* How the recovery sweeper of one worker process walks the directory of   *)
(* organisations: a page at a time, in the order of their identities, from *)
(* a cursor that lives in memory.  AgentRuns models what a pass does inside *)
(* one organisation.                                                       *)
(***************************************************************************)
EXTENDS Integers, FiniteSets

CONSTANTS
  Org,         \* identities of organisations, as numbers in their order
  SweepBatch,  \* sweepBatch: how many organisations a pass examines
  MaxLapses    \* bound: passes that fail to read and restarts of the process

ASSUME WalkAssumption ==
  /\ Org \subseteq Nat \ {0} /\ IsFiniteSet(Org)
  /\ SweepBatch \in Nat \ {0}
  /\ MaxLapses \in Nat

VARIABLES
  directory,  \* the organisations that exist
  bad,        \* those whose reclaim transaction fails
  cursor,     \* the last organisation examined, 0 is ''
  page,       \* the organisations of the last pass
  swept,      \* those of them whose transaction was committed
  lapses

walk == <<directory, bad, cursor, page, swept, lapses>>

WalkTypeOK ==
  /\ directory \in SUBSET Org /\ bad \in SUBSET Org
  /\ cursor \in {0} \cup Org
  /\ page \in SUBSET Org /\ swept \in SUBSET page
  /\ lapses \in Nat

WalkInit ==
  /\ directory \in SUBSET Org /\ bad \in SUBSET Org
  /\ cursor = 0 /\ page = {} /\ swept = {} /\ lapses = 0

After(c) == {o \in directory : o > c}

\* Mutants, here and below, are wrong versions of the definition they precede.
\* No specification uses them; each shows that a property can fail.
\* Mutant: ordered the wrong way round.
OrgsAfterDescending(c) ==
  {o \in After(c) : Cardinality({u \in After(c) : u > o}) < SweepBatch}

\* ORDER BY id LIMIT SweepBatch: everything that has fewer than SweepBatch
\* organisations before it.
OrgsAfter(c) ==
  {o \in After(c) : Cardinality({u \in After(c) : u < o}) < SweepBatch}

\* A page that is not full has reached the end: the walk starts again.
NextCursor(orgs) ==
  IF Cardinality(orgs) < SweepBatch THEN 0
  ELSE CHOOSE last \in orgs : \A o \in orgs : o <= last

\* Mutant: a failing organisation ends the pass with the cursor before it.
SweepUntilFailure ==
  LET orgs == OrgsAfter(cursor) IN
  /\ page' = orgs
  /\ swept' = orgs \ bad
  /\ cursor' = IF orgs \cap bad = {} THEN NextCursor(orgs) ELSE cursor
  /\ UNCHANGED <<directory, bad, lapses>>

\* One tick: organisations that fail are passed over.
ReclaimSweep ==
  LET orgs == OrgsAfter(cursor) IN
  /\ page' = orgs
  /\ swept' = orgs \ bad
  /\ cursor' = NextCursor(orgs)
  /\ UNCHANGED <<directory, bad, lapses>>

\* The directory cannot be read: the cursor stays.
SweepFails ==
  /\ lapses < MaxLapses
  /\ lapses' = lapses + 1
  /\ page' = {} /\ swept' = {}
  /\ UNCHANGED <<directory, bad, cursor>>

\* The process is restarted and forgets how far it was.
Restart ==
  /\ lapses < MaxLapses
  /\ lapses' = lapses + 1
  /\ cursor' = 0
  /\ UNCHANGED <<directory, bad, page, swept>>

CreateOrganization(o) ==
  /\ o \notin directory
  /\ directory' = directory \cup {o}
  /\ UNCHANGED <<bad, cursor, page, swept, lapses>>

WalkNext ==
  \/ ReclaimSweep \/ SweepFails \/ Restart
  \/ \E o \in Org : CreateOrganization(o)

\* The ticker fires again and again.
WalkSpec == WalkInit /\ [][WalkNext]_walk /\ WF_walk(ReclaimSweep)
-----------------------------------------------------------------------------
\* A step of the walk from one page to the next.
SkipsNothing ==
  cursor' > cursor =>
    {o \in directory : cursor < o /\ o <= cursor'} \subseteq page'

\* The cursor moves past nothing that was not examined, and a pass is bounded.
WalkSkipsNothing == [][SkipsNothing /\ Cardinality(page') <= SweepBatch /\ WalkTypeOK']_walk

\* However many organisations there are, wherever new ones appear and
\* whichever keep failing: every healthy one is recovered again and again,
\* not just the first few.
EveryOrgIsSwept ==
  \A o \in Org : o \in directory \ bad ~> o \in swept
=============================================================================
