\* Ownership moves and people are revoked between decision and execution; no symmetry, no job is discarded.
CONSTANTS
  Task = {t1, t2}
  p1 = p1
  p2 = p2
  p3 = p3
  Proposal = {p1, p2}
  Key = {k1, k2}
  Record = {rec1, rec2}
  k1 = k1
  k2 = k2
  rec1 = rec1
  rec2 = rec2
  Target <- SomeTargets
  Executor = {e1}
  alice = alice
  bob = bob
  Principal = {alice, bob}
  Approver = {bob}
  NoProposal = NoProposal
  NoTask = NoTask
  NoOne = NoOne
  NoContent = NoContent
  MaxFaults = 0
  MaxDiscards = 0
  MaxMoves = 1
  MaxRepeats = 0
SPECIFICATION FairSpec
INVARIANTS AppliedByTwoPeople AllOrNothing
PROPERTIES AppliesInOrder ApprovedIsExecuted
