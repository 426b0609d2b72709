\* Two tasks compete for two keys and one record with three proposals, or three
\* tasks wait for each other.
CONSTANTS
  Task = {t1, t2, t3}
  p1 = p1
  p2 = p2
  p3 = p3
  Proposal = {p1, p2, p3}
  Key = {k1, k2}
  Record = {rec1}
  k1 = k1
  k2 = k2
  rec1 = rec1
  rec2 = rec2
  Target <- AllTargets
  Executor = {e1}
  alice = alice
  bob = bob
  Principal = {alice, bob}
  Approver = {bob}
  NoProposal = NoProposal
  NoTask = NoTask
  NoOne = NoOne
  NoContent = NoContent
  MaxFaults = 1
  MaxDiscards = 1
  MaxMoves = 0
  MaxRepeats = 1
SPECIFICATION Spec
SYMMETRY MCSymmetry
CONSTRAINT Focus
INVARIANTS NoDependencyCycle OneLiveProposal KeysFollowProposals RecordsAreSerial ApprovedIsScheduled
PROPERTIES ImplementsGovernedChange
