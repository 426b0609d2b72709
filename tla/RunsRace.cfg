\* A run delivered to two workers that may ask twice, with two crashes; or two runs of
\* a task, a crash, a discarded job and a sweep that takes one run at a time.
CONSTANTS
  Run = {r1, r2}
  t1 = t1
  Task = {t1}
  Gate = {g1, g2}
  alice = alice
  bob = bob
  Principal = {alice, bob}
  Admin = {bob}
  Worker = {w1, w2}
  TaskOf <- MCTaskOf
  NoRun = NoRun
  NoGate = NoGate
  NoOne = NoOne
  SweepLimit = 1
  MaxFaults = 2
  MaxDiscards = 1
  MaxBadQuestions = 0
SPECIFICATION Spec
SYMMETRY MCSymmetry
CONSTRAINT Focus
INVARIANTS TypeOK PublishedOnce QuestionsMatchWaitingRuns NoStrandedRun
PROPERTIES DisplacedWorkerIsInert LiveClaimIsNotStolen PublishedForPresentOwner ImplementsLifecycle
