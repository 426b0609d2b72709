\* Liveness: no symmetry, one job is discarded, one question is refused.
CONSTANTS
  Run = {r1}
  t1 = t1
  Task = {t1}
  Gate = {g1}
  alice = alice
  bob = bob
  Principal = {alice}
  Admin = {}
  Worker = {w1, w2}
  TaskOf <- MCTaskOf
  NoRun = NoRun
  NoGate = NoGate
  NoOne = NoOne
  SweepLimit = 1
  MaxFaults = 2
  MaxDiscards = 1
  MaxBadQuestions = 1
SPECIFICATION FairSpec
PROPERTIES RunsSettle
