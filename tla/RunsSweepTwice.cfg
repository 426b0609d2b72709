\* A run is abandoned twice and River has discarded its jobs.
CONSTANTS
  Run = {r1}
  t1 = t1
  Task = {t1}
  Gate = {g1}
  alice = alice
  bob = bob
  Principal = {alice}
  Admin = {}
  Worker = {w1}
  TaskOf <- MCTaskOf
  NoRun = NoRun
  NoGate = NoGate
  NoOne = NoOne
  SweepLimit = 1
  MaxFaults = 2
  MaxDiscards = 2
  MaxBadQuestions = 0
SPECIFICATION FairSpec
PROPERTIES SweepRecovers
