\* Three releases of two families, three operators, an agent and a template.
CONSTANTS
  r1 = r1
  r2 = r2
  r3 = r3
  cli = cli
  sim = sim
  Release = {r1, r2, r3}
  FamilyOf <- MCFamilyOf
  RunnerOf <- MCRunnerOf
  Harness = {cli, sim}
  Supported = {cli}
  Capability = {read, write}
  Operator = {ada, ben, cat}
  Admin = {ada, ben}
  Agent = {a1}
  Template = {t1}
  Run = {j1}
  None = None
  MaxRevision = 9
SPECIFICATION Spec
SYMMETRY MCSymmetry
CONSTRAINT Focus
INVARIANTS WorkIsGranted ActiveIsVetted
PROPERTIES ReleasesChangeAsDecided
CHECK_DEADLOCK FALSE
