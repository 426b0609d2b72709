\* Two logins and two requests at once, and an account that two organisations want.
CONSTANTS
  alice = alice
  bob = bob
  carol = carol
  acme = acme
  umbrella = umbrella
  l1 = l1
  l2 = l2
  s1 = s1
  s2 = s2
  Org = {acme, umbrella}
  Principal = {alice, bob, carol}
  OrgOf <- MCOrgOf
  Account = {x1, x2, x3}
  Login = {l1, l2}
  Session = {s1, s2}
  Process = {q1, q2}
  None = None
  MaxBootstraps = 3
  MaxRevocations = 1
SPECIFICATION Spec
SYMMETRY MCSymmetry
CONSTRAINT Focus
INVARIANTS SessionsAreAccountedFor RequestsAreAuthorized AdminsKeepALink
PROPERTIES LinksAreNotRepointed
