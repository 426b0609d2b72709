-------------------------------- MODULE MCAccess --------------------------------
(***************************************************************************)
(* The instance of Access that TLC checks: alice and bob of one            *)
(* organisation, carol of another.                                         *)
(***************************************************************************)
EXTENDS Access, TLC

CONSTANTS alice, bob, carol, acme, umbrella, l1, l2, s1, s2

MCOrgOf == (alice :> acme) @@ (bob :> acme) @@ (carol :> umbrella)

MCSymmetry == Permutations(Account) \cup Permutations(Process)
-----------------------------------------------------------------------------
Unused(x) == link[x] = None /\ \A p \in Process : proc[p].account # x

\* Identities of logins and sessions are taken in their order.  Either two logins
\* and two requests at once, among colleagues with two accounts; or two
\* organisations that compete for three accounts, while nobody is deactivated.
Focus ==
  /\ login[l2] # "none" => login[l1] # "none"
  /\ session[s2] # None => session[s1] # None
  /\ \/ /\ principal[carol] = None /\ linking[umbrella] = None /\ bootstraps <= 2
        /\ \E x \in Account : Unused(x)
     \/ /\ principal[bob] = None /\ login[l2] = "none" /\ session[s2] = None
        /\ revocations = 0
=============================================================================
