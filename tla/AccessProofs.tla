------------------------------ MODULE AccessProofs ------------------------------
(***************************************************************************)
(* Proofs about Access, for any organisations, people, accounts, logins,   *)
(* sessions and requests.                                                  *)
(***************************************************************************)
EXTENDS Access, FiniteSetTheorems, TLAPS

-----------------------------------------------------------------------------
(* The inductive invariant.                                                *)

\* Where a request that has come this far stands on.
WithAccount == {"verified", "linked", "resolved", "row", "named", "accepted"}
WithPrincipal == {"linked", "resolved", "row", "named", "accepted"}

\* What the locals of a request look like.
Fits(p) ==
  /\ proc[p].pc \in {"consumed", "resolved"} => proc[p].login \in Login
  /\ proc[p].pc \in {"idle", "consumed", "verified", "linked", "resolved"}
       => proc[p].session = None
  /\ proc[p].pc \in {"row", "named"} => proc[p].session \in Session
  /\ proc[p].pc \in {"idle", "row", "named"} => proc[p].login = None
  /\ proc[p].pc \in WithAccount => proc[p].account \in Account
  /\ proc[p].pc \in WithPrincipal => proc[p].principal \in Principal
Shape == \A p \in Process : Fits(p)

\* A principal that is linked, or about to be by an administrator, exists.
PrincipalsExist ==
  /\ \A x \in Account : link[x] # None => principal[link[x].principal] # None
  /\ \A o \in Org : linking[o] # None /\ linking[o].role = None
                      => principal[linking[o].principal] # None

\* What a request has read of links stays true.
RequestsFollowLinks == \A p \in Process : proc[p].pc \in WithPrincipal =>
  /\ link[proc[p].account] # None
  /\ link[proc[p].account].principal = proc[p].principal

\* A login that somebody consumed is spent, and belongs to one callback or to
\* one session.
LoginsAreSpent ==
  /\ \A p \in Process : proc[p].login # None => login[proc[p].login] = "spent"
  /\ \A s \in Session : session[s] # None => login[session[s].login] = "spent"
LoginsAreHeldOnce ==
  /\ \A p, q \in Process : p # q /\ proc[p].login # None => proc[p].login # proc[q].login
  /\ \A p \in Process, s \in Session :
       session[s] # None => proc[p].login # session[s].login

\* What was good at some moment, by how far a request has come.
SeenSoFar == \A p \in Process :
  /\ proc[p].pc = "row" => "session" \in seen[p]
  /\ proc[p].pc = "named" => {"session", "principal"} \subseteq seen[p]
  /\ proc[p].pc = "linked" => {"session", "link"} \subseteq seen[p]
  /\ proc[p].pc = "resolved" => {"session", "link", "principal"} \subseteq seen[p]

IInv ==
  /\ TypeOK /\ Shape /\ PrincipalsExist
  /\ SessionsFollowLinks /\ RequestsFollowLinks
  /\ LoginsAreSpent /\ LoginsAreHeldOnce /\ OneSessionPerLogin
  /\ SeenSoFar /\ RequestsAreAuthorized /\ AdminsKeepALink
-----------------------------------------------------------------------------
(* Types.                                                                  *)

\* Every step but for what it adds to the history.
Typed ==
  /\ principal \in [Principal -> PrincipalRow \cup {None}]
  /\ link \in [Account -> LinkRow \cup {None}]
  /\ login \in [Login -> {"none", "open", "spent"}]
  /\ session \in [Session -> SessionRow \cup {None}]
  /\ proc \in [Process -> Proc]
  /\ linking \in [Org -> Linking \cup {None}]
  /\ bootstraps \in Nat /\ revocations \in Nat

LEMMA TypedReading ==
  ASSUME TypeOK, Shape, NEW p \in Process, Reading(p)
  PROVE  Typed'
<1> USE DEF TypeOK, Typed, people, budget
<1>0. /\ Idle \in Proc /\ proc[p] \in Proc
      /\ \A row \in Proc : Goto(p, row) => proc' \in [Process -> Proc]
  BY DEF Idle, Proc, Goto
<1>1. CASE ResolveLink(p)
  <2>1. link[proc[p].account] \in LinkRow /\ proc[p].account \in Account
    BY <1>1 DEF ResolveLink, Linked, Shape, Fits, WithAccount
  <2>2. [proc[p] EXCEPT !.pc = "linked", !.principal = link[proc[p].account].principal] \in Proc
    BY <1>0, <2>1 DEF Proc, LinkRow
  <2> QED
    BY <1>0, <1>1, <2>2 DEF ResolveLink
<1>2. CASE ResolvePrincipal(p)
  <2> DEFINE a == proc[p].principal
  <2>1. principal[a] \in PrincipalRow
    BY <1>2 DEF ResolvePrincipal, Active, Shape, Fits, WithPrincipal
  <2> DEFINE pc  == IF proc[p].login = None THEN "accepted" ELSE "resolved"
             row == [proc[p] EXCEPT !.role = principal[a].role, !.pc = pc]
  <2>2. Goto(p, row)
    BY <1>2 DEF ResolvePrincipal
  <2>3. pc \in {"accepted", "resolved"}
    OBVIOUS
  <2> HIDE DEF pc
  <2>4. row \in Proc
    BY <1>0, <2>1, <2>3 DEF Proc, PrincipalRow
  <2> HIDE DEF row
  <2> QED
    BY <1>0, <1>2, <2>2, <2>4 DEF ResolvePrincipal
<1>3. CASE ReadPrincipal(p)
  <2> DEFINE a == proc[p].principal
  <2>1. principal[a] \in PrincipalRow
    BY <1>3 DEF ReadPrincipal, Active, Shape, Fits, WithPrincipal
  <2>2. [proc[p] EXCEPT !.pc = "named", !.role = principal[a].role] \in Proc
    BY <1>0, <2>1 DEF Proc, PrincipalRow
  <2> QED
    BY <1>0, <1>3, <2>2 DEF ReadPrincipal
<1>4. CASE ReadLink(p)
  <2>1. [proc[p] EXCEPT !.pc = "accepted"] \in Proc
    BY <1>0 DEF Proc
  <2> QED
    BY <1>0, <1>4, <2>1 DEF ReadLink
<1>5. CASE Fails(p) \/ Serve(p)
  BY <1>0, <1>5 DEF Fails, Serve, Leave
<1>6. ASSUME NEW x \in Account, Exchange(p, x) \/ Bearer(p, x)
      PROVE  Typed'
  <2>1. [proc[p] EXCEPT !.pc = "verified", !.account = x] \in Proc
    BY <1>0 DEF Proc
  <2> QED
    BY <1>0, <1>6, <2>1 DEF Exchange, Bearer
<1>7. ASSUME NEW l \in Login, ConsumeLoginTransaction(p, l)
      PROVE  Typed'
  <2>1. [proc[p] EXCEPT !.pc = "consumed", !.login = l] \in Proc
    BY <1>0 DEF Proc
  <2> QED
    BY <1>0, <1>7, <2>1 DEF ConsumeLoginTransaction
<1>8. ASSUME NEW s \in Session, CreateSession(p, s)
      PROVE  Typed'
  <2>1. [status |-> "live", account |-> proc[p].account,
         principal |-> proc[p].principal, login |-> proc[p].login] \in SessionRow
    BY <1>8 DEF CreateSession, Shape, Fits, WithAccount, WithPrincipal, SessionRow
  <2> QED
    BY <1>0, <1>8, <2>1 DEF CreateSession, Leave
<1>9. ASSUME NEW s \in Session, ReadRow(p, s)
      PROVE  Typed'
  <2>1. session[s] \in SessionRow
    BY <1>9 DEF ReadRow, Live
  <2>2. [proc[p] EXCEPT !.pc = "row", !.session = s, !.account = session[s].account,
                        !.principal = session[s].principal] \in Proc
    BY <1>0, <2>1 DEF Proc, SessionRow
  <2> QED
    BY <1>0, <1>9, <2>2 DEF ReadRow
<1> QED
  BY <1>1, <1>2, <1>3, <1>4, <1>5, <1>6, <1>7, <1>8, <1>9 DEF Reading

LEMMA TypedAdministering ==
  ASSUME TypeOK, Shape, Administering
  PROVE  Typed'
<1> USE DEF TypeOK, Typed, people, budget
<1>0. /\ Idle \in Proc
      /\ \A p \in Process : Leave(p) => proc' \in [Process -> Proc]
  BY DEF Idle, Proc, Goto, Leave
<1>1. ASSUME NEW x \in Account, NEW a \in Principal, LinkAgain(x, a)
      PROVE  link' \in [Account -> LinkRow \cup {None}]
  BY <1>1 DEF LinkAgain, LinkRow
<1>2. ASSUME NEW x \in Account, NEW a \in Principal,
             NEW role \in {"requester", "approver", "admin", None}, LinkFresh(x, a, role)
      PROVE  linking' \in [Org -> Linking \cup {None}]
  BY <1>2 DEF LinkFresh, Linking
<1>3. ASSUME NEW a \in Principal, NEW role \in {"requester", "approver", "admin"}
      PROVE  Bootstrapped(a, role) \in [Principal -> PrincipalRow \cup {None}]
  BY DEF Bootstrapped, PrincipalRow
<1>4. ASSUME NEW p \in Process, NEW x \in Account, NEW a \in Principal,
             LinkIdentityByAdmin(p, x, a)
      PROVE  Typed'
  BY <1>0, <1>1, <1>2, <1>4 DEF LinkIdentityByAdmin
<1>5. ASSUME NEW p \in Process, NEW x \in Account, UnlinkIdentityByAdmin(p, x)
      PROVE  Typed'
  <2>1. link' \in [Account -> LinkRow \cup {None}]
    <3>1. link[x] \in LinkRow
      BY <1>5 DEF UnlinkIdentityByAdmin, Linked
    <3> QED
      BY <1>5, <3>1 DEF UnlinkIdentityByAdmin, LinkRow
  <2>2. session' \in [Session -> SessionRow \cup {None}]
    BY <1>5 DEF UnlinkIdentityByAdmin, SessionRow
  <2> QED
    BY <1>0, <1>5, <2>1, <2>2 DEF UnlinkIdentityByAdmin
<1>6. ASSUME NEW x \in Account, NEW a \in Principal, NEW role \in {"requester", "admin"},
             BootstrapIdentity(x, a, role)
      PROVE  Typed'
  BY <1>1, <1>2, <1>3, <1>6 DEF BootstrapIdentity
<1>7. ASSUME NEW o \in Org, InsertLink(o)
      PROVE  Typed'
  <2>1. linking[o] \in Linking /\ linking' \in [Org -> Linking \cup {None}]
    BY <1>7 DEF InsertLink
  <2>2. link' \in [Account -> LinkRow \cup {None}]
    <3>1. [principal |-> linking[o].principal, active |-> TRUE] \in LinkRow
      BY <2>1 DEF Linking, LinkRow
    <3>2. CASE link[linking[o].account] = None
      BY <1>7, <3>1, <3>2 DEF InsertLink
    <3>3. CASE link[linking[o].account] # None
      BY <1>7, <3>3 DEF InsertLink
    <3> QED
      BY <3>2, <3>3
  <2>3. principal' \in [Principal -> PrincipalRow \cup {None}]
    <3>1. CASE link[linking[o].account] = None /\ linking[o].role # None
      BY <1>3, <1>7, <2>1, <3>1 DEF InsertLink, Linking
    <3>2. CASE link[linking[o].account] # None \/ linking[o].role = None
      BY <1>7, <3>2 DEF InsertLink
    <3> QED
      BY <3>1, <3>2
  <2> QED
    BY <1>7, <2>1, <2>2, <2>3 DEF InsertLink
<1>8. ASSUME NEW a \in Principal, Revoke(a)
      PROVE  Typed'
  BY <1>8 DEF Revoke, Active, PrincipalRow
<1> QED
  BY <1>4, <1>5, <1>6, <1>7, <1>8 DEF Administering

LEMMA TypeInvariance ==
  ASSUME TypeOK, Shape, [Next]_vars
  PROVE  TypeOK'
<1>1. CASE UNCHANGED vars
  BY <1>1 DEF TypeOK, vars
<1>2. CASE Next
  <2>1. \A p \in Process : Good(p)' \in SUBSET {"session", "link", "principal"}
    BY DEF Good
  <2>2. seen' \in [Process -> SUBSET {"session", "link", "principal"}]
    BY <1>2, <2>1 DEF Next, Watch, TypeOK
  <2>3. Typed'
    <3>1. ASSUME NEW l \in Login, CreateLoginTransaction(l) \/ LoginLapses(l)
          PROVE  Typed'
      BY <3>1 DEF CreateLoginTransaction, LoginLapses, TypeOK, Typed, people, budget
    <3>2. ASSUME NEW s \in Session, SessionEnds(s)
          PROVE  Typed'
      BY <3>2 DEF SessionEnds, Live, SessionRow, TypeOK, Typed, people, budget
    <3> QED
      BY <1>2, <3>1, <3>2, TypedReading, TypedAdministering DEF Next, Step
  <2> QED
    BY <2>2, <2>3 DEF TypeOK, Typed
<1> QED
  BY <1>1, <1>2

LEMMA InitTyped == Init => TypeOK /\ Shape
  BY DEF Init, TypeOK, Shape, Fits, Idle, Proc, WithAccount, WithPrincipal
-----------------------------------------------------------------------------
(* What the steps do.                                                      *)

\* An account keeps its principal, and a principal its role.
LinksStay == \A x \in Account :
  link[x] # None => link'[x] # None /\ link'[x].principal = link[x].principal
PrincipalsStay == \A a \in Principal :
  principal[a] # None => principal'[a] # None /\ principal'[a].role = principal[a].role

LEMMA Lasting ==
  ASSUME TypeOK, Shape, [Next]_vars
  PROVE  LinksStay /\ PrincipalsStay
<1> USE DEF people
<1>1. ASSUME NEW a \in Principal, NEW role \in {"requester", "approver", "admin"},
             principal' = Bootstrapped(a, role)
      PROVE  PrincipalsStay
  <2>1. Bootstrapped(a, role)[a] \in PrincipalRow
    BY DEF Bootstrapped, TypeOK, PrincipalRow
  <2> QED
    BY <1>1, <2>1, NoneAssumption DEF Bootstrapped, PrincipalsStay, TypeOK
<1>2. ASSUME NEW x \in Account, NEW a \in Principal, NEW b \in BOOLEAN,
             link[x] # None, link[x].principal = a,
             link' = [link EXCEPT ![x] = [principal |-> a, active |-> b]]
      PROVE  LinksStay
  <2>1. [principal |-> a, active |-> b] \in LinkRow
    BY DEF LinkRow
  <2> QED
    BY <1>2, <2>1, NoneAssumption DEF LinksStay, TypeOK
<1>3. ASSUME UNCHANGED people
      PROVE  LinksStay /\ PrincipalsStay
  BY <1>3 DEF LinksStay, PrincipalsStay
<1>4. ASSUME NEW p \in Process, NEW x \in Account, NEW a \in Principal,
             LinkIdentityByAdmin(p, x, a)
      PROVE  LinksStay /\ PrincipalsStay
  BY <1>2, <1>3, <1>4 DEF LinkIdentityByAdmin, LinkAgain, LinksStay, PrincipalsStay
<1>5. ASSUME NEW p \in Process, NEW x \in Account, UnlinkIdentityByAdmin(p, x)
      PROVE  LinksStay /\ PrincipalsStay
  <2>1. link[x] \in LinkRow
    BY <1>5 DEF UnlinkIdentityByAdmin, Linked, TypeOK
  <2>2. link[x].principal \in Principal
    BY <2>1 DEF LinkRow
  <2> QED
    BY <1>2, <1>5, <2>1, <2>2, NoneAssumption
       DEF UnlinkIdentityByAdmin, PrincipalsStay
<1>6. ASSUME NEW x \in Account, NEW a \in Principal, NEW role \in {"requester", "admin"},
             BootstrapIdentity(x, a, role)
      PROVE  LinksStay /\ PrincipalsStay
  BY <1>1, <1>2, <1>6 DEF BootstrapIdentity, LinkAgain, LinksStay, PrincipalsStay
<1>7. ASSUME NEW o \in Org, InsertLink(o)
      PROVE  LinksStay /\ PrincipalsStay
  <2>1. linking[o] \in Linking
    BY <1>7 DEF InsertLink, TypeOK
  <2>2. CASE link[linking[o].account] # None
    BY <1>7, <2>2 DEF InsertLink, LinksStay, PrincipalsStay
  <2>3. CASE link[linking[o].account] = None
    <3>1. LinksStay
      BY <1>7, <2>3 DEF InsertLink, LinksStay, TypeOK
    <3>2. PrincipalsStay
      BY <1>1, <1>7, <2>1, <2>3 DEF InsertLink, Linking, PrincipalsStay
    <3> QED
      BY <3>1, <3>2
  <2> QED
    BY <2>2, <2>3
<1>8. ASSUME NEW a \in Principal, Revoke(a)
      PROVE  LinksStay /\ PrincipalsStay
  <2>1. principal[a] \in PrincipalRow
    BY <1>8 DEF Revoke, Active, TypeOK
  <2>2. [role |-> principal[a].role, active |-> FALSE] \in PrincipalRow
    BY <2>1 DEF PrincipalRow
  <2> QED
    BY <1>8, <2>2, NoneAssumption DEF Revoke, LinksStay, PrincipalsStay, TypeOK
<1>9. ASSUME NEW p \in Process, Reading(p)
      PROVE  UNCHANGED people
  BY <1>9 DEF Reading, ResolveLink, ResolvePrincipal, ReadPrincipal, ReadLink, Fails,
       Serve, Exchange, Bearer, ConsumeLoginTransaction, CreateSession, ReadRow
<1>10. ASSUME NEW l \in Login, CreateLoginTransaction(l) \/ LoginLapses(l)
       PROVE  UNCHANGED people
  BY <1>10 DEF CreateLoginTransaction, LoginLapses
<1>11. ASSUME NEW t \in Session, SessionEnds(t)
       PROVE  UNCHANGED people
  BY <1>11 DEF SessionEnds
<1>12. CASE UNCHANGED vars
  BY <1>3, <1>12 DEF vars
<1> QED
  BY <1>3, <1>4, <1>5, <1>6, <1>7, <1>8, <1>9, <1>10, <1>11, <1>12
     DEF Next, Step, Administering

\* Where a request gets, and what it has read then.
Becomes(p, pc, l, s, x, a) ==
  /\ proc'[p].pc = pc /\ proc'[p].login = l /\ proc'[p].session = s
  /\ proc'[p].account = x /\ proc'[p].principal = a

\* A step of a request, one disjunct for each kind.
Advance(p) == LET l == proc[p].login  s == proc[p].session
                  x == proc[p].account  a == proc[p].principal IN
  \/ /\ proc'[p] = Idle
     /\ UNCHANGED <<login, session>>
  \/ \E y \in Account :
       /\ proc[p].pc \in {"consumed", "idle"} /\ Becomes(p, "verified", l, s, y, a)
       /\ UNCHANGED <<login, session>>
  \/ /\ proc[p].pc = "verified" /\ Linked(x)
     /\ Becomes(p, "linked", l, s, x, link[x].principal)
     /\ UNCHANGED <<login, session>>
  \/ /\ proc[p].pc = "linked" /\ Active(a)
     /\ \/ l = None /\ Becomes(p, "accepted", l, s, x, a)
        \/ l # None /\ Becomes(p, "resolved", l, s, x, a)
     /\ UNCHANGED <<login, session>>
  \/ /\ proc[p].pc = "row" /\ Active(a)
     /\ Becomes(p, "named", l, s, x, a)
     /\ UNCHANGED <<login, session>>
  \/ /\ proc[p].pc = "named" /\ Linked(x) /\ link[x].principal = a
     /\ Becomes(p, "accepted", l, s, x, a)
     /\ UNCHANGED <<login, session>>
  \/ \E t \in Session :
       /\ proc[p].pc = "idle" /\ Live(t)
       /\ Becomes(p, "row", l, t, session[t].account, session[t].principal)
       /\ UNCHANGED <<login, session>>
  \/ \E m \in Login :
       /\ proc[p].pc = "idle" /\ login[m] = "open"
       /\ login' = [login EXCEPT ![m] = "spent"]
       /\ Becomes(p, "consumed", m, s, x, a)
       /\ UNCHANGED session
  \/ \E t \in Session :
       /\ proc[p].pc = "resolved" /\ session[t] = None
       /\ session' = [session EXCEPT ![t] =
            [status |-> "live", account |-> x, principal |-> a, login |-> l]]
       /\ proc'[p] = Idle
       /\ UNCHANGED login

LEMMA Advances ==
  ASSUME TypeOK, Shape, NEW p \in Process, Reading(p)
  PROVE  /\ UNCHANGED people
         /\ \A q \in Process \ {p} : proc'[q] = proc[q]
         /\ Advance(p)
<1> USE DEF TypeOK, people
<1>1. ASSUME NEW row, Goto(p, row)
      PROVE  proc'[p] = row /\ \A q \in Process \ {p} : proc'[q] = proc[q]
  BY <1>1 DEF Goto
<1>2. proc[p] \in Proc
  OBVIOUS
<1>3. CASE ResolveLink(p)
  <2> DEFINE row == [proc[p] EXCEPT !.pc = "linked",
                                    !.principal = link[proc[p].account].principal]
  <2>1. Goto(p, row) /\ proc[p].pc = "verified" /\ Linked(proc[p].account)
        /\ UNCHANGED <<people, login, session>>
    BY <1>3 DEF ResolveLink
  <2>2. proc'[p] = row /\ \A q \in Process \ {p} : proc'[q] = proc[q]
    BY <1>1, <2>1
  <2>3. Becomes(p, "linked", proc[p].login, proc[p].session, proc[p].account,
           link[proc[p].account].principal)
    BY <1>2, <2>1, <2>2 DEF Becomes, Proc
  <2> QED
    BY <2>1, <2>2, <2>3 DEF Advance
<1>4. CASE ResolvePrincipal(p)
  <2> DEFINE row(pc) == [proc[p] EXCEPT !.role = principal[proc[p].principal].role,
                                        !.pc = pc]
  <2>1. proc[p].pc = "linked" /\ Active(proc[p].principal) /\ UNCHANGED <<people, login, session>>
    BY <1>4 DEF ResolvePrincipal
  <2>2. ASSUME NEW pc, Goto(p, row(pc))
        PROVE  /\ \A q \in Process \ {p} : proc'[q] = proc[q]
               /\ Becomes(p, pc, proc[p].login, proc[p].session, proc[p].account,
                     proc[p].principal)
    <3>1. proc'[p] = row(pc) /\ \A q \in Process \ {p} : proc'[q] = proc[q]
      BY <1>1, <2>2
    <3> QED
      BY <1>2, <2>1, <3>1 DEF Becomes, Proc
  <2>3. CASE proc[p].login = None
    <3>1. Goto(p, row("accepted"))
      BY <1>4, <2>3 DEF ResolvePrincipal
    <3>2. /\ \A q \in Process \ {p} : proc'[q] = proc[q]
          /\ Becomes(p, "accepted", proc[p].login, proc[p].session, proc[p].account,
                     proc[p].principal)
      BY <2>2, <3>1
    <3> QED
      BY <2>1, <2>3, <3>2 DEF Advance
  <2>4. CASE proc[p].login # None
    <3>1. Goto(p, row("resolved"))
      BY <1>4, <2>4 DEF ResolvePrincipal
    <3>2. /\ \A q \in Process \ {p} : proc'[q] = proc[q]
          /\ Becomes(p, "resolved", proc[p].login, proc[p].session, proc[p].account,
                     proc[p].principal)
      BY <2>2, <3>1
    <3> QED
      BY <2>1, <2>4, <3>2 DEF Advance
  <2> QED
    BY <2>3, <2>4
<1>5. CASE ReadPrincipal(p)
  <2> DEFINE row == [proc[p] EXCEPT !.pc = "named",
                                    !.role = principal[proc[p].principal].role]
  <2>1. Goto(p, row) /\ proc[p].pc = "row" /\ Active(proc[p].principal)
        /\ UNCHANGED <<people, login, session>>
    BY <1>5 DEF ReadPrincipal
  <2>2. proc'[p] = row /\ \A q \in Process \ {p} : proc'[q] = proc[q]
    BY <1>1, <2>1
  <2>3. Becomes(p, "named", proc[p].login, proc[p].session, proc[p].account,
           proc[p].principal)
    BY <1>2, <2>1, <2>2 DEF Becomes, Proc
  <2> QED
    BY <2>1, <2>2, <2>3 DEF Advance
<1>6. CASE ReadLink(p)
  <2> DEFINE row == [proc[p] EXCEPT !.pc = "accepted"]
  <2>1. Goto(p, row) /\ proc[p].pc = "named" /\ Linked(proc[p].account)
        /\ link[proc[p].account].principal = proc[p].principal
        /\ UNCHANGED <<people, login, session>>
    BY <1>6 DEF ReadLink
  <2>2. proc'[p] = row /\ \A q \in Process \ {p} : proc'[q] = proc[q]
    BY <1>1, <2>1
  <2>3. Becomes(p, "accepted", proc[p].login, proc[p].session, proc[p].account,
           proc[p].principal)
    BY <1>2, <2>1, <2>2 DEF Becomes, Proc
  <2> QED
    BY <2>1, <2>2, <2>3 DEF Advance
<1>7. CASE Fails(p) \/ Serve(p)
  BY <1>1, <1>7 DEF Fails, Serve, Leave, Advance
<1>8. ASSUME NEW y \in Account, Exchange(p, y) \/ Bearer(p, y)
      PROVE  /\ UNCHANGED people
             /\ \A q \in Process \ {p} : proc'[q] = proc[q]
             /\ Advance(p)
  <2> DEFINE row == [proc[p] EXCEPT !.pc = "verified", !.account = y]
  <2>1. Goto(p, row) /\ proc[p].pc \in {"consumed", "idle"}
        /\ UNCHANGED <<people, login, session>>
    BY <1>8 DEF Exchange, Bearer
  <2>2. proc'[p] = row /\ \A q \in Process \ {p} : proc'[q] = proc[q]
    BY <1>1, <2>1
  <2>3. Becomes(p, "verified", proc[p].login, proc[p].session, y, proc[p].principal)
    BY <1>2, <2>1, <2>2 DEF Becomes, Proc
  <2> QED
    BY <2>1, <2>2, <2>3 DEF Advance
<1>9. ASSUME NEW m \in Login, ConsumeLoginTransaction(p, m)
      PROVE  /\ UNCHANGED people
             /\ \A q \in Process \ {p} : proc'[q] = proc[q]
             /\ Advance(p)
  <2> DEFINE row == [proc[p] EXCEPT !.pc = "consumed", !.login = m]
  <2>1. Goto(p, row) /\ proc[p].pc = "idle" /\ login[m] = "open"
        /\ login' = [login EXCEPT ![m] = "spent"] /\ UNCHANGED <<people, session>>
    BY <1>9 DEF ConsumeLoginTransaction
  <2>2. proc'[p] = row /\ \A q \in Process \ {p} : proc'[q] = proc[q]
    BY <1>1, <2>1
  <2>3. Becomes(p, "consumed", m, proc[p].session, proc[p].account, proc[p].principal)
    BY <1>2, <2>1, <2>2 DEF Becomes, Proc
  <2> QED
    BY <2>1, <2>2, <2>3 DEF Advance
<1>10. ASSUME NEW t \in Session, CreateSession(p, t)
       PROVE  /\ UNCHANGED people
              /\ \A q \in Process \ {p} : proc'[q] = proc[q]
              /\ Advance(p)
  BY <1>1, <1>10 DEF CreateSession, Leave, Advance
<1>11. ASSUME NEW t \in Session, ReadRow(p, t)
       PROVE  /\ UNCHANGED people
              /\ \A q \in Process \ {p} : proc'[q] = proc[q]
              /\ Advance(p)
  <2> DEFINE row == [proc[p] EXCEPT !.pc = "row", !.session = t,
                       !.account = session[t].account, !.principal = session[t].principal]
  <2>1. Goto(p, row) /\ proc[p].pc = "idle" /\ Live(t)
        /\ UNCHANGED <<people, login, session>>
    BY <1>11 DEF ReadRow
  <2>2. proc'[p] = row /\ \A q \in Process \ {p} : proc'[q] = proc[q]
    BY <1>1, <2>1
  <2>3. Becomes(p, "row", proc[p].login, t, session[t].account, session[t].principal)
    BY <1>2, <2>1, <2>2 DEF Becomes, Proc
  <2> QED
    BY <2>1, <2>2, <2>3 DEF Advance
<1> QED
  BY <1>3, <1>4, <1>5, <1>6, <1>7, <1>8, <1>9, <1>10, <1>11 DEF Reading

\* Any other step: no request gets on, logins stay spent and sessions whose.
Elsewhere ==
  /\ \A p \in Process : proc'[p] \in {proc[p], Idle}
  /\ \A l \in Login : login[l] = "spent" => login'[l] = "spent"
  /\ \A t \in Session : session'[t] # None =>
       /\ session[t] # None
       /\ session'[t].account = session[t].account
       /\ session'[t].principal = session[t].principal
       /\ session'[t].login = session[t].login

LEMMA Otherwise ==
  ASSUME TypeOK, [Next]_vars
  PROVE  Elsewhere \/ \E p \in Process : Reading(p)
<1> USE DEF TypeOK, people
<1>1. ASSUME NEW p \in Process, Leave(p)
      PROVE  \A q \in Process : proc'[q] \in {proc[q], Idle}
  BY <1>1 DEF Leave, Goto
<1>2. ASSUME NEW p \in Process, NEW x \in Account, UnlinkIdentityByAdmin(p, x)
      PROVE  Elsewhere
  <2>1. \A t \in Session : session'[t] # None =>
          /\ session[t] # None
          /\ session'[t].account = session[t].account
          /\ session'[t].principal = session[t].principal
          /\ session'[t].login = session[t].login
    BY <1>2 DEF UnlinkIdentityByAdmin, SessionRow
  <2> QED
    BY <1>1, <1>2, <2>1 DEF UnlinkIdentityByAdmin, Elsewhere
<1>3. ASSUME NEW t \in Session, SessionEnds(t)
      PROVE  Elsewhere
  BY <1>3 DEF SessionEnds, Live, SessionRow, Elsewhere
<1>4. ASSUME NEW l \in Login, CreateLoginTransaction(l) \/ LoginLapses(l)
      PROVE  Elsewhere
  BY <1>4 DEF CreateLoginTransaction, LoginLapses, Elsewhere
<1>5. ASSUME NEW p \in Process, NEW x \in Account, NEW a \in Principal,
             LinkIdentityByAdmin(p, x, a)
      PROVE  Elsewhere
  BY <1>1, <1>5 DEF LinkIdentityByAdmin, Elsewhere
<1>6. ASSUME UNCHANGED <<login, session, proc>>
      PROVE  Elsewhere
  BY <1>6 DEF Elsewhere
<1>7. CASE UNCHANGED vars
  BY <1>6, <1>7 DEF vars
<1> QED
  BY <1>2, <1>3, <1>4, <1>5, <1>6, <1>7
     DEF Next, Step, Administering, BootstrapIdentity, InsertLink, Revoke
-----------------------------------------------------------------------------
(* The invariant is inductive.                                             *)

LEMMA ShapeNext ==
  ASSUME TypeOK, Shape, [Next]_vars
  PROVE  Shape'
<1> SUFFICES ASSUME NEW q \in Process
             PROVE  Fits(q)'
  BY DEF Shape
<1>0. Fits(q)
  BY DEF Shape
<1>1. CASE proc'[q] \in {proc[q], Idle}
  BY <1>0, <1>1 DEF Fits, Idle, WithAccount, WithPrincipal
<1>2. ASSUME NEW p \in Process, Reading(p)
      PROVE  Fits(q)'
  <2>1. CASE q # p
    BY <1>1, <1>2, <2>1, Advances
  <2>2. CASE q = p
    <3>1. Advance(q) /\ UNCHANGED people
      BY <1>2, <2>2, Advances
    <3> QED
      BY <1>0, <1>1, <3>1, AccessAssumption
         DEF Advance, Becomes, Fits, WithAccount, WithPrincipal, TypeOK, Live, Linked,
             SessionRow, LinkRow, Proc
  <2> QED
    BY <2>1, <2>2
<1> QED
  BY <1>1, <1>2, Otherwise DEF Elsewhere

LEMMA FollowingNext ==
  ASSUME TypeOK, Shape, SessionsFollowLinks, RequestsFollowLinks, [Next]_vars
  PROVE  SessionsFollowLinks' /\ RequestsFollowLinks'
<1>1. LinksStay
  BY Lasting
<1>2. \A t \in Session : session[t] # None => session[t].account \in Account
  BY DEF TypeOK, SessionRow
<1>3. \A p \in Process : proc[p].pc \in WithPrincipal => proc[p].account \in Account
  BY DEF Shape, Fits, WithAccount, WithPrincipal
<1>4. ASSUME NEW q \in Process, proc'[q] \in {proc[q], Idle}, proc'[q].pc \in WithPrincipal
      PROVE  /\ link'[proc'[q].account] # None
             /\ link'[proc'[q].account].principal = proc'[q].principal
  BY <1>1, <1>3, <1>4 DEF RequestsFollowLinks, LinksStay, Idle, WithPrincipal
<1>5. CASE Elsewhere
  BY <1>1, <1>2, <1>4, <1>5
     DEF Elsewhere, SessionsFollowLinks, RequestsFollowLinks, LinksStay
<1>6. ASSUME NEW p \in Process, Reading(p)
      PROVE  SessionsFollowLinks' /\ RequestsFollowLinks'
  <2>1. /\ UNCHANGED people /\ Advance(p)
        /\ \A q \in Process \ {p} : proc'[q] = proc[q]
    BY <1>6, Advances
  <2>2. SessionsFollowLinks'
    <3>1. CASE UNCHANGED session
      BY <2>1, <3>1 DEF SessionsFollowLinks, people
    <3>2. ASSUME NEW t \in Session, proc[p].pc = "resolved",
                 session' = [session EXCEPT ![t] =
                   [status |-> "live", account |-> proc[p].account,
                    principal |-> proc[p].principal, login |-> proc[p].login]]
          PROVE  SessionsFollowLinks'
      BY <2>1, <3>2 DEF SessionsFollowLinks, RequestsFollowLinks, WithPrincipal,
         people, TypeOK
    <3> QED
      BY <2>1, <3>1, <3>2 DEF Advance
  <2>3. ASSUME NEW q \in Process, proc'[q].pc \in WithPrincipal
        PROVE  /\ link'[proc'[q].account] # None
               /\ link'[proc'[q].account].principal = proc'[q].principal
    <3>1. CASE q # p
      BY <1>4, <2>1, <2>3, <3>1
    <3>2. CASE q = p
      <4>1. CASE proc'[p].principal = proc[p].principal /\ proc'[p].account = proc[p].account
                 /\ proc[p].pc \in WithPrincipal
        BY <1>3, <2>1, <3>2, <4>1 DEF RequestsFollowLinks, people
      <4>2. CASE Linked(proc[p].account) /\ proc'[p].account = proc[p].account
                 /\ proc'[p].principal = link[proc[p].account].principal
        BY <2>1, <3>2, <4>2 DEF Linked, people
      <4>3. ASSUME NEW t \in Session, Live(t), proc'[p].account = session[t].account,
                   proc'[p].principal = session[t].principal
            PROVE  /\ link'[proc'[q].account] # None
                   /\ link'[proc'[q].account].principal = proc'[q].principal
        BY <2>1, <3>2, <4>3 DEF SessionsFollowLinks, Live, people
      <4>4. CASE proc[p].pc = "verified"
        BY <2>1, <2>3, <3>2, <4>2, <4>4 DEF Advance, Becomes, WithPrincipal, Idle
      <4>5. CASE proc[p].pc = "idle"
        BY <2>1, <2>3, <3>2, <4>3, <4>5 DEF Advance, Becomes, WithPrincipal, Idle
      <4>6. CASE proc[p].pc \notin {"verified", "idle"}
        BY <2>1, <2>3, <3>2, <4>1, <4>6 DEF Advance, Becomes, WithPrincipal, Idle
      <4> QED
        BY <4>4, <4>5, <4>6
    <3> QED
      BY <3>1, <3>2
  <2> QED
    BY <2>2, <2>3 DEF RequestsFollowLinks
<1> QED
  BY <1>5, <1>6, Otherwise

LEMMA LoginsNext ==
  ASSUME TypeOK, Shape, LoginsAreSpent, LoginsAreHeldOnce, OneSessionPerLogin,
         [Next]_vars
  PROVE  LoginsAreSpent' /\ LoginsAreHeldOnce' /\ OneSessionPerLogin'
<1> USE AccessAssumption DEF LoginsAreSpent, LoginsAreHeldOnce, OneSessionPerLogin
<1>0. /\ \A q \in Process : proc[q].login \in Login \cup {None}
      /\ \A t \in Session : session[t] # None => session[t].login \in Login
      /\ Idle.login = None
  BY DEF TypeOK, Proc, SessionRow, Idle
<1>1. CASE Elsewhere
  <2>1. \A q \in Process : proc'[q].login \in {proc[q].login, None}
    BY <1>0, <1>1 DEF Elsewhere
  <2> QED
    BY <1>0, <1>1, <2>1 DEF Elsewhere
<1>2. ASSUME NEW p \in Process, Reading(p)
      PROVE  LoginsAreSpent' /\ LoginsAreHeldOnce' /\ OneSessionPerLogin'
  <2>1. Advance(p) /\ \A q \in Process \ {p} : proc'[q] = proc[q]
    BY <1>2, Advances
  <2>2. CASE proc'[p].login \in {proc[p].login, None} /\ UNCHANGED <<login, session>>
    <3>1. \A q \in Process : proc'[q].login \in {proc[q].login, None}
      BY <2>1, <2>2
    <3> QED
      BY <1>0, <2>2, <3>1
  <2>3. ASSUME NEW m \in Login, login[m] = "open", proc'[p].login = m,
               login' = [login EXCEPT ![m] = "spent"], UNCHANGED session
        PROVE  LoginsAreSpent' /\ LoginsAreHeldOnce' /\ OneSessionPerLogin'
    <3>1. login'[m] = "spent" /\ \A l \in Login \ {m} : login'[l] = login[l]
      BY <2>3 DEF TypeOK
    <3> QED
      BY <1>0, <2>1, <2>3, <3>1
  <2>4. ASSUME NEW t \in Session, proc[p].login \in Login, proc'[p].login = None,
               session' = [session EXCEPT ![t] =
                 [status |-> "live", account |-> proc[p].account,
                  principal |-> proc[p].principal, login |-> proc[p].login]],
               UNCHANGED login
        PROVE  LoginsAreSpent' /\ LoginsAreHeldOnce' /\ OneSessionPerLogin'
    <3>1. /\ session'[t].login = proc[p].login
          /\ \A r \in Session \ {t} : session'[r] = session[r]
      BY <2>4 DEF TypeOK
    <3> QED
      BY <1>0, <2>1, <2>4, <3>1
  <2> QED
    BY <1>0, <2>1, <2>2, <2>3, <2>4 DEF Advance, Becomes, Shape, Fits
<1> QED
  BY <1>1, <1>2, Otherwise
LEMMA PrincipalsNext ==
  ASSUME TypeOK, Shape, PrincipalsExist, [Next]_vars
  PROVE  PrincipalsExist'
<1> USE DEF people
<1>0. PrincipalsStay /\ LinksStay
  BY Lasting
<1>1. \A x \in Account : link[x] # None =>
        /\ principal'[link[x].principal] # None
        /\ link'[x].principal = link[x].principal
  BY <1>0 DEF PrincipalsExist, PrincipalsStay, LinksStay, TypeOK, LinkRow
<1>2. \A o \in Org : linking[o] # None /\ linking[o].role = None =>
        principal'[linking[o].principal] # None
  BY <1>0 DEF PrincipalsExist, PrincipalsStay, TypeOK, Linking
<1>3. ASSUME UNCHANGED linking,
             \A x \in Account : link'[x] # None => link[x] # None
      PROVE  PrincipalsExist'
  BY <1>1, <1>2, <1>3 DEF PrincipalsExist
<1>4. ASSUME NEW x \in Account, NEW a \in Principal, LinkAgain(x, a)
      PROVE  \A y \in Account : link'[y] # None => link[y] # None
  BY <1>4 DEF LinkAgain, TypeOK
<1>5. ASSUME NEW x \in Account, NEW a \in Principal, NEW role,
             LinkFresh(x, a, role), UNCHANGED link,
             role = None => principal'[a] # None
      PROVE  PrincipalsExist'
  <2>1. \A o \in Org : linking'[o] \in
          {linking[o], [account |-> x, principal |-> a, role |-> role]}
    BY <1>5 DEF LinkFresh, TypeOK
  <2> QED
    BY <1>1, <1>2, <1>5, <2>1 DEF PrincipalsExist
<1>6. ASSUME NEW p \in Process, NEW x \in Account, NEW a \in Principal,
             LinkIdentityByAdmin(p, x, a)
      PROVE  PrincipalsExist'
  BY <1>3, <1>4, <1>5, <1>6 DEF LinkIdentityByAdmin
<1>7. ASSUME NEW p \in Process, NEW x \in Account, UnlinkIdentityByAdmin(p, x)
      PROVE  PrincipalsExist'
  <2>1. \A y \in Account : link'[y] # None => link[y] # None
    BY <1>7 DEF UnlinkIdentityByAdmin, Linked, TypeOK
  <2> QED
    BY <1>3, <1>7, <2>1 DEF UnlinkIdentityByAdmin
<1>8. ASSUME NEW x \in Account, NEW a \in Principal, NEW role \in {"requester", "admin"},
             BootstrapIdentity(x, a, role)
      PROVE  PrincipalsExist'
  <2>1. role # None
    BY NoneAssumption
  <2> QED
    BY <1>3, <1>4, <1>5, <1>8, <2>1 DEF BootstrapIdentity
<1>9. ASSUME NEW o \in Org, InsertLink(o)
      PROVE  PrincipalsExist'
  <2> DEFINE n == linking[o]
  <2>1. /\ linking[o] \in Linking /\ linking[o] # None
        /\ \A u \in Org : linking'[u] \in {linking[u], None}
    BY <1>9 DEF InsertLink, TypeOK
  <2>2. CASE link[n.account] # None
    BY <1>1, <1>2, <1>9, <2>1, <2>2 DEF InsertLink, PrincipalsExist
  <2>3. CASE link[n.account] = None
    <3>1. principal'[n.principal] # None
      <4>1. CASE n.role = None
        BY <1>2, <2>1, <4>1
      <4>2. CASE n.role # None
        <5>1. principal' = Bootstrapped(n.principal, n.role)
          BY <1>9, <2>3, <4>2 DEF InsertLink
        <5>2. Bootstrapped(n.principal, n.role)[n.principal] \in PrincipalRow
          BY <2>1, <4>2 DEF Bootstrapped, Linking, PrincipalRow, TypeOK
        <5> QED
          BY <5>1, <5>2, NoneAssumption
      <4> QED
        BY <4>1, <4>2
    <3>2. \A x \in Account : link'[x] # None =>
            link[x] # None \/ link'[x].principal = n.principal
      BY <1>9, <2>1, <2>3 DEF InsertLink, TypeOK, Linking
    <3> QED
      BY <1>1, <1>2, <2>1, <3>1, <3>2 DEF PrincipalsExist
  <2> QED
    BY <2>2, <2>3
<1>10. ASSUME NEW a \in Principal, Revoke(a)
       PROVE  PrincipalsExist'
  BY <1>3, <1>10 DEF Revoke
<1>11. CASE UNCHANGED people
  BY <1>3, <1>11
<1>12. ASSUME NEW p \in Process, Reading(p)
       PROVE  PrincipalsExist'
  BY <1>11, <1>12, Advances
<1> QED
  BY <1>6, <1>7, <1>8, <1>9, <1>10, <1>11, <1>12
     DEF Next, Step, Administering, vars, CreateLoginTransaction, LoginLapses, SessionEnds

LEMMA AdminsNext ==
  ASSUME TypeOK, Shape, PrincipalsExist, AdminsKeepALink, [Next]_vars
  PROVE  AdminsKeepALink'
<1> USE DEF people
<1>0. PrincipalsStay /\ LinksStay
  BY Lasting
<1>1. ASSUME NEW x \in Account, link[x] # None,
             principal'[link'[x].principal].role = "admin"
      PROVE  /\ link'[x].principal = link[x].principal
             /\ principal[link[x].principal].role = "admin"
             /\ \E y \in Account : Linked(y) /\ link[y].principal = link[x].principal
  BY <1>0, <1>1 DEF PrincipalsStay, LinksStay, AdminsKeepALink, PrincipalsExist,
     TypeOK, LinkRow
<1>2. ASSUME \A y \in Account : Linked(y) => link'[y].active,
             \A x \in Account : link'[x] # None => link[x] # None \/ link'[x].active
      PROVE  AdminsKeepALink'
  BY <1>0, <1>1, <1>2 DEF AdminsKeepALink, LinksStay, Linked
<1>3. CASE UNCHANGED link
  BY <1>2, <1>3 DEF Linked
<1>4. ASSUME NEW x \in Account, NEW a, link' = [link EXCEPT ![x] =
               [principal |-> a, active |-> TRUE]]
      PROVE  AdminsKeepALink'
  BY <1>2, <1>4 DEF Linked, TypeOK
<1>5. ASSUME NEW p \in Process, NEW x \in Account, UnlinkIdentityByAdmin(p, x)
      PROVE  AdminsKeepALink'
  <2> DEFINE a == link[x].principal
  <2>1. /\ principal[a].role = "admin" => Cardinality(ActiveLinks(a)) > 1
        /\ link' = [link EXCEPT ![x] = [principal |-> a, active |-> FALSE]]
        /\ Linked(x)
    BY <1>5 DEF UnlinkIdentityByAdmin
  <2>2. \A y \in Account \ {x} : link'[y] = link[y]
    BY <2>1 DEF TypeOK
  <2>3. ASSUME principal[a].role = "admin"
        PROVE  \E y \in Account \ {x} : Linked(y) /\ link[y].principal = a
    <3>1. x \in ActiveLinks(a)
      BY <2>1 DEF ActiveLinks
    <3>2. ActiveLinks(a) # {x}
      <4>1. Cardinality({x}) = 1
        BY FS_Singleton
      <4>2. Cardinality(ActiveLinks(a)) > 1
        BY <2>1, <2>3
      <4> QED
        BY <4>1, <4>2
    <3> QED
      BY <3>1, <3>2 DEF ActiveLinks
  <2>4. SUFFICES ASSUME NEW w \in Account, link'[w] # None,
                        principal'[link'[w].principal].role = "admin"
                 PROVE  \E y \in Account : Linked(y)' /\ link'[y].principal = link'[w].principal
    BY DEF AdminsKeepALink
  <2>5. link[w] # None
    BY <2>1, <2>2, <2>4 DEF Linked
  <2>6. /\ link'[w].principal = link[w].principal
        /\ principal[link[w].principal].role = "admin"
        /\ \E y \in Account : Linked(y) /\ link[y].principal = link[w].principal
    BY <1>1, <2>4, <2>5
  <2>7. CASE link[w].principal = a
    <3>1. PICK y \in Account \ {x} : Linked(y) /\ link[y].principal = a
      BY <2>3, <2>6, <2>7
    <3> QED
      BY <2>2, <2>6, <2>7, <3>1 DEF Linked
  <2>8. CASE link[w].principal # a
    <3>1. PICK y \in Account : Linked(y) /\ link[y].principal = link[w].principal
      BY <2>6
    <3>2. y # x
      BY <2>8, <3>1
    <3> QED
      BY <2>2, <2>6, <3>1, <3>2 DEF Linked
  <2> QED
    BY <2>7, <2>8
<1>6. ASSUME NEW p \in Process, Reading(p)
      PROVE  AdminsKeepALink'
  BY <1>3, <1>6, Advances
<1>7. ASSUME Administering
      PROVE  AdminsKeepALink'
  <2>1. ASSUME NEW p \in Process, NEW x \in Account, NEW a \in Principal,
               LinkIdentityByAdmin(p, x, a)
        PROVE  AdminsKeepALink'
    BY <1>3, <1>4, <2>1 DEF LinkIdentityByAdmin, LinkAgain
  <2>2. ASSUME NEW x \in Account, NEW a \in Principal, NEW role \in {"requester", "admin"},
               BootstrapIdentity(x, a, role)
        PROVE  AdminsKeepALink'
    BY <1>3, <1>4, <2>2 DEF BootstrapIdentity, LinkAgain
  <2>3. ASSUME NEW o \in Org, InsertLink(o)
        PROVE  AdminsKeepALink'
    <3>1. linking[o].account \in Account
      BY <2>3 DEF InsertLink, TypeOK, Linking
    <3> QED
      BY <1>3, <1>4, <2>3, <3>1 DEF InsertLink
  <2> QED
    BY <1>3, <1>5, <1>7, <2>1, <2>2, <2>3 DEF Administering, Revoke
<1> QED
  BY <1>3, <1>6, <1>7
     DEF Next, Step, vars, CreateLoginTransaction, LoginLapses, SessionEnds
\* What a step adds to the history of a request that goes on.
LEMMA GoodNow ==
  ASSUME NEW p \in Process, proc'[p].pc # "idle", proc'[p].account # None
  PROVE  /\ proc'[p].session = None \/ Live(proc[p].session)' => "session" \in Good(p)'
         /\ Linked(proc[p].account)' => "link" \in Good(p)'
         /\ link'[proc'[p].account] # None /\ Active(link[proc[p].account].principal)'
              => "principal" \in Good(p)'
  BY DEF Good

LEMMA SeenNext ==
  ASSUME TypeOK, Shape, RequestsFollowLinks, SeenSoFar, RequestsAreAuthorized,
         [Next]_vars
  PROVE  SeenSoFar' /\ RequestsAreAuthorized'
<1> DEFINE Told(q) ==
             /\ proc[q].pc = "row" => "session" \in seen[q]
             /\ proc[q].pc = "named" => {"session", "principal"} \subseteq seen[q]
             /\ proc[q].pc = "linked" => {"session", "link"} \subseteq seen[q]
             /\ proc[q].pc \in {"resolved", "accepted"} =>
                  {"session", "link", "principal"} \subseteq seen[q]
<1>1. CASE UNCHANGED vars
  BY <1>1 DEF vars, SeenSoFar, RequestsAreAuthorized
<1>2. CASE Next
  <2>1. \A q \in Process : Told(q)
    BY DEF SeenSoFar, RequestsAreAuthorized
  <2>2. \A q \in Process :
          /\ proc'[q].pc # "idle" => seen'[q] = seen[q] \cup Good(q)'
          /\ proc'[q].pc = "idle" => seen'[q] = {}
    BY <1>2 DEF Next, Watch
  <2>3. TypeOK'
    BY TypeInvariance
  <2>4. ASSUME NEW q \in Process
        PROVE  Told(q)'
    <3>1. CASE proc'[q] = Idle
      BY <3>1 DEF Idle
    <3>2. CASE proc'[q] = proc[q]
      <4>1. proc'[q].pc # "idle" => seen[q] \subseteq seen'[q]
        BY <2>2
      <4> QED
        BY <2>1, <3>2, <4>1
    <3>3. ASSUME NEW p \in Process, Reading(p)
          PROVE  Told(q)'
      <4>1. CASE q # p
        BY <3>2, <3>3, <4>1, Advances
      <4>2. CASE q = p
        <5> DEFINE x == proc[q].account
                   a == proc[q].principal
        <5>1. UNCHANGED people /\ Advance(q)
          BY <3>3, <4>2, Advances
        <5>2. Fits(q) /\ Told(q)
          BY <2>1 DEF Shape
        <5>3. ASSUME proc'[q].pc # "idle", proc'[q].account # None
              PROVE  /\ seen[q] \subseteq seen'[q]
                     /\ proc'[q].session = None \/ Live(proc[q].session)'
                          => "session" \in seen'[q]
                     /\ Linked(proc[q].account)' => "link" \in seen'[q]
                     /\ link'[proc'[q].account] # None
                          /\ Active(link[proc[q].account].principal)'
                        => "principal" \in seen'[q]
          BY <2>2, <5>3, GoodNow
        <5>4. proc[q].pc \in WithAccount => x \in Account /\ x # None
          BY <5>2, AccessAssumption DEF Fits
        <5>5. ASSUME proc[q].pc = "verified", Linked(x),
                     Becomes(q, "linked", proc[q].login, proc[q].session, x,
                             link[x].principal)
              PROVE  Told(q)'
          BY <5>1, <5>2, <5>3, <5>4, <5>5 DEF Becomes, Fits, WithAccount, Linked, people
        <5>6. ASSUME NEW pc \in {"resolved", "accepted"}, proc[q].pc = "linked", Active(a),
                     Becomes(q, pc, proc[q].login, proc[q].session, x, a)
              PROVE  Told(q)'
          <6>1. link[x] # None /\ link[x].principal = a
            BY <5>6 DEF RequestsFollowLinks, WithPrincipal
          <6> QED
            BY <5>1, <5>2, <5>3, <5>4, <5>6, <6>1 DEF Becomes, WithAccount, Active, people
        <5>7. ASSUME proc[q].pc = "row", Active(a),
                     Becomes(q, "named", proc[q].login, proc[q].session, x, a)
              PROVE  Told(q)'
          <6>1. link[x] # None /\ link[x].principal = a
            BY <5>7 DEF RequestsFollowLinks, WithPrincipal
          <6> QED
            BY <5>1, <5>2, <5>3, <5>4, <5>7, <6>1 DEF Becomes, WithAccount, Active, people
        <5>8. ASSUME proc[q].pc = "named", Linked(x),
                     Becomes(q, "accepted", proc[q].login, proc[q].session, x, a)
              PROVE  Told(q)'
          BY <5>1, <5>2, <5>3, <5>4, <5>8 DEF Becomes, WithAccount, Linked, people
        <5>9. ASSUME NEW t \in Session, proc[q].pc = "idle", Live(t), UNCHANGED session,
                     Becomes(q, "row", proc[q].login, t, session[t].account,
                             session[t].principal)
              PROVE  Told(q)'
          <6>1. session[t].account # None
            BY <5>9, AccessAssumption DEF Live, TypeOK, SessionRow
          <6> QED
            BY <5>3, <5>9, <6>1 DEF Becomes, Live
        <5>10. CASE proc'[q].pc \in {"verified", "consumed"}
          BY <5>10
        <5> QED
          BY <3>1, <5>1, <5>5, <5>6, <5>7, <5>8, <5>9, <5>10 DEF Advance, Becomes
      <4> QED
        BY <4>1, <4>2
    <3> QED
      BY <3>1, <3>2, <3>3, Otherwise DEF Elsewhere
  <2>5. \A q \in Process : seen'[q] \subseteq {"session", "link", "principal"}
    BY <2>3 DEF TypeOK
  <2> QED
    BY <2>4, <2>5 DEF SeenSoFar, RequestsAreAuthorized
<1> QED
  BY <1>1, <1>2
-----------------------------------------------------------------------------
(* Theorems.                                                               *)

LEMMA InitIInv == Init => IInv
<1> SUFFICES ASSUME Init PROVE IInv
  OBVIOUS
<1>1. TypeOK /\ Shape
  BY InitTyped
<1>2. \A p \in Process : proc[p] = Idle
  BY DEF Init
<1>3. /\ \A s \in Session : session[s] = None
      /\ \A x \in Account : link[x] = None
      /\ \A o \in Org : linking[o] = None
  BY DEF Init
<1> QED
  BY <1>1, <1>2, <1>3
     DEF IInv, Idle, PrincipalsExist, SessionsFollowLinks, RequestsFollowLinks,
         LoginsAreSpent, LoginsAreHeldOnce, OneSessionPerLogin, SeenSoFar,
         RequestsAreAuthorized, AdminsKeepALink, WithPrincipal

\* The types, and what requests, sessions and links owe one another, hold after
\* any number of logins, requests and administrative calls (sessions.go,
\* identity_admin.go).
THEOREM Invariance == Spec => []IInv
<1>1. Init => IInv
  BY InitIInv
<1>2. IInv /\ [Next]_vars => IInv'
  BY TypeInvariance, ShapeNext, PrincipalsNext, FollowingNext, LoginsNext, SeenNext,
     AdminsNext DEF IInv
<1> QED
  BY <1>1, <1>2, PTL DEF Spec

\* A login ends in one session at most, and every session belongs to the
\* principal its account is linked to, whoever calls what in between
\* (ConsumeLoginTransaction, CreateSession, linkIdentityInTx).
THEOREM SessionsAccountedFor == Spec => []SessionsAreAccountedFor
<1>1. IInv => SessionsAreAccountedFor
  BY DEF IInv, SessionsAreAccountedFor
<1> QED
  BY <1>1, Invariance, PTL

\* A request that is accepted had a live session, an active link and an active
\* principal since it began, though it reads them one after another
\* (ReadSession, ResolveOIDCIdentity).
THEOREM RequestsAuthorized == Spec => []RequestsAreAuthorized
<1>1. IInv => RequestsAreAuthorized
  BY DEF IInv
<1> QED
  BY <1>1, Invariance, PTL

\* No order of links, removals and bootstraps leaves an administrator without an
\* active link (UnlinkIdentityByAdmin).
THEOREM AdminsLinked == Spec => []AdminsKeepALink
<1>1. IInv => AdminsKeepALink
  BY DEF IInv
<1> QED
  BY <1>1, Invariance, PTL

\* An account that was linked to a principal is never linked to another one, by
\* two organisations at once or by unlinking first (linkIdentityInTx).
THEOREM LinksNotRepointed == Spec => LinksAreNotRepointed
<1>1. IInv /\ [Next]_vars => LinksStay
  BY Lasting DEF IInv
<1>2. LinksStay => [\A x \in Account : link[x] # None =>
                     link'[x] # None /\ link'[x].principal = link[x].principal]_vars
  BY DEF LinksStay
<1> QED
  BY <1>1, <1>2, Invariance, PTL DEF Spec, LinksAreNotRepointed
=============================================================================
