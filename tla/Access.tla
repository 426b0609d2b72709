--------------------------------- MODULE Access ---------------------------------
(***************************************************************************)
(* Who may act: principals, the external accounts linked to them, logins   *)
(* that are used once, browser sessions, and the requests and callbacks    *)
(* that read all of these in several transactions while administrators     *)
(* change them.                                                            *)
(*                                                                         *)
(* Statements on login_transactions, sessions and identity_links run in    *)
(* the pool, each on its own.  What reads or changes principals and links  *)
(* of an organisation runs in WithOrg, under the organisation's lock; two  *)
(* organisations may link at the same time.                                *)
(***************************************************************************)
EXTENDS Integers, FiniteSets

CONSTANTS
  Org, Principal, OrgOf,  \* principals.id is unique over all organisations
  Account,                \* external accounts: pairs of issuer and subject
  Login,                  \* identities of login_transactions
  Session,                \* identities of sessions
  Process,                \* HTTP requests in progress
  None,
  MaxBootstraps,          \* bound: uses of the operator's command line
  MaxRevocations          \* bound: principals deactivated

ASSUME AccessAssumption ==
  /\ OrgOf \in [Principal -> Org]
  /\ None \notin Org \cup Principal \cup Account \cup Login \cup Session
  /\ MaxBootstraps \in Nat /\ MaxRevocations \in Nat

VARIABLES
  principal,  \* principals: role, and whether active
  link,       \* identity_links: the principal, and whether active
  login,      \* login_transactions
  session,    \* sessions: status, account, principal, and the login they end
  proc,       \* what each request in progress has read
  linking,    \* per organisation: a link about to be inserted
  seen,       \* history: what held at some moment of a request (see below)
  bootstraps, revocations

vars == <<principal, link, login, session, proc, linking, seen, bootstraps,
          revocations>>

people == <<principal, link, linking>>
budget == <<bootstraps, revocations>>
-----------------------------------------------------------------------------
PrincipalRow == [role : {"requester", "approver", "admin"}, active : BOOLEAN]
LinkRow      == [principal : Principal, active : BOOLEAN]
SessionRow   == [status : {"live", "ended"}, account : Account,
                 principal : Principal, login : Login]

\* A callback passes consumed, verified, linked, resolved; a request with a
\* bearer token starts at verified; one with a cookie passes row and named.
\* Both kinds of request end accepted, with the role they read.
Proc == [pc : {"idle", "consumed", "verified", "linked", "resolved",
               "row", "named", "accepted"},
         login : Login \cup {None}, session : Session \cup {None},
         account : Account \cup {None}, principal : Principal \cup {None},
         role : {"requester", "approver", "admin", None}]
Idle == [pc |-> "idle", login |-> None, session |-> None, account |-> None,
         principal |-> None, role |-> None]

\* role is the role a bootstrap would create its principal with.
Linking == [account : Account, principal : Principal,
            role : {"requester", "approver", "admin", None}]

ASSUME NoneAssumption ==
  /\ None \notin PrincipalRow /\ None \notin LinkRow
  /\ None \notin SessionRow /\ None \notin Linking
  /\ None \notin {"requester", "approver", "admin"}

TypeOK ==
  /\ principal \in [Principal -> PrincipalRow \cup {None}]
  /\ link \in [Account -> LinkRow \cup {None}]
  /\ login \in [Login -> {"none", "open", "spent"}]
  /\ session \in [Session -> SessionRow \cup {None}]
  /\ proc \in [Process -> Proc]
  /\ linking \in [Org -> Linking \cup {None}]
  /\ seen \in [Process -> SUBSET {"session", "link", "principal"}]
  /\ bootstraps \in Nat /\ revocations \in Nat

Init ==
  /\ principal = [a \in Principal |-> None]
  /\ link = [x \in Account |-> None]
  /\ login = [l \in Login |-> "none"]
  /\ session = [s \in Session |-> None]
  /\ proc = [p \in Process |-> Idle]
  /\ linking = [o \in Org |-> None]
  /\ seen = [p \in Process |-> {}]
  /\ bootstraps = 0 /\ revocations = 0

Goto(p, row) == proc' = [proc EXCEPT ![p] = row]
Leave(p)     == Goto(p, Idle)

Active(a)   == principal[a] # None /\ principal[a].active
Linked(x)   == link[x] # None /\ link[x].active
Live(s)     == session[s] # None /\ session[s].status = "live"
Unlocked(a) == linking[OrgOf[a]] = None
-----------------------------------------------------------------------------
(* Logging in.                                                             *)

CreateLoginTransaction(l) ==
  /\ login[l] = "none"
  /\ login' = [login EXCEPT ![l] = "open"]
  /\ UNCHANGED <<people, session, proc, budget>>

\* expires_at passes.
LoginLapses(l) ==
  /\ login[l] = "open"
  /\ login' = [login EXCEPT ![l] = "spent"]
  /\ UNCHANGED <<people, session, proc, budget>>

\* Mutants, here and below, are wrong versions of the definition they precede.
\* No specification uses them; each shows that a property can fail.
\* Mutant: the row is read first and marked afterwards.
ConsumeLoginTransactionTwice(p, l) ==
  /\ proc[p].pc = "idle"
  /\ login[l] # "none"
  /\ login' = [login EXCEPT ![l] = "spent"]
  /\ Goto(p, [proc[p] EXCEPT !.pc = "consumed", !.login = l])
  /\ UNCHANGED <<people, session, budget>>

\* One conditional UPDATE: of the callbacks with this state one gets the row.
ConsumeLoginTransaction(p, l) ==
  /\ proc[p].pc = "idle"
  /\ login[l] = "open"
  /\ login' = [login EXCEPT ![l] = "spent"]
  /\ Goto(p, [proc[p] EXCEPT !.pc = "consumed", !.login = l])
  /\ UNCHANGED <<people, session, budget>>

\* The provider confirms an account, or (Fails) it does not.
Exchange(p, x) ==
  /\ proc[p].pc = "consumed"
  /\ Goto(p, [proc[p] EXCEPT !.pc = "verified", !.account = x])
  /\ UNCHANGED <<people, login, session, budget>>

\* A request with a bearer token that the verifier accepts.
Bearer(p, x) ==
  /\ proc[p].pc = "idle"
  /\ Goto(p, [proc[p] EXCEPT !.pc = "verified", !.account = x])
  /\ UNCHANGED <<people, login, session, budget>>

\* ResolveOIDCIdentity: the link first, then the principal under the lock.
ResolveLink(p) ==
  /\ proc[p].pc = "verified"
  /\ Linked(proc[p].account)
  /\ Goto(p, [proc[p] EXCEPT !.pc = "linked",
                             !.principal = link[proc[p].account].principal])
  /\ UNCHANGED <<people, login, session, budget>>

\* A callback is then resolved; a request is accepted.
ResolvePrincipal(p) == LET a == proc[p].principal IN
  /\ proc[p].pc = "linked"
  /\ Unlocked(a) /\ Active(a)
  /\ Goto(p, [proc[p] EXCEPT !.role = principal[a].role,
                !.pc = IF proc[p].login = None THEN "accepted" ELSE "resolved"])
  /\ UNCHANGED <<people, login, session, budget>>

CreateSession(p, s) ==
  /\ proc[p].pc = "resolved"
  /\ session[s] = None
  /\ session' = [session EXCEPT ![s] =
       [status |-> "live", account |-> proc[p].account,
        principal |-> proc[p].principal, login |-> proc[p].login]]
  /\ Leave(p)
  /\ UNCHANGED <<people, login, budget>>

\* A check fails, the provider or the database refuses, or the client is gone.
Fails(p) ==
  /\ proc[p].pc \notin {"idle", "accepted"}
  /\ Leave(p)
  /\ UNCHANGED <<people, login, session, budget>>
-----------------------------------------------------------------------------
(* Using and ending a session.                                             *)

\* ReadSession, first statement: the row of a live session.
ReadRow(p, s) ==
  /\ proc[p].pc = "idle"
  /\ Live(s)
  /\ Goto(p, [proc[p] EXCEPT !.pc = "row", !.session = s,
                             !.account = session[s].account,
                             !.principal = session[s].principal])
  /\ UNCHANGED <<people, login, session, budget>>

\* ReadSession, then: the principal, under the lock.
ReadPrincipal(p) == LET a == proc[p].principal IN
  /\ proc[p].pc = "row"
  /\ Unlocked(a) /\ Active(a)
  /\ Goto(p, [proc[p] EXCEPT !.pc = "named", !.role = principal[a].role])
  /\ UNCHANGED <<people, login, session, budget>>

\* Mutant: the link is only looked at when the session is created.
ReadLinkUnchecked(p) ==
  /\ proc[p].pc = "named"
  /\ link[proc[p].account].principal = proc[p].principal
  /\ Goto(p, [proc[p] EXCEPT !.pc = "accepted"])
  /\ UNCHANGED <<people, login, session, budget>>

\* ReadSession, last: the link the session came from.
ReadLink(p) ==
  /\ proc[p].pc = "named"
  /\ Linked(proc[p].account)
  /\ link[proc[p].account].principal = proc[p].principal
  /\ Goto(p, [proc[p] EXCEPT !.pc = "accepted"])
  /\ UNCHANGED <<people, login, session, budget>>

\* Whatever else an accepted request does, in the other modules.
Serve(p) ==
  /\ proc[p].pc = "accepted"
  /\ Leave(p)
  /\ UNCHANGED <<people, login, session, budget>>

\* Logout, with or without a session that can still be read, or expires_at.
SessionEnds(s) ==
  /\ Live(s)
  /\ session' = [session EXCEPT ![s].status = "ended"]
  /\ UNCHANGED <<people, login, proc, budget>>
-----------------------------------------------------------------------------
(* Administration.                                                         *)

ByAdmin(p, o) ==
  /\ proc[p].pc = "accepted" /\ proc[p].role = "admin"
  /\ OrgOf[proc[p].principal] = o
  /\ linking[o] = None

\* linkIdentityInTx finds the account linked to this principal: the link is
\* made active again.  Linked to another principal, it is refused.
LinkAgain(x, a) ==
  /\ link[x] # None /\ link[x].principal = a
  /\ link' = [link EXCEPT ![x] = [principal |-> a, active |-> TRUE]]

\* linkIdentityInTx finds no link, and goes on to insert one.
LinkFresh(x, a, role) ==
  /\ link[x] = None
  /\ linking' = [linking EXCEPT ![OrgOf[a]] =
                   [account |-> x, principal |-> a, role |-> role]]

LinkIdentityByAdmin(p, x, a) ==
  /\ ByAdmin(p, OrgOf[a])
  /\ principal[a] # None
  /\ \/ LinkAgain(x, a) /\ UNCHANGED linking
     \/ LinkFresh(x, a, None) /\ UNCHANGED link
  /\ Leave(p)
  /\ UNCHANGED <<principal, login, session, budget>>

\* A principal that exists is made active and keeps its role.
Bootstrapped(a, role) ==
  [principal EXCEPT ![a] = [role |-> IF @ = None THEN role ELSE @.role,
                            active |-> TRUE]]

BootstrapIdentity(x, a, role) ==
  /\ bootstraps < MaxBootstraps
  /\ bootstraps' = bootstraps + 1
  /\ Unlocked(a)
  /\ \/ /\ LinkAgain(x, a)
        /\ principal' = Bootstrapped(a, role)
        /\ UNCHANGED linking
     \/ LinkFresh(x, a, role) /\ UNCHANGED <<principal, link>>
  /\ UNCHANGED <<login, session, proc, revocations>>

\* Mutant: on conflict, the later organisation wins.
InsertLinkOver(o) ==
  /\ linking[o] # None
  /\ linking' = [linking EXCEPT ![o] = None]
  /\ LET n == linking[o] IN
       /\ link' = [link EXCEPT ![n.account] =
                      [principal |-> n.principal, active |-> TRUE]]
       /\ principal' = IF n.role = None THEN principal
                       ELSE Bootstrapped(n.principal, n.role)
  /\ UNCHANGED <<login, session, proc, budget>>

\* The primary key (issuer, subject) decides: the insert commits, or another
\* organisation was first and the whole transaction is rolled back.
InsertLink(o) ==
  /\ linking[o] # None
  /\ linking' = [linking EXCEPT ![o] = None]
  /\ LET n == linking[o] IN
       IF link[n.account] = None
       THEN /\ link' = [link EXCEPT ![n.account] =
                          [principal |-> n.principal, active |-> TRUE]]
            /\ principal' = IF n.role = None THEN principal
                            ELSE Bootstrapped(n.principal, n.role)
       ELSE UNCHANGED <<link, principal>>
  /\ UNCHANGED <<login, session, proc, budget>>

\* Mutant: links that were removed still count.
LinksEver(a) == {x \in Account : link[x] # None /\ link[x].principal = a}

ActiveLinks(a) == {x \in Account : Linked(x) /\ link[x].principal = a}

UnlinkIdentityByAdmin(p, x) == LET a == link[x].principal IN
  /\ Linked(x)
  /\ ByAdmin(p, OrgOf[a])
  /\ Active(a)
  /\ principal[a].role = "admin" => Cardinality(ActiveLinks(a)) > 1
  /\ link' = [link EXCEPT ![x] = [principal |-> a, active |-> FALSE]]
  /\ session' = [s \in Session |->
       IF session[s] # None /\ session[s].account = x
       THEN [session[s] EXCEPT !.status = "ended"] ELSE session[s]]
  /\ Leave(p)
  /\ UNCHANGED <<principal, login, linking, budget>>

\* A principal is deactivated (by an operator: no endpoint does it).
Revoke(a) ==
  /\ revocations < MaxRevocations
  /\ revocations' = revocations + 1
  /\ Active(a)
  /\ principal' = [principal EXCEPT ![a] = [role |-> @.role, active |-> FALSE]]
  /\ UNCHANGED <<link, login, session, proc, linking, bootstraps>>
-----------------------------------------------------------------------------
Reading(p) ==
  \/ ResolveLink(p) \/ ResolvePrincipal(p) \/ ReadPrincipal(p) \/ ReadLink(p)
  \/ Fails(p) \/ Serve(p)
  \/ \E x \in Account : Exchange(p, x) \/ Bearer(p, x)
  \/ \E l \in Login : ConsumeLoginTransaction(p, l)
  \/ \E s \in Session : CreateSession(p, s) \/ ReadRow(p, s)

Administering ==
  \/ \E p \in Process, x \in Account, a \in Principal : LinkIdentityByAdmin(p, x, a)
  \/ \E p \in Process, x \in Account : UnlinkIdentityByAdmin(p, x)
  \/ \E x \in Account, a \in Principal, role \in {"requester", "admin"} :
       BootstrapIdentity(x, a, role)
  \/ \E o \in Org : InsertLink(o)
  \/ \E a \in Principal : Revoke(a)

Step == \/ \E p \in Process : Reading(p)
        \/ Administering
        \/ \E l \in Login : CreateLoginTransaction(l) \/ LoginLapses(l)
        \/ \E s \in Session : SessionEnds(s)

\* What holds now of the session, the link and the principal p relies on.
Good(p) == LET x == proc[p].account  s == proc[p].session IN
  IF proc[p].pc = "idle" \/ x = None THEN {}
  ELSE {c \in {"session", "link", "principal"} :
          /\ c = "session"   => s = None \/ Live(s)
          /\ c = "link"      => Linked(x)
          /\ c = "principal" => link[x] # None /\ Active(link[x].principal)}

\* seen collects it from the first read of a request to its end.
Watch == seen' = [p \in Process |->
  IF proc'[p].pc = "idle" THEN {} ELSE seen[p] \cup Good(p)']

Next == Step /\ Watch

Spec == Init /\ [][Next]_vars
-----------------------------------------------------------------------------
(* Safety.                                                                 *)

\* A login ends in one session at most, though its callback may come twice.
OneSessionPerLogin == \A r, s \in Session :
  r # s /\ session[r] # None /\ session[s] # None
    => session[r].login # session[s].login

\* An account that was linked to a principal is never linked to another one:
\* not by two organisations at once, not by unlinking and linking again.
LinksAreNotRepointed == [][\A x \in Account :
  link[x] # None => link'[x] # None /\ link'[x].principal = link[x].principal]_vars

\* A session belongs to the principal its account is linked to, although the
\* callback reads the link, the principal and the provider one after another.
SessionsFollowLinks == \A s \in Session : session[s] # None =>
  /\ link[session[s].account] # None
  /\ link[session[s].account].principal = session[s].principal

\* What a session says is true, in whatever order callbacks and administrators
\* came (ConsumeLoginTransaction, CreateSession, linkIdentityInTx).
SessionsAreAccountedFor == TypeOK /\ OneSessionPerLogin /\ SessionsFollowLinks

\* An administrator who was ever linked can still sign in: no order of removals
\* takes the last external account.
AdminsKeepALink == \A x \in Account :
  link[x] # None /\ principal[link[x].principal].role = "admin"
    => \E y \in Account : Linked(y) /\ link[y].principal = link[x].principal

\* A request is accepted only if, at some moment since it began, its session
\* was live, its link active and its principal active: what was withdrawn
\* before it began and not restored refuses it, whichever statement it had
\* reached.
RequestsAreAuthorized == \A p \in Process : proc[p].pc = "accepted" =>
  seen[p] = {"session", "link", "principal"}
=============================================================================
