-------------------------------- MODULE Handoffs --------------------------------
(***************************************************************************)
(* Offers of responsibility for a task: made by its owner or assignee,     *)
(* answered by the recipient with acceptance, refusal or a question,       *)
(* withdrawn by the creator, or outlived.                                  *)
(*                                                                         *)
(* Every operation is one transaction of WithOrg, serial within the        *)
(* organisation.  A refused operation returns an error and is rolled back  *)
(* whole: it is no step of this specification, and the expiry that         *)
(* expireDueHandoffs had written in it is undone with it.                  *)
(***************************************************************************)
EXTENDS Integers, FiniteSets

CONSTANTS
  Offer,      \* identities of handoffs rows
  Task,       \* identities of tasks
  Principal,  \* people
  NoTask, NoOne,
  MaxHops,    \* maxHandoffHops
  MaxChanges  \* bound: other changes of tasks and people

ASSUME HandoffsAssumption ==
  /\ IsFiniteSet(Offer)
  /\ NoTask \notin Task /\ NoOne \notin Principal
  /\ MaxHops \in Nat /\ MaxChanges \in Nat

VARIABLES
  offer,    \* handoffs
  task,     \* tasks: owner, assignee, status and version
  active,   \* the principals with active = true
  due,      \* the offers whose expires_at has passed
  changes

vars == <<offer, task, active, due, changes>>
-----------------------------------------------------------------------------
Open   == {"offered", "clarification_requested"}
Ended  == {"accepted", "declined", "cancelled", "expired"}
Closed == {"done", "cancelled"}

TaskRow == [owner : Principal, assignee : Principal \cup {NoOne},
            status : {"draft", "blocked"} \cup Closed, version : Nat]

\* seen is the task as it was when the offer was made.  Of it, the row keeps
\* the version (offered_task_version); the rest is there for the properties.
Unseen   == [owner |-> NoOne, assignee |-> NoOne, status |-> "draft",
             version |-> 0]
OfferRow == [status : {"absent"} \cup Open \cup Ended,
             task : Task \cup {NoTask}, role : {"owner", "assignee"},
             giver : Principal \cup {NoOne}, taker : Principal \cup {NoOne},
             seen : TaskRow \cup {Unseen}, hop : Nat]
Absent   == [status |-> "absent", task |-> NoTask, role |-> "owner",
             giver |-> NoOne, taker |-> NoOne, seen |-> Unseen, hop |-> 0]

TypeOK ==
  /\ offer \in [Offer -> OfferRow]
  /\ task \in [Task -> TaskRow]
  /\ active \in SUBSET Principal
  /\ due \in SUBSET Offer
  /\ changes \in Nat

Init ==
  /\ offer = [h \in Offer |-> Absent]
  /\ task \in [Task -> [owner : Principal,
                        assignee : Principal \cup {NoOne},
                        status : {"draft"}, version : {1}]]
  /\ active = Principal
  /\ due = {}
  /\ changes = 0
-----------------------------------------------------------------------------
\* The ownership transfers of t that were accepted.
Transfers(t) == {h \in Offer : /\ offer[h].task = t
                               /\ offer[h].role = "owner"
                               /\ offer[h].status = "accepted"}

Hops(t) == Cardinality(Transfers(t))

\* Mutants, here and below, are wrong versions of the definition they precede.
\* No specification uses them; each shows that a property can fail.
CreateHandoff(h, t, a, b, role) ==
  /\ offer[h].status = "absent"
  /\ a \in {task[t].owner, task[t].assignee}
  /\ b \in active
  /\ role = "owner" => Hops(t) < MaxHops
  /\ offer' = [offer EXCEPT ![h] =
       [status |-> "offered", task |-> t, role |-> role, giver |-> a,
        taker |-> b, seen |-> task[t],
        hop |-> IF role = "owner" THEN Hops(t) + 1 ELSE 1]]
  /\ UNCHANGED <<task, active, due, changes>>

\* Mutant: the lifetime does not matter.
AnswerableAnytime(h) == offer[h].status \in Open

\* A reply expires the offer first and then wants it open.
Answerable(h) == offer[h].status \in Open /\ h \notin due

\* Mutant: the owner must be the same, the task may have changed.
CurrentOwner(h) == offer[h].giver = task[offer[h].task].owner

\* Mutant: it does not matter who made the offer.
CurrentVersion(h) == offer[h].seen.version = task[offer[h].task].version

Current(h) == LET t == offer[h].task IN
  /\ offer[h].giver = task[t].owner
  /\ offer[h].seen.version = task[t].version

AcceptHandoff(h) == LET t == offer[h].task  a == offer[h].taker IN
  /\ Answerable(h)
  /\ Current(h)
  /\ task' = [task EXCEPT ![t] =
       [owner    |-> IF offer[h].role = "owner" THEN a ELSE @.owner,
        assignee |-> IF offer[h].role = "owner" THEN @.assignee ELSE a,
        status   |-> @.status, version |-> @.version + 1]]
  /\ offer' = [offer EXCEPT ![h].status = "accepted"]
  /\ UNCHANGED <<active, due, changes>>

Becomes(h, status) ==
  /\ Answerable(h)
  /\ offer' = [offer EXCEPT ![h].status = status]
  /\ UNCHANGED <<task, active, due, changes>>

\* By the taker, the taker and the giver.
DeclineHandoff(h) == Becomes(h, "declined")
ClarifyHandoff(h) == Becomes(h, "clarification_requested")
CancelHandoff(h)  == Becomes(h, "cancelled")

Expire(S) ==
  /\ offer' = [h \in Offer |-> IF h \in S /\ h \in due /\ offer[h].status \in Open
                               THEN [offer[h] EXCEPT !.status = "expired"]
                               ELSE offer[h]]
  /\ UNCHANGED <<task, active, due, changes>>

\* Somebody looks at a list of offers: all of the organisation expire first.
ListHandoffs == Expire(Offer)

\* A party looks at one offer.  If its task is closed nothing is found, and the
\* expiry is rolled back with the failed read.
PeekHandoff(h) ==
  /\ offer[h].status # "absent"
  /\ task[offer[h].task].status \notin Closed
  /\ Expire({h})

\* expires_at is now in the past.
Lapse(h) ==
  /\ offer[h].status \in Open /\ h \notin due
  /\ due' = due \cup {h}
  /\ UNCHANGED <<offer, task, active, changes>>

\* The executor refuses an operation and blocks the task or finishes it, or its
\* owner cancels it.
TaskMoves(t, status) ==
  /\ changes < MaxChanges
  /\ changes' = changes + 1
  /\ \/ status = "blocked" /\ task[t].status \notin Closed
     \/ status = "done" /\ task[t].status # "cancelled"
     \/ status = "cancelled" /\ task[t].status # "done"
  /\ task' = [task EXCEPT ![t] = [owner |-> @.owner, assignee |-> @.assignee,
                                  status |-> status, version |-> @.version + 1]]
  /\ UNCHANGED <<offer, active, due>>

\* The executor finds a prerequisite of the task undone and blocks it.  This one
\* change leaves the version of the task as it is.
TaskBlocks(t) ==
  /\ changes < MaxChanges
  /\ changes' = changes + 1
  /\ task[t].status \notin Closed
  /\ task' = [task EXCEPT ![t] = [owner |-> @.owner, assignee |-> @.assignee,
                                  status |-> "blocked", version |-> @.version]]
  /\ UNCHANGED <<offer, active, due>>

\* A principal is deactivated (by an operator: no endpoint does it).
Revoke(a) ==
  /\ changes < MaxChanges
  /\ changes' = changes + 1
  /\ a \in active
  /\ active' = active \ {a}
  /\ UNCHANGED <<offer, task, due>>

Reply(h) == \/ AcceptHandoff(h) \/ DeclineHandoff(h)
            \/ ClarifyHandoff(h) \/ CancelHandoff(h)

Next ==
  \/ \E h \in Offer : Reply(h) \/ PeekHandoff(h) \/ Lapse(h)
  \/ \E h \in Offer, t \in Task, a, b \in Principal :
       \E role \in {"owner", "assignee"} : CreateHandoff(h, t, a, b, role)
  \/ ListHandoffs
  \/ \E t \in Task, status \in {"blocked", "done", "cancelled"} :
       TaskMoves(t, status)
  \/ \E t \in Task : TaskBlocks(t)
  \/ \E a \in Principal : Revoke(a)

Spec == Init /\ [][Next]_vars
-----------------------------------------------------------------------------
(* Safety.                                                                 *)

\* A task changes owner by handoff at most MaxHops times, though the number is
\* only looked at when an offer is made and several offers may be open.
TransfersAreBounded == \A t \in Task : Hops(t) <= MaxHops

\* The accepted transfers of a task are a chain with hop_depth as its index:
\* each starts from the person the one before went to, and the last one names
\* the owner.  No transfer is missing and none is told twice.
LineageIsComplete == \A t \in Task :
  /\ \A h \in Transfers(t) : offer[h].hop \in 1..Hops(t)
  /\ \A g, h \in Transfers(t) :
       /\ offer[g].hop = offer[h].hop => g = h
       /\ offer[h].hop = offer[g].hop + 1 => offer[h].giver = offer[g].taker
  /\ \A h \in Transfers(t) : offer[h].hop = Hops(t) =>
       offer[h].taker = task[t].owner

\* Of the offers made in one state of a task at most one is ever taken.
OneOfRivalsIsTaken == \A g, h \in Offer :
  /\ g # h /\ offer[g].task = offer[h].task
  /\ offer[g].status = "accepted" /\ offer[h].status = "accepted"
  => offer[g].seen.version # offer[h].seen.version

\* The answer to who is accountable for a task, and how it came to be
\* (createHandoff, AcceptHandoff): one bounded, unbroken chain of transfers,
\* whatever else was offered at the same time.
TransfersFormOneChain ==
  TypeOK /\ TransfersAreBounded /\ LineageIsComplete /\ OneOfRivalsIsTaken

\* The task is the one the offer was made for: who owns it, who works on it and
\* whether it is finished.  An unmet prerequisite may have come to block it.
IsAsSeen(now, seen) ==
  /\ now.owner = seen.owner /\ now.assignee = seen.assignee
  /\ \/ now.status = seen.status
     \/ now.status = "blocked" /\ seen.status \notin Closed

\* What is accepted is what was offered, but for a block: applyProposal sets it
\* without a version, and the comparison of versions does not see it.
AcceptedAsOffered(h) ==
  offer[h].status \in Open /\ offer'[h].status = "accepted" =>
    IsAsSeen(task[offer[h].task], offer[h].seen)

\* An ended offer stays as it ended: not both accepted and declined, and a
\* lapsed one does not come back although the mark of a refused reply is lost.
EndedOfferRests(h) ==
  /\ offer[h].status \in Ended => offer'[h] = offer[h]
  /\ offer[h].status \in Open /\ h \in due =>
       offer'[h].status \in {offer[h].status, "expired"}

\* An offer is taken for the owner, the executor and the open or closed task it
\* was made for, within its lifetime, and once - in any order of replies,
\* expiries and changes of the task (AcceptHandoff, expireDueHandoffs,
\* recipientResolve).
OffersAreKept == [][\A h \in Offer : AcceptedAsOffered(h) /\ EndedOfferRests(h)]_vars

\* What an owner may count on: accountability moves by consent (Accountability).
Asking(t) == {offer[h].taker : h \in {g \in Offer :
                /\ offer[g].task = t /\ offer[g].role = "owner"
                /\ Answerable(g) /\ Current(g)}}

A == INSTANCE Accountability WITH
       owner <- [t \in Task |-> task[t].owner],
       asked <- [t \in Task |-> Asking(t)],
       hops  <- [t \in Task |-> Hops(t)]

ImplementsAccountability == A!Spec
=============================================================================
