------------------------------ MODULE Governance ------------------------------
(***************************************************************************)
(* How a prepared change becomes an official one: proposals and their      *)
(* decisions, the ledger of business operations, the prerequisites between *)
(* tasks, the River queue of "proposal.execute" jobs and the executor that *)
(* applies an approved proposal to the records.                            *)
(*                                                                         *)
(* Every operation is one transaction of WithOrg, serial within the        *)
(* organisation.  Only the executor takes two: a stale proposal is rolled  *)
(* back first and marked in a transaction of its own.                      *)
(***************************************************************************)
EXTENDS Integers, FiniteSets

CONSTANTS
  Proposal,    \* identities of proposals rows
  Task,        \* identities of tasks
  Principal,   \* people
  Approver,    \* those whose role is 'approver' or 'admin'
  Key,         \* business keys (with their integration and action)
  Record,      \* identities of simulator_records rows
  Target,      \* the pairs of key and record anybody prepares an operation for
  Executor,    \* goroutines that work proposal.execute jobs, in any process
  NoProposal, NoTask, NoOne, NoContent,
  MaxFaults,   \* bound: job completions lost, executors that die
  MaxDiscards, \* bound: jobs River gives up on
  MaxMoves,    \* bound: ownership transfers and revocations
  MaxRepeats   \* bound: proposals whose caller repeats an operation id

ASSUME GovernanceAssumption ==
  /\ Approver \subseteq Principal
  /\ NoProposal \notin Proposal /\ NoTask \notin Task /\ NoOne \notin Principal
  /\ Target \subseteq Key \X Record
  /\ MaxFaults \in Nat /\ MaxDiscards \in Nat
  /\ MaxMoves \in Nat /\ MaxRepeats \in Nat

VARIABLES
  proposal,    \* proposals: status, task, creator, operations
  decisions,   \* proposal_decisions: who endorsed, approved or rejected
  authorized,  \* the operations with an effects row in state 'authorized'
  ledger,      \* business_operations: status, proposal, fingerprint
  version,     \* simulator_records: the version of each record
  receipts,    \* receipts, with the version the effect produced
  task,        \* tasks: owner and status
  depends,     \* task_dependencies: <<task, parent>>
  active,      \* the principals with active = true
  jobs,        \* River: available proposal.execute jobs
  failing,     \* the stale proposal an executor has rolled back
  faults, discarded, moves, repeats

vars == <<proposal, decisions, authorized, ledger, version, receipts, task,
          depends, active, jobs, failing, faults, discarded, moves, repeats>>

review  == <<proposal, decisions, authorized, ledger>>
records == <<version, receipts>>
budget  == <<faults, discarded, moves, repeats>>
-----------------------------------------------------------------------------
Pending == {"pending_endorsement", "pending_approval"}
Live    == Pending \cup {"approved"}
Closed  == {"done", "cancelled"}

Content   == [record : Record, version : Nat]
Operation == [key : Key, content : Content]

ProposalRow == [status : Live \cup {"absent", "rejected", "superseded", "done",
                                    "needs_attention"},
                task : Task \cup {NoTask},
                creator : Principal \cup {NoOne},
                ops : SUBSET Operation,
                sameId : BOOLEAN]

LedgerRow == [status : {"none", "reserved", "dispatching", "verified",
                        "released"},
              holder : Proposal \cup {NoProposal},
              content : Content \cup {NoContent}]

TaskRow == [owner : Principal, status : {"draft", "blocked"} \cup Closed]

Receipt == [proposal : Proposal, op : Operation, version : Nat]

AbsentProposal == [status |-> "absent", task |-> NoTask, creator |-> NoOne,
                   ops |-> {}, sameId |-> FALSE]
FreeKey == [status |-> "none", holder |-> NoProposal,
            content |-> NoContent]

TypeOK ==
  /\ proposal \in [Proposal -> ProposalRow]
  /\ decisions \in [Proposal ->
       SUBSET (Principal \X {"endorse", "approve", "reject"})]
  /\ authorized \in [Proposal -> SUBSET Operation]
  /\ ledger \in [Key -> LedgerRow]
  /\ version \in [Record -> Nat]
  /\ receipts \in SUBSET Receipt
  /\ task \in [Task -> TaskRow]
  /\ depends \in SUBSET (Task \X Task)
  /\ active \in SUBSET Principal
  /\ jobs \in [Proposal -> Nat]
  /\ failing \in [Executor -> Proposal \cup {NoProposal}]
  /\ faults \in Nat /\ discarded \in Nat /\ moves \in Nat /\ repeats \in Nat

Init ==
  /\ proposal = [p \in Proposal |-> AbsentProposal]
  /\ decisions = [p \in Proposal |-> {}]
  /\ authorized = [p \in Proposal |-> {}]
  /\ ledger = [k \in Key |-> FreeKey]
  /\ version = [r \in Record |-> 1]
  /\ receipts = {}
  /\ task \in [Task -> [owner : Principal, status : {"draft"}]]
  /\ depends = {}
  /\ active = Principal
  /\ jobs = [p \in Proposal |-> 0]
  /\ failing = [e \in Executor |-> NoProposal]
  /\ faults = 0 /\ discarded = 0 /\ moves = 0 /\ repeats = 0
-----------------------------------------------------------------------------
(* Tasks, their prerequisites and their people.                            *)

Parents(t) == {u \in Task : <<t, u>> \in depends}

\* t and everything it waits for, directly or not: the least set with t that
\* contains the parents of its members.
Ancestry(t) ==
  {u \in Task : \A S \in SUBSET Task :
     (t \in S /\ \A v \in S : Parents(v) \subseteq S) => u \in S}

Unblocked(t) == \A u \in Parents(t) : task[u].status = "done"

\* Mutants, here and below, are wrong versions of the definition they precede.
\* No specification uses them; each shows that a property can fail.
\* Mutant: only the parents of the parent are looked at.
AddDependencyDirect(t, u) ==
  /\ t \notin Parents(u) \cup {u}
  /\ depends' = depends \cup {<<t, u>>}
  /\ UNCHANGED <<review, records, task, active, jobs, failing, budget>>

\* The recursive query of AddDependency refuses a parent that waits for t.
AddDependency(t, u) ==
  /\ t \notin Ancestry(u)
  /\ depends' = depends \cup {<<t, u>>}
  /\ UNCHANGED <<review, records, task, active, jobs, failing, budget>>

\* Mutant: a status that proposals do not have.
CancelTaskAndProposals(t) ==
  /\ task[t].status # "done"
  /\ task' = [task EXCEPT ![t].status = "cancelled"]
  /\ proposal' = [p \in Proposal |->
       IF proposal[p].task = t /\ proposal[p].status \in Live
       THEN [proposal[p] EXCEPT !.status = "cancelled"] ELSE proposal[p]]
  /\ UNCHANGED <<decisions, authorized, ledger, records, depends, active, jobs,
                 failing, budget>>

\* The proposals of a cancelled task are rejected.  Their keys are not
\* released: reserveBusinessOperations takes them from a rejected holder.
CancelTask(t) ==
  /\ task[t].status # "done"
  /\ task' = [task EXCEPT ![t].status = "cancelled"]
  /\ proposal' = [p \in Proposal |->
       IF proposal[p].task = t /\ proposal[p].status \in Live
       THEN [proposal[p] EXCEPT !.status = "rejected"] ELSE proposal[p]]
  /\ UNCHANGED <<decisions, authorized, ledger, records, depends, active, jobs,
                 failing, budget>>

\* AcceptHandoff of an offer of ownership.
AcceptHandoff(t, a) ==
  /\ moves < MaxMoves
  /\ moves' = moves + 1
  /\ task[t].owner # a
  /\ task' = [task EXCEPT ![t].owner = a]
  /\ UNCHANGED <<review, records, depends, active, jobs, failing, faults,
                 discarded, repeats>>

\* A principal is deactivated (by an operator: no endpoint does it).
Revoke(a) ==
  /\ moves < MaxMoves
  /\ moves' = moves + 1
  /\ a \in active
  /\ active' = active \ {a}
  /\ UNCHANGED <<review, records, task, depends, jobs, failing, faults,
                 discarded, repeats>>
-----------------------------------------------------------------------------
(* Preparing and deciding.                                                 *)

\* Mutant: an approved proposal is left alone.
SupersededWhilePending(t) ==
  [p \in Proposal |->
     IF proposal[p].task = t /\ proposal[p].status \in Pending
     THEN [proposal[p] EXCEPT !.status = "superseded"] ELSE proposal[p]]

\* A new revision supersedes the live proposals of its task ...
Superseded(t) ==
  [p \in Proposal |->
     IF proposal[p].task = t /\ proposal[p].status \in Live
     THEN [proposal[p] EXCEPT !.status = "superseded"] ELSE proposal[p]]

\* Mutant: nobody asks what became of the holder.
ReservableFromAnyone(o, t, rows) ==
  \/ ledger[o.key].status = "none"
  \/ /\ ledger[o.key].status \in {"released", "reserved"}
     /\ ledger[o.key].content = o.content

\* ... and only then reserves its keys: a key is free, or it was reserved for
\* the very same content and its holder let go of it.  rows are the proposals
\* after superseding.
Reservable(o, t, rows) ==
  LET entry == ledger[o.key] IN
  \/ entry.status = "none"
  \/ /\ entry.content = o.content
     /\ \/ entry.status = "released"
        \/ /\ entry.status = "reserved"
           /\ \/ rows[entry.holder].status = "rejected"
              \/ /\ rows[entry.holder].status = "superseded"
                 /\ rows[entry.holder].task = t

\* The operations on the current versions of records, key by key.
OpsOn(targets) ==
  {[key |-> x[1], content |-> [record |-> x[2], version |-> version[x[2]]]] :
     x \in targets}

\* createProposalTx, by the owner or for the owner by an agent run.  A key
\* appears once: its second reservation would find it held by this proposal.
\* sameId: the caller gave several operations one id, which nothing refuses.
CreateProposal(t, p, targets, sameId) ==
  LET ops  == OpsOn(targets)
      rows == Superseded(t)
  IN
  /\ proposal[p].status = "absent"
  /\ task[t].status \notin Closed
  /\ targets # {}
  /\ \A x, y \in targets : x[1] = y[1] => x = y
  /\ \A o \in ops : Reservable(o, t, rows)
  /\ IF sameId THEN /\ Cardinality(ops) > 1
                    /\ repeats < MaxRepeats
                    /\ repeats' = repeats + 1
               ELSE UNCHANGED repeats
  /\ proposal' = [rows EXCEPT ![p] =
       [status |-> "pending_endorsement", task |-> t,
        creator |-> task[t].owner, ops |-> ops, sameId |-> sameId]]
  /\ ledger' = [k \in Key |->
       IF \E o \in ops : o.key = k
       THEN [status |-> "reserved", holder |-> p,
             content |-> (CHOOSE o \in ops : o.key = k).content]
       ELSE ledger[k]]
  /\ UNCHANGED <<decisions, authorized, records, task, depends, active, jobs,
                 failing, faults, discarded, moves>>

\* The entries of the ledger that p holds move from one status to another.
MoveKeys(p, from, to) ==
  [k \in Key |-> IF ledger[k].holder = p /\ ledger[k].status = from
                 THEN [ledger[k] EXCEPT !.status = to] ELSE ledger[k]]

\* Every decision is recorded once per person and kind; recording it again is
\* answered without effect.
Decided(p, a, kind) ==
  /\ a \in active
  /\ <<a, kind>> \notin decisions[p]
  /\ decisions' = [decisions EXCEPT ![p] = @ \cup {<<a, kind>>}]

Endorse(p, a) ==
  /\ proposal[p].status = "pending_endorsement"
  /\ a = proposal[p].creator
  /\ Decided(p, a, "endorse")
  /\ proposal' = [proposal EXCEPT ![p].status = "pending_approval"]
  /\ UNCHANGED <<authorized, ledger, records, task, depends, active, jobs,
                 failing, budget>>

\* Mutant: the requester may approve.
ApproveOwn(p, a) ==
  /\ proposal[p].status = "pending_approval"
  /\ a \in Approver
  /\ Decided(p, a, "approve")
  /\ proposal' = [proposal EXCEPT ![p].status = "approved"]
  /\ authorized' = [authorized EXCEPT ![p] = proposal[p].ops]
  /\ ledger' = MoveKeys(p, "reserved", "dispatching")
  /\ jobs' = [jobs EXCEPT ![p] = @ + 1]
  /\ UNCHANGED <<records, task, depends, active, failing, budget>>

\* Mutant: effects conflict on their proposal, not on their operation.
ApproveOneEffect(p, a) ==
  /\ proposal[p].status = "pending_approval"
  /\ a # proposal[p].creator /\ a \in Approver
  /\ Decided(p, a, "approve")
  /\ proposal' = [proposal EXCEPT ![p].status = "approved"]
  /\ \E o \in proposal[p].ops : authorized' = [authorized EXCEPT ![p] = {o}]
  /\ ledger' = MoveKeys(p, "reserved", "dispatching")
  /\ jobs' = [jobs EXCEPT ![p] = @ + 1]
  /\ UNCHANGED <<records, task, depends, active, failing, budget>>

\* Approval authorizes one effect per operation id, dispatches the keys and
\* enqueues the execution.
Approve(p, a) ==
  /\ proposal[p].status = "pending_approval"
  /\ a # proposal[p].creator /\ a \in Approver
  /\ task[proposal[p].task].status # "cancelled"
  /\ Decided(p, a, "approve")
  /\ proposal' = [proposal EXCEPT ![p].status = "approved"]
  /\ IF proposal[p].sameId
     THEN \E o \in proposal[p].ops : authorized' = [authorized EXCEPT ![p] = {o}]
     ELSE authorized' = [authorized EXCEPT ![p] = proposal[p].ops]
  /\ ledger' = MoveKeys(p, "reserved", "dispatching")
  /\ jobs' = [jobs EXCEPT ![p] = @ + 1]
  /\ UNCHANGED <<records, task, depends, active, failing, budget>>

\* Mutant: the UPDATE does not ask for a pending proposal.
RejectAnytime(p, a) ==
  /\ proposal[p].status # "absent"
  /\ a # proposal[p].creator /\ a \in Approver
  /\ Decided(p, a, "reject")
  /\ proposal' = [proposal EXCEPT ![p].status = "rejected"]
  /\ ledger' = MoveKeys(p, "reserved", "released")
  /\ UNCHANGED <<authorized, records, task, depends, active, jobs, failing,
                 budget>>

\* A rejection is recorded whatever the status of the proposal, changes it
\* only while it is pending, and releases the keys it still reserves.
Reject(p, a) ==
  /\ proposal[p].status # "absent"
  /\ a # proposal[p].creator /\ a \in Approver
  /\ Decided(p, a, "reject")
  /\ proposal' = IF proposal[p].status \in Pending
                 THEN [proposal EXCEPT ![p].status = "rejected"] ELSE proposal
  /\ ledger' = MoveKeys(p, "reserved", "released")
  /\ UNCHANGED <<authorized, records, task, depends, active, jobs, failing,
                 budget>>
-----------------------------------------------------------------------------
(* Executing.                                                              *)

\* One of p's jobs is done and those of woken are inserted.  River may lose
\* the completion and deliver the job again.
Consume(p, woken) ==
  LET rest == [q \in Proposal |-> IF q \in woken THEN jobs[q] + 1 ELSE jobs[q]]
  IN \/ jobs' = [rest EXCEPT ![p] = @ - 1] /\ UNCHANGED faults
     \/ jobs' = rest /\ faults < MaxFaults /\ faults' = faults + 1

Delivered(e, p) == failing[e] = NoProposal /\ jobs[p] > 0

\* The job of a proposal that is not approved (any more) does nothing.
ExecuteNothing(e, p) ==
  /\ Delivered(e, p)
  /\ proposal[p].status # "approved"
  /\ Consume(p, {})
  /\ UNCHANGED <<review, records, task, depends, active, failing, discarded,
                 moves, repeats>>

DecidedBy(p, kind, people) == \E a \in people : <<a, kind>> \in decisions[p]

\* Mutant: that people were active when they decided is taken to be enough.
PermittedOnce(p) ==
  LET t == proposal[p].task IN
  /\ task[t].status \notin Closed
  /\ DecidedBy(p, "approve", Approver)
  /\ DecidedBy(p, "endorse", Principal)
  /\ Unblocked(t)

\* Who must still be there, and what must be finished, when p is applied.
Permitted(p) ==
  LET t == proposal[p].task IN
  /\ task[t].status \notin Closed
  /\ task[t].owner \in active
  /\ DecidedBy(p, "approve", active \cap Approver)
  /\ DecidedBy(p, "endorse", active)
  /\ Unblocked(t)

\* An unfinished prerequisite: the proposal waits without its job.
ExecuteBlocked(e, p) ==
  LET t == proposal[p].task IN
  /\ Delivered(e, p)
  /\ proposal[p].status = "approved"
  /\ ~Unblocked(t)
  /\ task' = IF task[t].status \in Closed THEN task
             ELSE [task EXCEPT ![t].status = "blocked"]
  /\ Consume(p, {})
  /\ UNCHANGED <<review, records, depends, active, failing, discarded, moves,
                 repeats>>

\* Somebody the decisions rest on was revoked.  Keys and effects stay as they
\* are.
ExecuteRefused(e, p) ==
  /\ Delivered(e, p)
  /\ proposal[p].status = "approved"
  /\ Unblocked(proposal[p].task) /\ ~Permitted(p)
  /\ proposal' = [proposal EXCEPT ![p].status = "needs_attention"]
  /\ Consume(p, {})
  /\ UNCHANGED <<decisions, authorized, ledger, records, task, depends, active,
                 failing, discarded, moves, repeats>>

\* Mutant: the version is not compared.
ApplicableUnversioned(ops) ==
  \A o, u \in ops : o.content.record = u.content.record => o = u

\* Prepare succeeds for one operation after another: each finds its record at
\* the expected version, so no two of them change the same record.
Applicable(ops) ==
  /\ \A o \in ops : version[o.content.record] = o.content.version
  /\ \A o, u \in ops : o.content.record = u.content.record => o = u

\* Mutant: asked before the parent itself is done.
AwaitingTooEarly(t) ==
  {q \in Proposal :
     /\ proposal[q].status = "approved"
     /\ proposal[q].task \in Task
     /\ t \in Parents(proposal[q].task)
     /\ task[proposal[q].task].status \notin Closed
     /\ Unblocked(proposal[q].task)}

\* The approved proposals of the children of t that wait for nothing else.
Awaiting(t) ==
  {q \in Proposal :
     /\ proposal[q].status = "approved"
     /\ proposal[q].task \in Task
     /\ t \in Parents(proposal[q].task)
     /\ task[proposal[q].task].status \notin Closed
     /\ \A u \in Parents(proposal[q].task) \ {t} : task[u].status = "done"}

Apply(e, p) ==
  /\ Delivered(e, p)
  /\ proposal[p].status = "approved"
  /\ Permitted(p)
  /\ Applicable(authorized[p])
  /\ version' = [r \in Record |->
       IF \E o \in authorized[p] : o.content.record = r
       THEN version[r] + 1 ELSE version[r]]
  /\ receipts' = receipts \cup
       {[proposal |-> p, op |-> o, version |-> o.content.version + 1] :
          o \in authorized[p]}
  /\ authorized' = [authorized EXCEPT ![p] = {}]
  /\ ledger' = MoveKeys(p, "dispatching", "verified")
  /\ proposal' = [proposal EXCEPT ![p].status = "done"]
  /\ task' = [task EXCEPT ![proposal[p].task].status = "done"]
  /\ Consume(p, Awaiting(proposal[p].task))
  /\ UNCHANGED <<decisions, depends, active, failing, discarded, moves, repeats>>

\* A stale operation: everything is rolled back ...
ExecuteStale(e, p) ==
  /\ Delivered(e, p)
  /\ proposal[p].status = "approved"
  /\ Permitted(p)
  /\ ~Applicable(authorized[p])
  /\ failing' = [failing EXCEPT ![e] = p]
  /\ jobs' = [jobs EXCEPT ![p] = @ - 1]
  /\ UNCHANGED <<review, records, task, depends, active, budget>>

\* ... and the proposal is marked, if it is still approved.
RecordAttention(e) ==
  LET p == failing[e]
      t == proposal[p].task
  IN
  /\ p # NoProposal
  /\ failing' = [failing EXCEPT ![e] = NoProposal]
  /\ IF proposal[p].status = "approved"
     THEN /\ proposal' = [proposal EXCEPT ![p].status = "needs_attention"]
          /\ authorized' = [authorized EXCEPT ![p] = {}]
          /\ task' = IF task[t].status \in Closed THEN task
                     ELSE [task EXCEPT ![t].status = "blocked"]
     ELSE UNCHANGED <<proposal, authorized, task>>
  /\ UNCHANGED <<decisions, ledger, records, depends, active, jobs, budget>>

\* An executor dies between its two transactions: its job is delivered again.
ExecutorDies(e) ==
  /\ failing[e] # NoProposal
  /\ faults < MaxFaults
  /\ faults' = faults + 1
  /\ jobs' = [jobs EXCEPT ![failing[e]] = @ + 1]
  /\ failing' = [failing EXCEPT ![e] = NoProposal]
  /\ UNCHANGED <<review, records, task, depends, active, discarded, moves,
                 repeats>>

\* A job failed its last attempt, on errors of the database.
Discard(p) ==
  /\ jobs[p] > 0
  /\ discarded < MaxDiscards
  /\ discarded' = discarded + 1
  /\ jobs' = [jobs EXCEPT ![p] = @ - 1]
  /\ UNCHANGED <<review, records, task, depends, active, failing, faults,
                 moves, repeats>>
-----------------------------------------------------------------------------
Handle(e, p) ==
  \/ ExecuteNothing(e, p) \/ ExecuteBlocked(e, p) \/ ExecuteRefused(e, p)
  \/ ExecuteStale(e, p) \/ Apply(e, p)

Next ==
  \/ \E t, u \in Task : AddDependency(t, u)
  \/ \E t \in Task : CancelTask(t)
  \/ \E t \in Task, a \in Principal : AcceptHandoff(t, a)
  \/ \E a \in Principal : Revoke(a)
  \/ \E t \in Task, p \in Proposal, targets \in SUBSET Target,
        sameId \in BOOLEAN : CreateProposal(t, p, targets, sameId)
  \/ \E p \in Proposal, a \in Principal :
       Endorse(p, a) \/ Approve(p, a) \/ Reject(p, a)
  \/ \E e \in Executor, p \in Proposal : Handle(e, p)
  \/ \E e \in Executor : RecordAttention(e) \/ ExecutorDies(e)
  \/ \E p \in Proposal : Discard(p)

Spec == Init /\ [][Next]_vars

\* The queue does not starve a job and an executor that lives goes on.
Fairness ==
  /\ \A p \in Proposal : SF_vars(\E e \in Executor : Handle(e, p))
  /\ \A e \in Executor : WF_vars(RecordAttention(e))

FairSpec == Spec /\ Fairness
-----------------------------------------------------------------------------
(* Safety.                                                                 *)

\* createProposalTx supersedes before it inserts, and closing a task leaves no
\* live proposal: a task has at most one, and a closed task none.
OneLiveProposal ==
  /\ \A p, q \in Proposal :
       /\ proposal[p].status \in Live /\ proposal[q].status \in Live
       /\ proposal[p].task = proposal[q].task
       => p = q
  /\ \A p \in Proposal :
       proposal[p].status \in Live => task[proposal[p].task].status \notin Closed

\* The ledger and the proposals agree on who holds a key: a pending proposal
\* reserves its keys, an approved one dispatches them, an applied one has them
\* verified, whoever superseded, rejected or cancelled what in between.
KeysFollowProposals ==
  \A p \in Proposal : \A o \in proposal[p].ops :
    LET entry == ledger[o.key]
        held(status) == /\ entry.holder = p /\ entry.status = status
                        /\ entry.content = o.content
    IN
    /\ proposal[p].status \in Pending => held("reserved")
    /\ proposal[p].status = "approved" => held("dispatching")
    /\ proposal[p].status = "done" => held("verified")

\* A business key is applied at most once, across tasks, revisions, retries
\* and duplicate deliveries.
KeyAppliedOnce ==
  \A x, y \in receipts : x.op.key = y.op.key => x = y

\* No update of a record is lost or overwritten: every version after the first
\* comes from exactly one receipt, whose proposal was prepared for the version
\* before it.
RecordsAreSerial ==
  /\ \A x, y \in receipts :
       /\ x.op.content.record = y.op.content.record
       /\ x.version = y.version
       => x = y
  /\ \A r \in Record : \A v \in 2 .. version[r] :
       \E x \in receipts : x.op.content.record = r /\ x.version = v
  /\ \A x \in receipts : /\ x.version = x.op.content.version + 1
                         /\ x.version <= version[x.op.content.record]

\* What was applied was endorsed by the person who prepared it and approved by
\* another one.
AppliedByTwoPeople ==
  \A x \in receipts :
    LET p == x.proposal IN
    /\ proposal[p].status = "done"
    /\ <<proposal[p].creator, "endorse">> \in decisions[p]
    /\ \E a \in Approver \ {proposal[p].creator} :
         <<a, "approve">> \in decisions[p]

\* A receipt is written for all authorized effects of a proposal or for none.
AllOrNothing ==
  \A p \in Proposal :
    /\ proposal[p].status = "done" => authorized[p] = {}
    /\ proposal[p].status = "done" /\ ~proposal[p].sameId =>
         {x.op : x \in {y \in receipts : y.proposal = p}} = proposal[p].ops
    /\ proposal[p].status # "done" => \A x \in receipts : x.proposal # p

\* A blocked proposal gives up its job and a finished parent inserts it again:
\* an approved proposal that waits for nothing has a job, or an executor about
\* to mark it, as long as River discarded none.
ApprovedIsScheduled ==
  \A p \in Proposal :
    /\ proposal[p].status = "approved" /\ Unblocked(proposal[p].task)
    /\ discarded = 0
    => jobs[p] > 0 \/ \E e \in Executor : failing[e] = p

\* AddDependency never lets a task wait for itself.
NoDependencyCycle ==
  \A t \in Task : \A u \in Parents(t) : t \notin Ancestry(u)

\* A step that applies p.
AppliedInOrder(p) ==
  proposal'[p].status = "done" /\ proposal[p].status # "done" =>
    /\ proposal[p].status = "approved"
    /\ Unblocked(proposal[p].task)
    /\ task[proposal[p].task].owner \in active
    /\ DecidedBy(p, "approve", active \cap Approver)

\* A proposal is applied after the prerequisites its task has at that moment,
\* and while its approver and the owner of the task are active: what was
\* decided before a wait is checked again after it.
AppliesInOrder == [][\A p \in Proposal : AppliedInOrder(p)]_vars

\* Under FairSpec: an approved proposal that waits for nothing is applied or
\* refused, and one that waited is woken.
ApprovedIsExecuted ==
  \A p \in Proposal :
    proposal[p].status = "approved" /\ Unblocked(proposal[p].task) ~>
      proposal[p].status # "approved" \/ ~Unblocked(proposal[p].task)
-----------------------------------------------------------------------------
(* The abstract specification: changes with a ledger of keys.              *)

Phase(p) == CASE proposal[p].status = "absent" -> "absent"
              [] proposal[p].status = "pending_endorsement" -> "prepared"
              [] proposal[p].status = "pending_approval" -> "endorsed"
              [] proposal[p].status = "approved" -> "approved"
              [] proposal[p].status = "done" -> "applied"
              [] OTHER -> "dropped"

Change == INSTANCE GovernedChange WITH
  phase <- [p \in Proposal |-> Phase(p)],
  content <- [p \in Proposal |-> proposal[p].ops],
  used <- {x.op.key : x \in receipts}

\* Revisions, reservations, lost jobs and executors that roll back implement
\* changes that pass review and happen once, at the version reviewed.
ImplementsGovernedChange == Change!Spec
=============================================================================
