--------------------------- MODULE GovernanceProofs ---------------------------
(***************************************************************************)
(* Theorems about Governance for every set of proposals, tasks, people,    *)
(* keys and records, and every bound.                                      *)
(***************************************************************************)
EXTENDS Governance, TLAPS

Status == Live \cup {"absent", "rejected", "superseded", "done",
                     "needs_attention"}
-----------------------------------------------------------------------------
(* Types.                                                                  *)

\* A row whose status changes stays a row, and nothing else of it changes.
LEMMA RowType ==
  ASSUME NEW row \in ProposalRow, NEW s \in Status
  PROVE  /\ [row EXCEPT !.status = s] \in ProposalRow
         /\ [row EXCEPT !.status = s].status = s
         /\ [row EXCEPT !.status = s].task = row.task
         /\ [row EXCEPT !.status = s].creator = row.creator
         /\ [row EXCEPT !.status = s].ops = row.ops
         /\ [row EXCEPT !.status = s].sameId = row.sameId
BY DEF ProposalRow, Status

LEMMA OneRowType ==
  ASSUME TypeOK, NEW p \in Proposal, NEW s \in Status
  PROVE  LET new == [proposal EXCEPT ![p].status = s] IN
         /\ new \in [Proposal -> ProposalRow]
         /\ new[p] = [proposal[p] EXCEPT !.status = s]
         /\ \A q \in Proposal \ {p} : new[q] = proposal[q]
BY RowType DEF TypeOK

LEMMA MoveKeysType ==
  ASSUME TypeOK, NEW p \in Proposal,
         NEW from \in {"reserved", "dispatching"},
         NEW to \in {"dispatching", "verified", "released"}
  PROVE  LET new == MoveKeys(p, from, to) IN
         /\ new \in [Key -> LedgerRow]
         /\ \A k \in Key :
              /\ new[k].holder = ledger[k].holder
              /\ new[k].content = ledger[k].content
              /\ new[k].status = IF /\ ledger[k].holder = p
                                    /\ ledger[k].status = from
                                 THEN to ELSE ledger[k].status
BY DEF TypeOK, MoveKeys, LedgerRow

\* What the executor does to the queue.
LEMMA ConsumeType ==
  ASSUME TypeOK, NEW p \in Proposal, NEW W \in SUBSET Proposal, jobs[p] > 0,
         Consume(p, W)
  PROVE  /\ jobs' \in [Proposal -> Nat] /\ faults' \in Nat
         /\ \A q \in Proposal \ {p} : jobs'[q] >= jobs[q]
         /\ \A q \in W \ {p} : jobs'[q] > 0
<1> DEFINE rest == [q \in Proposal |-> IF q \in W THEN jobs[q] + 1 ELSE jobs[q]]
<1>1. /\ rest \in [Proposal -> Nat]
      /\ \A q \in Proposal : rest[q] >= jobs[q]
      /\ \A q \in W : rest[q] > 0
  BY DEF TypeOK
<1>2. faults' \in Nat
  BY DEF TypeOK, Consume
<1>3. jobs' = rest \/ jobs' = [rest EXCEPT ![p] = @ - 1]
  BY DEF Consume
<1> HIDE DEF rest
<1> QED BY <1>1, <1>2, <1>3 DEF TypeOK

LEMMA SupersededType ==
  ASSUME TypeOK, NEW t \in Task
  PROVE  /\ Superseded(t) \in [Proposal -> ProposalRow]
         /\ \A p \in Proposal :
              proposal[p].task = t /\ proposal[p].status \in Live =>
                /\ Superseded(t)[p].status = "superseded"
                /\ Superseded(t)[p].task = proposal[p].task
                /\ Superseded(t)[p].creator = proposal[p].creator
                /\ Superseded(t)[p].ops = proposal[p].ops
                /\ Superseded(t)[p].sameId = proposal[p].sameId
         /\ \A p \in Proposal :
              ~(proposal[p].task = t /\ proposal[p].status \in Live) =>
                Superseded(t)[p] = proposal[p]
<1> DEFINE new(p) == [proposal[p] EXCEPT !.status = "superseded"]
<1>1. \A p \in Proposal :
        /\ new(p) \in ProposalRow
        /\ new(p).status = "superseded"
        /\ new(p).task = proposal[p].task
        /\ new(p).creator = proposal[p].creator
        /\ new(p).ops = proposal[p].ops
        /\ new(p).sameId = proposal[p].sameId
  BY RowType DEF TypeOK, Status
<1>2. Superseded(t) = [p \in Proposal |->
         IF proposal[p].task = t /\ proposal[p].status \in Live
         THEN new(p) ELSE proposal[p]]
  BY DEF Superseded
<1> HIDE DEF new
<1> QED BY <1>1, <1>2 DEF TypeOK

LEMMA OpsOnType ==
  ASSUME TypeOK, NEW targets \in SUBSET Target
  PROVE  /\ OpsOn(targets) \in SUBSET Operation
         /\ \A o \in OpsOn(targets) :
              o.content.version = version[o.content.record]
         /\ (\A x, y \in targets : x[1] = y[1] => x = y) =>
              \A o, u \in OpsOn(targets) : o.key = u.key => o = u
         /\ targets # {} => OpsOn(targets) # {}
<1>1. \A x \in targets : x[1] \in Key /\ x[2] \in Record
  BY GovernanceAssumption
<1> DEFINE op(x) == [key |-> x[1],
                     content |-> [record |-> x[2], version |-> version[x[2]]]]
<1>2. \A x \in targets :
        /\ op(x) \in Operation /\ op(x).key = x[1]
        /\ op(x).content.version = version[op(x).content.record]
  BY <1>1 DEF TypeOK, Operation, Content
<1>3. \A o : o \in OpsOn(targets) <=> \E x \in targets : o = op(x)
  BY DEF OpsOn
<1> HIDE DEF op
<1> QED BY <1>2, <1>3

\* The row of a proposal that is created.
LEMMA CreateRow ==
  ASSUME TypeOK, NEW t \in Task, NEW p \in Proposal,
         NEW targets \in SUBSET Target, NEW sameId \in BOOLEAN,
         CreateProposal(t, p, targets, sameId)
  PROVE  /\ proposal[p].status = "absent"
         /\ proposal'[p].status = "pending_endorsement"
         /\ proposal'[p].ops = OpsOn(targets)
<1> DEFINE new == [status |-> "pending_endorsement", task |-> t,
                   creator |-> task[t].owner, ops |-> OpsOn(targets),
                   sameId |-> sameId]
<1>1. /\ proposal[p].status = "absent"
      /\ proposal' = [Superseded(t) EXCEPT ![p] = new]
  BY DEF CreateProposal
<1>2. new.status = "pending_endorsement" /\ new.ops = OpsOn(targets)
  OBVIOUS
<1> HIDE DEF new
<1>3. proposal'[p] = new
  BY <1>1, SupersededType
<1> QED BY <1>1, <1>2, <1>3

\* A proposal that is created, as the other lemmas use it.
LEMMA CreateRows ==
  ASSUME TypeOK, NEW t \in Task, NEW p \in Proposal,
         NEW targets \in SUBSET Target, NEW sameId \in BOOLEAN,
         CreateProposal(t, p, targets, sameId)
  PROVE  /\ proposal[p].status = "absent"
         /\ proposal'[p].status = "pending_endorsement"
         /\ proposal'[p].task = t
         /\ proposal'[p].creator = task[t].owner
         /\ proposal'[p].ops = OpsOn(targets)
         /\ \A q \in Proposal \ {p} : proposal'[q] = Superseded(t)[q]
         /\ proposal' \in [Proposal -> ProposalRow]
         /\ ledger' \in [Key -> LedgerRow]
         /\ \A o \in OpsOn(targets) :
              /\ ledger'[o.key].status = "reserved"
              /\ ledger'[o.key].holder = p
              /\ ledger'[o.key].content = o.content
         /\ \A k \in Key : (\A o \in OpsOn(targets) : o.key # k) =>
                            ledger'[k] = ledger[k]
<1> DEFINE ops == OpsOn(targets)
           new == [status |-> "pending_endorsement", task |-> t,
                   creator |-> task[t].owner, ops |-> ops, sameId |-> sameId]
           entry(k) == [status |-> "reserved", holder |-> p,
                        content |-> (CHOOSE o \in ops : o.key = k).content]
<1>1. /\ ops \in SUBSET Operation
      /\ \A o, u \in ops : o.key = u.key => o = u
  BY OpsOnType DEF CreateProposal
<1>2. new \in ProposalRow
  <2>1. task[t].owner \in Principal
    BY DEF TypeOK, TaskRow
  <2> QED BY <1>1, <2>1 DEF ProposalRow, Live, Pending
<1>3. proposal' = [Superseded(t) EXCEPT ![p] = new]
  BY DEF CreateProposal
<1>4. ledger' = [k \in Key |-> IF \E o \in ops : o.key = k
                               THEN entry(k) ELSE ledger[k]]
  BY DEF CreateProposal
<1>5. \A k \in Key : \A o \in ops : o.key = k =>
        /\ entry(k) \in LedgerRow
        /\ entry(k).content = o.content
  <2>1. SUFFICES ASSUME NEW k \in Key, NEW o \in ops, o.key = k
                 PROVE  entry(k) \in LedgerRow /\ entry(k).content = o.content
    OBVIOUS
  <2>2. (CHOOSE u \in ops : u.key = k) = o
    BY <1>1, <2>1
  <2>3. o.content \in Content
    BY <1>1 DEF Operation
  <2> QED BY <2>2, <2>3 DEF LedgerRow
<1>6. \A o \in ops : o.key \in Key
  BY <1>1 DEF Operation
<1>7. \A k \in Key : entry(k).status = "reserved" /\ entry(k).holder = p
  OBVIOUS
<1>8. proposal[p].status = "absent"
  BY DEF CreateProposal
<1>9. /\ new.status = "pending_endorsement" /\ new.task = t
       /\ new.creator = task[t].owner /\ new.ops = ops
  OBVIOUS
<1> HIDE DEF ops, new, entry
<1>10. /\ proposal' \in [Proposal -> ProposalRow]
      /\ proposal'[p] = new
      /\ \A q \in Proposal \ {p} : proposal'[q] = Superseded(t)[q]
  BY <1>2, <1>3, SupersededType
<1>11. /\ ledger' \in [Key -> LedgerRow]
       /\ \A o \in ops : ledger'[o.key] = entry(o.key)
       /\ \A k \in Key : (\A o \in ops : o.key # k) => ledger'[k] = ledger[k]
  BY <1>4, <1>5, <1>6 DEF TypeOK
<1> QED BY <1>5, <1>6, <1>7, <1>8, <1>9, <1>10, <1>11 DEF ops

LEMMA TypeStep ==
  ASSUME TypeOK, [Next]_vars
  PROVE  TypeOK'
<1> USE GovernanceAssumption
<1>1. ASSUME NEW t \in Task, NEW u \in Task, AddDependency(t, u)
      PROVE  TypeOK'
  BY <1>1 DEF TypeOK, AddDependency, review, records, budget
<1>2. ASSUME NEW t \in Task, CancelTask(t) PROVE TypeOK'
  <2>1. proposal' \in [Proposal -> ProposalRow]
    BY <1>2, RowType DEF TypeOK, CancelTask, Status
  <2>2. task' \in [Task -> TaskRow]
    BY <1>2 DEF TypeOK, CancelTask, TaskRow, Closed
  <2> QED BY <1>2, <2>1, <2>2 DEF TypeOK, CancelTask, records, budget
<1>3. ASSUME NEW t \in Task, NEW a \in Principal, AcceptHandoff(t, a)
      PROVE  TypeOK'
  <2>1. task' \in [Task -> TaskRow]
    BY <1>3 DEF TypeOK, AcceptHandoff, TaskRow
  <2> QED BY <1>3, <2>1 DEF TypeOK, AcceptHandoff, review, records
<1>4. ASSUME NEW a \in Principal, Revoke(a) PROVE TypeOK'
  BY <1>4 DEF TypeOK, Revoke, review, records
<1>5. ASSUME NEW t \in Task, NEW p \in Proposal, NEW targets \in SUBSET Target,
             NEW sameId \in BOOLEAN, CreateProposal(t, p, targets, sameId)
      PROVE  TypeOK'
  <2>1. /\ proposal' \in [Proposal -> ProposalRow]
        /\ ledger' \in [Key -> LedgerRow]
    BY <1>5, CreateRows
  <2>2. repeats' \in Nat
    BY <1>5 DEF TypeOK, CreateProposal
  <2> QED BY <1>5, <2>1, <2>2 DEF TypeOK, CreateProposal, records
<1>6. ASSUME NEW p \in Proposal, NEW a \in Principal, Endorse(p, a)
      PROVE  TypeOK'
  <2>1. proposal' \in [Proposal -> ProposalRow]
    BY <1>6, OneRowType DEF Endorse, Status, Live, Pending
  <2> QED BY <1>6, <2>1 DEF TypeOK, Endorse, Decided, records, budget
<1>7. ASSUME NEW p \in Proposal, NEW a \in Principal, Approve(p, a)
      PROVE  TypeOK'
  <2>1. proposal' \in [Proposal -> ProposalRow]
    BY <1>7, OneRowType DEF Approve, Status, Live
  <2>2. ledger' \in [Key -> LedgerRow]
    BY <1>7, MoveKeysType DEF Approve
  <2>3. authorized' \in [Proposal -> SUBSET Operation]
    BY <1>7 DEF TypeOK, Approve, ProposalRow
  <2> QED BY <1>7, <2>1, <2>2, <2>3 DEF TypeOK, Approve, Decided, records, budget
<1>8. ASSUME NEW p \in Proposal, NEW a \in Principal, Reject(p, a)
      PROVE  TypeOK'
  <2>1. proposal' \in [Proposal -> ProposalRow]
    BY <1>8, OneRowType DEF TypeOK, Reject, Status
  <2>2. ledger' \in [Key -> LedgerRow]
    BY <1>8, MoveKeysType DEF Reject
  <2> QED BY <1>8, <2>1, <2>2 DEF TypeOK, Reject, Decided, records, budget
<1>9. ASSUME NEW e \in Executor, NEW p \in Proposal, Handle(e, p)
      PROVE  TypeOK'
  <2>1. CASE ExecuteNothing(e, p)
    BY <2>1, ConsumeType DEF TypeOK, ExecuteNothing, Delivered, review, records
  <2>2. CASE ExecuteBlocked(e, p)
    <3>1. task' \in [Task -> TaskRow]
      BY <2>2 DEF TypeOK, ExecuteBlocked, TaskRow
    <3> QED BY <2>2, <3>1, ConsumeType
            DEF TypeOK, ExecuteBlocked, Delivered, review, records
  <2>3. CASE ExecuteRefused(e, p)
    <3>1. proposal' \in [Proposal -> ProposalRow]
      BY <2>3, OneRowType DEF ExecuteRefused, Status
    <3> QED BY <2>3, <3>1, ConsumeType
            DEF TypeOK, ExecuteRefused, Delivered, records
  <2>4. CASE ExecuteStale(e, p)
    BY <2>4 DEF TypeOK, ExecuteStale, Delivered, review, records, budget
  <2>5. CASE Apply(e, p)
    <3>1. proposal' \in [Proposal -> ProposalRow]
      BY <2>5, OneRowType DEF Apply, Status
    <3>2. ledger' \in [Key -> LedgerRow]
      BY <2>5, MoveKeysType DEF Apply
    <3>3. task' \in [Task -> TaskRow]
      BY <2>5 DEF TypeOK, Apply, TaskRow, Closed
    <3>4. version' \in [Record -> Nat]
      BY <2>5 DEF TypeOK, Apply
    <3>5. receipts' \in SUBSET Receipt
      <4>1. \A o \in authorized[p] : o \in Operation /\ o.content.version \in Nat
        BY DEF TypeOK, Operation, Content
      <4> QED BY <2>5, <4>1 DEF TypeOK, Apply, Receipt
    <3>6. Awaiting(proposal[p].task) \in SUBSET Proposal
      BY DEF Awaiting
    <3>7. jobs' \in [Proposal -> Nat] /\ faults' \in Nat
      BY <2>5, <3>6, ConsumeType DEF Apply, Delivered
    <3>8. authorized' \in [Proposal -> SUBSET Operation]
      BY <2>5 DEF TypeOK, Apply
    <3> QED BY <2>5, <3>1, <3>2, <3>3, <3>4, <3>5, <3>7, <3>8 DEF TypeOK, Apply
  <2> QED BY <1>9, <2>1, <2>2, <2>3, <2>4, <2>5 DEF Handle
<1>10. ASSUME NEW e \in Executor, RecordAttention(e) PROVE TypeOK'
  <2>1. failing[e] \in Proposal
    BY <1>10 DEF TypeOK, RecordAttention
  <2>2. proposal' \in [Proposal -> ProposalRow]
    <3>1. CASE UNCHANGED proposal
      BY <3>1 DEF TypeOK
    <3>2. CASE proposal' = [proposal EXCEPT ![failing[e]].status =
                              "needs_attention"]
      BY <3>2, <2>1, OneRowType DEF Status
    <3> QED BY <1>10, <3>1, <3>2 DEF RecordAttention
  <2>3. task' \in [Task -> TaskRow]
    BY <1>10 DEF TypeOK, RecordAttention, TaskRow
  <2>4. authorized' \in [Proposal -> SUBSET Operation]
    BY <1>10 DEF TypeOK, RecordAttention
  <2>5. failing' \in [Executor -> Proposal \cup {NoProposal}]
    BY <1>10 DEF TypeOK, RecordAttention
  <2> QED BY <1>10, <2>2, <2>3, <2>4, <2>5
          DEF TypeOK, RecordAttention, records, budget
<1>11. ASSUME NEW e \in Executor, ExecutorDies(e) PROVE TypeOK'
  BY <1>11 DEF TypeOK, ExecutorDies, review, records
<1>12. ASSUME NEW p \in Proposal, Discard(p) PROVE TypeOK'
  BY <1>12 DEF TypeOK, Discard, review, records
<1>13. CASE UNCHANGED vars
  BY <1>13 DEF vars, TypeOK
<1> QED
  BY <1>1, <1>2, <1>3, <1>4, <1>5, <1>6, <1>7, <1>8, <1>9, <1>10, <1>11, <1>12,
     <1>13 DEF Next
-----------------------------------------------------------------------------
(* What a step does to the proposals: it keeps a row, gives it up, or is   *)
(* one of the four steps that bring a proposal forward.                    *)

SameRow(p) ==
  /\ proposal'[p].task = proposal[p].task
  /\ proposal'[p].creator = proposal[p].creator
  /\ proposal'[p].ops = proposal[p].ops
  /\ proposal'[p].sameId = proposal[p].sameId

Forward(p, from, to) ==
  /\ proposal[p].status = from
  /\ proposal'[p].status = to
  /\ SameRow(p)

GivenUp(p) ==
  /\ proposal[p].status \in Live
  /\ proposal'[p].status \in {"rejected", "superseded", "needs_attention"}
  /\ SameRow(p)

KeptOrGivenUp(p) == proposal'[p] = proposal[p] \/ GivenUp(p)

\* Steps that leave the review and its results alone.
Quiet == UNCHANGED <<proposal, decisions, authorized, ledger, version, receipts>>

\* Steps that give proposals up and leave their keys as they are.
Drops ==
  /\ UNCHANGED <<decisions, ledger, version, receipts>>
  /\ \A p \in Proposal :
       \/ proposal'[p] = proposal[p] /\ authorized'[p] = authorized[p]
       \/ GivenUp(p) /\ authorized'[p] \subseteq authorized[p]

\* Only the status of one row is written.
LEMMA OneRow ==
  ASSUME TypeOK, NEW p \in Proposal, NEW s \in Status,
         proposal' = [proposal EXCEPT ![p].status = s]
  PROVE  /\ \A q \in Proposal \ {p} : proposal'[q] = proposal[q]
         /\ proposal'[p].status = s
         /\ SameRow(p)
<1> DEFINE new == [proposal[p] EXCEPT !.status = s]
<1>1. proposal[p] \in ProposalRow
  BY DEF TypeOK
<1>2. /\ \A q \in Proposal \ {p} : proposal'[q] = proposal[q]
      /\ proposal'[p] = new
  BY OneRowType
<1>3. /\ new.status = s
      /\ new.task = proposal[p].task /\ new.creator = proposal[p].creator
      /\ new.ops = proposal[p].ops /\ new.sameId = proposal[p].sameId
  BY <1>1, RowType
<1> HIDE DEF new
<1> QED BY <1>2, <1>3 DEF SameRow

LEMMA CancelDrops ==
  ASSUME TypeOK, NEW t \in Task, CancelTask(t)
  PROVE  Drops
<1>1. \A p \in Proposal : KeptOrGivenUp(p)
  BY RowType DEF TypeOK, CancelTask, KeptOrGivenUp, GivenUp, SameRow, Status
<1> QED BY <1>1 DEF CancelTask, Drops, KeptOrGivenUp, records

LEMMA ExecuteRefusedDrops ==
  ASSUME TypeOK, NEW e \in Executor, NEW p \in Proposal, ExecuteRefused(e, p)
  PROVE  Drops /\ proposal'[p].status = "needs_attention"
<1>1. /\ \A q \in Proposal : KeptOrGivenUp(q)
      /\ proposal'[p].status = "needs_attention"
  <2>1. /\ \A q \in Proposal \ {p} : proposal'[q] = proposal[q]
        /\ proposal'[p].status = "needs_attention" /\ SameRow(p)
    BY OneRow DEF ExecuteRefused, Status
  <2>2. proposal[p].status \in Live
    BY DEF ExecuteRefused, Live
  <2> QED BY <2>1, <2>2 DEF KeptOrGivenUp, GivenUp
<1> QED BY <1>1 DEF ExecuteRefused, Drops, KeptOrGivenUp, records

LEMMA RecordAttentionDrops ==
  ASSUME TypeOK, NEW e \in Executor, RecordAttention(e)
  PROVE  /\ Drops
         /\ failing[e] \in Proposal
         /\ proposal'[failing[e]].status # "approved"
<1> DEFINE p == failing[e]
<1>1. p \in Proposal
  BY DEF TypeOK, RecordAttention
<1>2. CASE UNCHANGED <<proposal, authorized>> /\ proposal[p].status # "approved"
  BY <1>1, <1>2 DEF RecordAttention, Drops, records
<1>3. CASE /\ proposal[p].status = "approved"
           /\ proposal' = [proposal EXCEPT ![p].status = "needs_attention"]
           /\ authorized' = [authorized EXCEPT ![p] = {}]
  <2>1. /\ \A q \in Proposal \ {p} : proposal'[q] = proposal[q]
        /\ proposal'[p].status = "needs_attention" /\ SameRow(p)
    BY <1>1, <1>3, OneRow DEF Status
  <2>3. GivenUp(p)
    BY <1>3, <2>1 DEF GivenUp, Live
  <2>4. \A q \in Proposal : q # p => authorized'[q] = authorized[q]
    BY <1>1, <1>3 DEF TypeOK
  <2>5. authorized'[p] = {}
    BY <1>1, <1>3 DEF TypeOK
  <2> QED BY <1>1, <2>1, <2>3, <2>4, <2>5
          DEF RecordAttention, Drops, records, GivenUp
<1> QED BY <1>2, <1>3 DEF RecordAttention

LEMMA Classify ==
  ASSUME TypeOK, [Next]_vars
  PROVE  \/ Quiet
         \/ Drops
         \/ \E t \in Task, p \in Proposal, targets \in SUBSET Target,
               sameId \in BOOLEAN : CreateProposal(t, p, targets, sameId)
         \/ \E p \in Proposal, a \in Principal :
              Endorse(p, a) \/ Approve(p, a) \/ Reject(p, a)
         \/ \E e \in Executor, p \in Proposal : Apply(e, p)
<1>1. ASSUME NEW t \in Task, CancelTask(t) PROVE Drops
  BY <1>1, CancelDrops
<1>2. ASSUME NEW e \in Executor, NEW p \in Proposal, Handle(e, p)
      PROVE  Quiet \/ Drops \/ Apply(e, p)
  BY <1>2, ExecuteRefusedDrops
     DEF Handle, Quiet, ExecuteNothing, ExecuteBlocked, ExecuteStale, review,
         records
<1>3. ASSUME NEW e \in Executor, RecordAttention(e) PROVE Drops
  BY <1>3, RecordAttentionDrops
<1>4. ASSUME UNCHANGED <<review, records>> PROVE Quiet
  BY <1>4 DEF Quiet, review, records
<1> QED
  BY <1>1, <1>2, <1>3, <1>4
     DEF Next, vars, review, records, AddDependency, AcceptHandoff, Revoke,
         ExecutorDies, Discard

LEMMA RejectFacts ==
  ASSUME TypeOK, NEW p \in Proposal, NEW a \in Principal, Reject(p, a)
  PROVE  /\ \A q \in Proposal : KeptOrGivenUp(q)
         /\ proposal'[p].status \notin Pending
         /\ \A q \in Proposal : decisions[q] \subseteq decisions'[q]
         /\ UNCHANGED <<authorized, version, receipts>>
<1>1. \A q \in Proposal : decisions[q] \subseteq decisions'[q]
  BY DEF TypeOK, Reject, Decided
<1>2. CASE proposal[p].status \in Pending
  <2>1. proposal' = [proposal EXCEPT ![p].status = "rejected"]
    BY <1>2 DEF Reject
  <2>2. /\ \A q \in Proposal \ {p} : proposal'[q] = proposal[q]
        /\ proposal'[p].status = "rejected" /\ SameRow(p)
    BY <2>1, OneRow DEF Status
  <2>3. UNCHANGED <<authorized, version, receipts>>
    BY DEF Reject, records
  <2> QED BY <1>1, <1>2, <2>2, <2>3 DEF KeptOrGivenUp, GivenUp, Live, Pending
<1>3. CASE proposal[p].status \notin Pending
  <2>1. UNCHANGED <<proposal, authorized, version, receipts>>
    BY <1>3 DEF Reject, records
  <2> QED BY <1>1, <1>3, <2>1 DEF KeptOrGivenUp
<1> QED BY <1>2, <1>3

LEMMA EndorseFacts ==
  ASSUME TypeOK, NEW p \in Proposal, NEW a \in Principal, Endorse(p, a)
  PROVE  /\ Forward(p, "pending_endorsement", "pending_approval")
         /\ \A q \in Proposal \ {p} : proposal'[q] = proposal[q]
         /\ \A q \in Proposal : decisions[q] \subseteq decisions'[q]
         /\ <<proposal[p].creator, "endorse">> \in decisions'[p]
         /\ UNCHANGED <<authorized, ledger, version, receipts>>
<1>1. /\ \A q \in Proposal : decisions[q] \subseteq decisions'[q]
      /\ <<proposal[p].creator, "endorse">> \in decisions'[p]
  BY DEF TypeOK, Endorse, Decided
<1>2. /\ \A q \in Proposal \ {p} : proposal'[q] = proposal[q]
      /\ proposal'[p].status = "pending_approval" /\ SameRow(p)
  BY OneRow DEF Endorse, Status, Live, Pending
<1>4. Forward(p, "pending_endorsement", "pending_approval")
  BY <1>2 DEF Endorse, Forward
<1> QED BY <1>1, <1>2, <1>4 DEF Endorse, records

LEMMA ApproveFacts ==
  ASSUME TypeOK, NEW p \in Proposal, NEW a \in Principal, Approve(p, a)
  PROVE  /\ Forward(p, "pending_approval", "approved")
         /\ \A q \in Proposal \ {p} : /\ proposal'[q] = proposal[q]
                                      /\ authorized'[q] = authorized[q]
         /\ \A q \in Proposal : decisions[q] \subseteq decisions'[q]
         /\ \E b \in Approver \ {proposal[p].creator} :
              <<b, "approve">> \in decisions'[p]
         /\ authorized'[p] \subseteq proposal[p].ops
         /\ ~proposal[p].sameId => authorized'[p] = proposal[p].ops
         /\ proposal[p].ops # {} => authorized'[p] # {}
         /\ jobs' = [jobs EXCEPT ![p] = @ + 1]
         /\ UNCHANGED <<version, receipts, task, depends, discarded, failing>>
<1>1. /\ \A q \in Proposal : decisions[q] \subseteq decisions'[q]
      /\ <<a, "approve">> \in decisions'[p]
  BY DEF TypeOK, Approve, Decided
<1>2. /\ \A q \in Proposal \ {p} : proposal'[q] = proposal[q]
      /\ proposal'[p].status = "approved" /\ SameRow(p)
  BY OneRow DEF Approve, Status, Live
<1>4. Forward(p, "pending_approval", "approved")
  BY <1>2 DEF Approve, Forward
<1>5. /\ authorized'[p] \subseteq proposal[p].ops
      /\ ~proposal[p].sameId => authorized'[p] = proposal[p].ops
      /\ proposal[p].ops # {} => authorized'[p] # {}
      /\ \A q \in Proposal \ {p} : authorized'[q] = authorized[q]
  <2>1. CASE proposal[p].sameId
    <3>1. PICK o \in proposal[p].ops : authorized' = [authorized EXCEPT ![p] = {o}]
      BY <2>1 DEF Approve
    <3> QED BY <2>1, <3>1 DEF TypeOK
  <2>2. CASE ~proposal[p].sameId
    <3>1. authorized' = [authorized EXCEPT ![p] = proposal[p].ops]
      BY <2>2 DEF Approve
    <3> QED BY <3>1 DEF TypeOK
  <2> QED BY <2>1, <2>2
<1>6. /\ a \in Approver \ {proposal[p].creator}
      /\ jobs' = [jobs EXCEPT ![p] = @ + 1]
      /\ UNCHANGED <<version, receipts, task, depends, discarded, failing>>
  BY DEF Approve, records, budget
<1> QED BY <1>1, <1>2, <1>4, <1>5, <1>6

LEMMA ApplyFacts ==
  ASSUME TypeOK, NEW e \in Executor, NEW p \in Proposal, Apply(e, p)
  PROVE  /\ Forward(p, "approved", "done")
         /\ \A q \in Proposal \ {p} : /\ proposal'[q] = proposal[q]
                                      /\ authorized'[q] = authorized[q]
         /\ authorized'[p] = {}
         /\ UNCHANGED decisions
<1>1. /\ \A q \in Proposal \ {p} : proposal'[q] = proposal[q]
      /\ proposal'[p].status = "done" /\ SameRow(p)
  BY OneRow DEF Apply, Status
<1>3. Forward(p, "approved", "done")
  BY <1>1 DEF Apply, Forward
<1>4. /\ authorized'[p] = {}
      /\ \A q \in Proposal \ {p} : authorized'[q] = authorized[q]
  BY DEF TypeOK, Apply
<1> QED BY <1>1, <1>3, <1>4 DEF Apply

LEMMA CreateFacts ==
  ASSUME TypeOK, NEW t \in Task, NEW p \in Proposal,
         NEW targets \in SUBSET Target, NEW sameId \in BOOLEAN,
         CreateProposal(t, p, targets, sameId)
  PROVE  /\ \A q \in Proposal \ {p} : KeptOrGivenUp(q)
         /\ \A q \in Proposal \ {p} :
              proposal[q].task = t => proposal'[q].status \notin Live
         /\ UNCHANGED <<decisions, authorized, version, receipts>>
<1>1. ASSUME NEW q \in Proposal \ {p},
             proposal[q].task = t, proposal[q].status \in Live
      PROVE  proposal'[q].status = "superseded" /\ GivenUp(q)
  <2>1. proposal'[q] = Superseded(t)[q]
    BY CreateRows
  <2>2. /\ Superseded(t)[q].status = "superseded"
        /\ Superseded(t)[q].task = proposal[q].task
        /\ Superseded(t)[q].creator = proposal[q].creator
        /\ Superseded(t)[q].ops = proposal[q].ops
        /\ Superseded(t)[q].sameId = proposal[q].sameId
    BY <1>1, SupersededType
  <2> QED BY <1>1, <2>1, <2>2 DEF GivenUp, SameRow
<1>2. ASSUME NEW q \in Proposal \ {p},
             ~(proposal[q].task = t /\ proposal[q].status \in Live)
      PROVE  proposal'[q] = proposal[q]
  <2>1. proposal'[q] = Superseded(t)[q]
    BY CreateRows
  <2> QED BY <1>2, <2>1, SupersededType
<1>3. UNCHANGED <<decisions, authorized, version, receipts>>
  BY DEF CreateProposal, records
<1> QED BY <1>1, <1>2, <1>3 DEF KeptOrGivenUp, Live, Pending
-----------------------------------------------------------------------------
(* The inductive invariant.                                                *)

\* A proposal that exists belongs to a task and a person, and changes
\* something; no key occurs twice in it.
Shape ==
  \A p \in Proposal :
    /\ proposal[p].status = "absent" => proposal[p].ops = {}
    /\ proposal[p].status # "absent" =>
         /\ proposal[p].task \in Task /\ proposal[p].creator \in Principal
         /\ proposal[p].ops # {}
    /\ \A o, u \in proposal[p].ops : o.key = u.key => o = u

\* What is authorized was prepared, and all of it unless ids were repeated.
Authority ==
  \A p \in Proposal :
    /\ authorized[p] \subseteq proposal[p].ops
    /\ proposal[p].status = "approved" =>
         /\ authorized[p] # {}
         /\ ~proposal[p].sameId => authorized[p] = proposal[p].ops

\* How far a proposal is shows in its decisions.
Reviewed ==
  \A p \in Proposal :
    /\ proposal[p].status \in {"pending_approval", "approved", "done"} =>
         <<proposal[p].creator, "endorse">> \in decisions[p]
    /\ proposal[p].status \in {"approved", "done"} =>
         \E a \in Approver \ {proposal[p].creator} :
           <<a, "approve">> \in decisions[p]

\* A receipt belongs to a finished proposal and to one of its operations.
ReceiptsBelong ==
  \A x \in receipts :
    /\ proposal[x.proposal].status = "done"
    /\ x.op \in proposal[x.proposal].ops
    /\ x.version = x.op.content.version + 1

IInv ==
  /\ TypeOK
  /\ Shape
  /\ Authority
  /\ Reviewed
  /\ ReceiptsBelong
  /\ OneLiveProposal
  /\ KeysFollowProposals
  /\ RecordsAreSerial
  /\ AllOrNothing
  /\ ApprovedIsScheduled

LEMMA ShapeStep ==
  ASSUME TypeOK, Shape, [Next]_vars
  PROVE  Shape'
<1>1. ASSUME \A q \in Proposal : SameRow(q) /\ (proposal'[q].status = "absent"
                                  <=> proposal[q].status = "absent")
      PROVE  Shape'
  BY <1>1 DEF Shape, SameRow
<1>2. ASSUME \A q \in Proposal : KeptOrGivenUp(q) PROVE Shape'
  BY <1>1, <1>2 DEF KeptOrGivenUp, GivenUp, SameRow, Live, Pending
<1>3. CASE Quiet
  BY <1>3 DEF Quiet, Shape
<1>4. CASE Drops
  BY <1>2, <1>4 DEF Drops, KeptOrGivenUp
<1>5. ASSUME NEW t \in Task, NEW p \in Proposal, NEW targets \in SUBSET Target,
             NEW sameId \in BOOLEAN, CreateProposal(t, p, targets, sameId)
      PROVE  Shape'
  <2>1. \A q \in Proposal \ {p} :
          SameRow(q) /\ (proposal'[q].status = "absent"
                           <=> proposal[q].status = "absent")
    BY <1>5, CreateFacts DEF KeptOrGivenUp, GivenUp, SameRow, Live, Pending
  <2>2. /\ OpsOn(targets) # {}
        /\ \A o, u \in OpsOn(targets) : o.key = u.key => o = u
    BY <1>5, OpsOnType DEF CreateProposal
  <2>3. /\ proposal'[p].status = "pending_endorsement"
        /\ proposal'[p].task = t
        /\ proposal'[p].creator = task[t].owner
        /\ proposal'[p].ops = OpsOn(targets)
    BY <1>5, CreateRows
  <2>4. task[t].owner \in Principal
    BY DEF TypeOK, TaskRow
  <2> QED BY <2>1, <2>2, <2>3, <2>4 DEF Shape, SameRow
<1>6. ASSUME NEW p \in Proposal, NEW a \in Principal,
             Endorse(p, a) \/ Approve(p, a)
      PROVE  Shape'
  <2>1. \A q \in Proposal \ {p} : proposal'[q] = proposal[q]
    BY <1>6, EndorseFacts, ApproveFacts
  <2>2. \/ Forward(p, "pending_endorsement", "pending_approval")
        \/ Forward(p, "pending_approval", "approved")
    BY <1>6, EndorseFacts, ApproveFacts
  <2> QED BY <1>1, <2>1, <2>2 DEF Forward, SameRow
<1>7. ASSUME NEW p \in Proposal, NEW a \in Principal, Reject(p, a)
      PROVE  Shape'
  BY <1>2, <1>7, RejectFacts
<1>8. ASSUME NEW e \in Executor, NEW p \in Proposal, Apply(e, p)
      PROVE  Shape'
  <2>1. \A q \in Proposal \ {p} : proposal'[q] = proposal[q]
    BY <1>8, ApplyFacts
  <2>2. Forward(p, "approved", "done")
    BY <1>8, ApplyFacts
  <2> QED BY <1>1, <2>1, <2>2 DEF Forward, SameRow
<1> QED BY <1>3, <1>4, <1>5, <1>6, <1>7, <1>8, Classify

LEMMA AuthorityStep ==
  ASSUME TypeOK, Shape, Authority, [Next]_vars
  PROVE  Authority'
<1> DEFINE A(q) ==
      /\ authorized'[q] \subseteq proposal'[q].ops
      /\ proposal'[q].status = "approved" =>
           /\ authorized'[q] # {}
           /\ ~proposal'[q].sameId => authorized'[q] = proposal'[q].ops
<1>1. ASSUME NEW q \in Proposal, proposal'[q] = proposal[q],
             authorized'[q] = authorized[q]
      PROVE  A(q)
  BY <1>1 DEF Authority
<1>2. ASSUME NEW q \in Proposal, GivenUp(q), authorized'[q] \subseteq authorized[q]
      PROVE  A(q)
  BY <1>2 DEF Authority, GivenUp, SameRow
<1>3. CASE Quiet
  BY <1>3 DEF Quiet, Authority
<1>4. CASE Drops
  <2>1. \A q \in Proposal : A(q)
    BY <1>1, <1>2, <1>4 DEF Drops
  <2> QED BY <2>1 DEF Authority
<1>5. ASSUME NEW t \in Task, NEW p \in Proposal, NEW targets \in SUBSET Target,
             NEW sameId \in BOOLEAN, CreateProposal(t, p, targets, sameId)
      PROVE  \A q \in Proposal : A(q)
  <2>1. \A q \in Proposal \ {p} : A(q)
    BY <1>1, <1>2, <1>5, CreateFacts DEF KeptOrGivenUp
  <2>2. authorized'[p] = {}
    <3>1. authorized' = authorized /\ proposal[p].status = "absent"
      BY <1>5, CreateFacts, CreateRows
    <3> QED BY <3>1 DEF Shape, Authority
  <2>3. proposal'[p].status # "approved"
    BY <1>5, CreateRows
  <2> QED BY <2>1, <2>2, <2>3
<1>6. ASSUME NEW p \in Proposal, NEW a \in Principal, Endorse(p, a)
      PROVE  \A q \in Proposal : A(q)
  <2>1. \A q \in Proposal \ {p} : A(q)
    BY <1>1, <1>6, EndorseFacts
  <2>2. A(p)
    BY <1>6, EndorseFacts DEF Forward, SameRow, Authority
  <2> QED BY <2>1, <2>2
<1>7. ASSUME NEW p \in Proposal, NEW a \in Principal, Reject(p, a)
      PROVE  \A q \in Proposal : A(q)
  BY <1>1, <1>2, <1>7, RejectFacts DEF KeptOrGivenUp
<1>8. ASSUME NEW p \in Proposal, NEW a \in Principal, Approve(p, a)
      PROVE  \A q \in Proposal : A(q)
  <2>1. \A q \in Proposal \ {p} : A(q)
    BY <1>1, <1>8, ApproveFacts
  <2>2. proposal[p].ops # {}
    BY <1>8, ApproveFacts DEF Shape, Forward
  <2>3. A(p)
    BY <1>8, <2>2, ApproveFacts DEF Forward, SameRow
  <2> QED BY <2>1, <2>3
<1>9. ASSUME NEW e \in Executor, NEW p \in Proposal, Apply(e, p)
      PROVE  \A q \in Proposal : A(q)
  <2>1. \A q \in Proposal \ {p} : A(q)
    BY <1>1, <1>9, ApplyFacts
  <2>2. A(p)
    BY <1>9, ApplyFacts DEF Forward
  <2> QED BY <2>1, <2>2
<1> QED BY <1>3, <1>4, <1>5, <1>6, <1>7, <1>8, <1>9, Classify DEF Authority

LEMMA ReviewedStep ==
  ASSUME TypeOK, Shape, Reviewed, [Next]_vars
  PROVE  Reviewed'
<1> DEFINE R(q) ==
      /\ proposal'[q].status \in {"pending_approval", "approved", "done"} =>
           <<proposal'[q].creator, "endorse">> \in decisions'[q]
      /\ proposal'[q].status \in {"approved", "done"} =>
           \E a \in Approver \ {proposal'[q].creator} :
             <<a, "approve">> \in decisions'[q]
<1>1. ASSUME NEW q \in Proposal, KeptOrGivenUp(q),
             decisions[q] \subseteq decisions'[q]
      PROVE  R(q)
  <2>1. CASE proposal'[q] = proposal[q]
    BY <1>1, <2>1 DEF Reviewed
  <2>2. CASE GivenUp(q)
    BY <2>2 DEF GivenUp
  <2> QED BY <1>1, <2>1, <2>2 DEF KeptOrGivenUp
<1>3. CASE Quiet
  BY <1>3 DEF Quiet, Reviewed
<1>4. CASE Drops
  BY <1>1, <1>4 DEF Drops, KeptOrGivenUp, Reviewed
<1>5. ASSUME NEW t \in Task, NEW p \in Proposal, NEW targets \in SUBSET Target,
             NEW sameId \in BOOLEAN, CreateProposal(t, p, targets, sameId)
      PROVE  \A q \in Proposal : R(q)
  <2>1. \A q \in Proposal \ {p} : R(q)
    <3>1. /\ \A q \in Proposal \ {p} : KeptOrGivenUp(q)
          /\ decisions' = decisions
      BY <1>5, CreateFacts
    <3> QED BY <1>1, <3>1
  <2>2. proposal'[p].status = "pending_endorsement"
    BY <1>5, CreateRows
  <2> QED BY <2>1, <2>2
<1>6. ASSUME NEW p \in Proposal, NEW a \in Principal, Endorse(p, a)
      PROVE  \A q \in Proposal : R(q)
  <2>1. \A q \in Proposal \ {p} : R(q)
    BY <1>1, <1>6, EndorseFacts DEF KeptOrGivenUp
  <2>2. R(p)
    BY <1>6, EndorseFacts DEF Forward, SameRow
  <2> QED BY <2>1, <2>2
<1>7. ASSUME NEW p \in Proposal, NEW a \in Principal, Reject(p, a)
      PROVE  \A q \in Proposal : R(q)
  BY <1>1, <1>7, RejectFacts
<1>8. ASSUME NEW p \in Proposal, NEW a \in Principal, Approve(p, a)
      PROVE  \A q \in Proposal : R(q)
  <2>1. \A q \in Proposal \ {p} : R(q)
    BY <1>1, <1>8, ApproveFacts DEF KeptOrGivenUp
  <2>2. <<proposal[p].creator, "endorse">> \in decisions'[p]
    BY <1>8, ApproveFacts DEF Forward, Reviewed
  <2>3. R(p)
    BY <1>8, <2>2, ApproveFacts DEF Forward, SameRow
  <2> QED BY <2>1, <2>3
<1>9. ASSUME NEW e \in Executor, NEW p \in Proposal, Apply(e, p)
      PROVE  \A q \in Proposal : R(q)
  <2>1. \A q \in Proposal \ {p} : R(q)
    BY <1>1, <1>9, ApplyFacts DEF KeptOrGivenUp
  <2>2. R(p)
    BY <1>9, ApplyFacts DEF Forward, SameRow, Reviewed
  <2> QED BY <2>1, <2>2
<1> QED BY <1>3, <1>4, <1>5, <1>6, <1>7, <1>8, <1>9, Classify DEF Reviewed
-----------------------------------------------------------------------------
(* Receipts and records.                                                   *)

LEMMA DoneStays ==
  ASSUME TypeOK, [Next]_vars, NEW q \in Proposal, proposal[q].status = "done"
  PROVE  proposal'[q] = proposal[q]
<1>1. KeptOrGivenUp(q) => proposal'[q] = proposal[q]
  BY DEF KeptOrGivenUp, GivenUp, Live, Pending
<1>2. ASSUME NEW t \in Task, NEW p \in Proposal, NEW targets \in SUBSET Target,
             NEW sameId \in BOOLEAN, CreateProposal(t, p, targets, sameId)
      PROVE  KeptOrGivenUp(q)
  <2>1. p # q
    BY <1>2, CreateRows
  <2>2. \A r \in Proposal \ {p} : KeptOrGivenUp(r)
    BY <1>2, CreateFacts
  <2> QED BY <2>1, <2>2
<1>3. ASSUME NEW p \in Proposal, NEW a \in Principal,
             Endorse(p, a) \/ Approve(p, a) \/ Reject(p, a)
      PROVE  KeptOrGivenUp(q)
  BY <1>3, EndorseFacts, ApproveFacts, RejectFacts DEF Forward, KeptOrGivenUp
<1>4. ASSUME NEW e \in Executor, NEW p \in Proposal, Apply(e, p)
      PROVE  KeptOrGivenUp(q)
  BY <1>4, ApplyFacts DEF Forward, KeptOrGivenUp
<1> QED BY <1>1, <1>2, <1>3, <1>4, Classify DEF Quiet, Drops, KeptOrGivenUp

\* Only Apply touches receipts and records.
LEMMA ResultsStay ==
  ASSUME TypeOK, [Next]_vars,
         ~ \E e \in Executor, p \in Proposal : Apply(e, p)
  PROVE  UNCHANGED <<version, receipts>>
<1>1. ASSUME NEW t \in Task, NEW p \in Proposal, NEW targets \in SUBSET Target,
             NEW sameId \in BOOLEAN, CreateProposal(t, p, targets, sameId)
      PROVE  UNCHANGED <<version, receipts>>
  BY <1>1, CreateFacts
<1>2. ASSUME NEW p \in Proposal, NEW a \in Principal,
             Endorse(p, a) \/ Approve(p, a) \/ Reject(p, a)
      PROVE  UNCHANGED <<version, receipts>>
  BY <1>2, EndorseFacts, ApproveFacts, RejectFacts
<1> QED BY <1>1, <1>2, Classify DEF Quiet, Drops

\* What Apply does to receipts and records.
LEMMA ApplyResults ==
  ASSUME TypeOK, NEW e \in Executor, NEW p \in Proposal, Apply(e, p)
  PROVE  /\ \A o \in authorized[p] :
              /\ o \in Operation
              /\ version[o.content.record] = o.content.version
              /\ version'[o.content.record] = o.content.version + 1
         /\ \A o, u \in authorized[p] :
              o.content.record = u.content.record => o = u
         /\ \A r \in Record : \/ version'[r] = version[r]
                              \/ /\ version'[r] = version[r] + 1
                                 /\ \E o \in authorized[p] :
                                      o.content.record = r
         /\ receipts \subseteq receipts'
         /\ \A x \in receipts' \ receipts :
              /\ x.proposal = p /\ x.op \in authorized[p]
              /\ x.version = x.op.content.version + 1
         /\ \A o \in authorized[p] : \E x \in receipts' :
              /\ x.proposal = p /\ x.op = o
              /\ x.version = o.content.version + 1
<1> DEFINE slip(o) == [proposal |-> p, op |-> o, version |-> o.content.version + 1]
<1>1. /\ authorized[p] \in SUBSET Operation
      /\ \A o \in authorized[p] : o.content.record \in Record
  BY DEF TypeOK, Operation, Content
<1>2. /\ \A o \in authorized[p] : version[o.content.record] = o.content.version
      /\ \A o, u \in authorized[p] :
           o.content.record = u.content.record => o = u
  BY DEF Apply, Applicable
<1>3. version' = [r \in Record |->
        IF \E o \in authorized[p] : o.content.record = r
        THEN version[r] + 1 ELSE version[r]]
  BY DEF Apply
<1>4. receipts' = receipts \cup {slip(o) : o \in authorized[p]}
  BY DEF Apply
<1>5. \A o : /\ slip(o).proposal = p /\ slip(o).op = o
             /\ slip(o).version = o.content.version + 1
  OBVIOUS
<1> HIDE DEF slip
<1>6. /\ receipts \subseteq receipts'
      /\ \A x \in receipts' \ receipts : \E o \in authorized[p] : x = slip(o)
      /\ \A o \in authorized[p] : slip(o) \in receipts'
  BY <1>4
<1>7. /\ \A o \in authorized[p] : version'[o.content.record] = o.content.version + 1
      /\ \A r \in Record : \/ version'[r] = version[r]
                           \/ /\ version'[r] = version[r] + 1
                              /\ \E o \in authorized[p] : o.content.record = r
  BY <1>1, <1>2, <1>3
<1> QED BY <1>1, <1>2, <1>5, <1>6, <1>7

LEMMA ReceiptsStep ==
  ASSUME TypeOK, Authority, ReceiptsBelong, [Next]_vars
  PROVE  ReceiptsBelong'
<1>1. \A x \in receipts : x.proposal \in Proposal
  BY DEF TypeOK, Receipt
<1>2. ASSUME NEW x \in receipts
      PROVE  /\ proposal'[x.proposal].status = "done"
             /\ x.op \in proposal'[x.proposal].ops
             /\ x.version = x.op.content.version + 1
  BY <1>1, DoneStays DEF ReceiptsBelong
<1>3. CASE UNCHANGED <<version, receipts>>
  BY <1>2, <1>3 DEF ReceiptsBelong
<1>4. ASSUME NEW e \in Executor, NEW p \in Proposal, Apply(e, p)
      PROVE  ReceiptsBelong'
  <2>1. \A x \in receipts' \ receipts :
          /\ x.proposal = p /\ x.op \in authorized[p]
          /\ x.version = x.op.content.version + 1
    BY <1>4, ApplyResults
  <2>2. proposal'[p].status = "done" /\ authorized[p] \subseteq proposal'[p].ops
    BY <1>4, ApplyFacts DEF Forward, SameRow, Authority
  <2> QED BY <1>2, <2>1, <2>2 DEF ReceiptsBelong
<1> QED BY <1>3, <1>4, ResultsStay

LEMMA SerialStep ==
  ASSUME TypeOK, TypeOK', RecordsAreSerial, [Next]_vars
  PROVE  RecordsAreSerial'
<1>1. CASE UNCHANGED <<version, receipts>>
  BY <1>1 DEF RecordsAreSerial
<1>2. ASSUME NEW e \in Executor, NEW p \in Proposal, Apply(e, p)
      PROVE  RecordsAreSerial'
  <2> DEFINE rec(x) == x.op.content.record
  <2>1. \A x \in receipts' : /\ rec(x) \in Record
                             /\ x.op.content.version \in Nat /\ x.version \in Nat
    BY DEF TypeOK, Receipt, Operation, Content
  <2>2. /\ \A r \in Record : version[r] \in Nat /\ version'[r] \in Nat
        /\ \A r \in Record : version[r] <= version'[r]
    BY <1>2, ApplyResults DEF TypeOK
  <2>3. \A x \in receipts' \ receipts :
          /\ x.op \in authorized[p] /\ x.proposal = p
          /\ x.version = x.op.content.version + 1
          /\ x.version = version[rec(x)] + 1
          /\ x.version = version'[rec(x)]
    BY <1>2, ApplyResults
  <2>4. \A x \in receipts : /\ x.version = x.op.content.version + 1
                            /\ x.version <= version[rec(x)]
    BY DEF RecordsAreSerial
  <2>5. \A x \in receipts' : /\ x.version = x.op.content.version + 1
                             /\ x.version <= version'[rec(x)]
    <3>1. receipts \subseteq receipts'
      BY <1>2, ApplyResults
    <3> QED BY <2>1, <2>2, <2>3, <2>4, <3>1
  <2>6. ASSUME NEW x \in receipts', NEW y \in receipts',
               rec(x) = rec(y), x.version = y.version
        PROVE  x = y
    <3>1. CASE x \in receipts /\ y \in receipts
      BY <2>6, <3>1 DEF RecordsAreSerial
    <3>2. CASE x \in receipts /\ y \notin receipts
      BY <2>1, <2>2, <2>3, <2>4, <2>6, <3>2
    <3>3. CASE x \notin receipts /\ y \in receipts
      BY <2>1, <2>2, <2>3, <2>4, <2>6, <3>3
    <3>4. CASE x \notin receipts /\ y \notin receipts
      <4>1. x.op = y.op
        <5>1. \A o, u \in authorized[p] :
                o.content.record = u.content.record => o = u
          BY <1>2, ApplyResults
        <5> QED BY <2>3, <2>6, <3>4, <5>1
      <4>2. x \in Receipt /\ y \in Receipt
        BY DEF TypeOK
      <4>3. x.proposal = y.proposal
        BY <2>3, <3>4
      <4> QED BY <2>6, <4>1, <4>2, <4>3 DEF Receipt
    <3> QED BY <3>1, <3>2, <3>3, <3>4
  <2>7. ASSUME NEW r \in Record, NEW v \in 2 .. version'[r]
        PROVE  \E x \in receipts' : rec(x) = r /\ x.version = v
    <3>1. CASE v <= version[r]
      <4>1. v \in 2 .. version[r]
        BY <2>2, <3>1
      <4>2. \E x \in receipts : rec(x) = r /\ x.version = v
        BY <4>1 DEF RecordsAreSerial
      <4>3. receipts \subseteq receipts'
        BY <1>2, ApplyResults
      <4> QED BY <4>2, <4>3
    <3>2. CASE ~(v <= version[r])
      <4>1. /\ version'[r] = version[r] + 1
            /\ \E o \in authorized[p] : o.content.record = r
        <5>1. version'[r] # version[r]
          BY <2>2, <3>2
        <5>2. \/ version'[r] = version[r]
              \/ /\ version'[r] = version[r] + 1
                 /\ \E o \in authorized[p] : o.content.record = r
          BY <1>2, ApplyResults
        <5> QED BY <5>1, <5>2
      <4>2. v = version'[r]
        BY <2>2, <3>2, <4>1
      <4>3. PICK o \in authorized[p] : o.content.record = r
        BY <4>1
      <4>4. version'[r] = o.content.version + 1
        BY <1>2, <4>3, ApplyResults
      <4>5. PICK x \in receipts' : x.op = o /\ x.version = o.content.version + 1
        BY <1>2, ApplyResults
      <4> QED BY <4>2, <4>3, <4>4, <4>5
    <3> QED BY <3>1, <3>2
  <2> HIDE DEF rec
  <2> QED BY <2>5, <2>6, <2>7 DEF RecordsAreSerial, rec
<1> QED BY <1>1, <1>2, ResultsStay

LEMMA AllOrNothingStep ==
  ASSUME TypeOK, Shape, Authority, AllOrNothing, [Next]_vars
  PROVE  AllOrNothing'
<1> DEFINE slips(q) == {x \in receipts : x.proposal = q}
           N(q) ==
             /\ proposal'[q].status = "done" => authorized'[q] = {}
             /\ proposal'[q].status = "done" /\ ~proposal'[q].sameId =>
                  {x.op : x \in slips(q)'} = proposal'[q].ops
             /\ proposal'[q].status # "done" =>
                  \A x \in receipts' : x.proposal # q
<1>0. (\A q \in Proposal : N(q)) => AllOrNothing'
  BY DEF AllOrNothing
<1>1. ASSUME NEW q \in Proposal, proposal'[q] = proposal[q],
             authorized'[q] = authorized[q], slips(q)' = slips(q)
      PROVE  N(q)
  <2>1. (\A x \in receipts : x.proposal # q) => \A x \in receipts' : x.proposal # q
    BY <1>1
  <2> QED BY <1>1, <2>1 DEF AllOrNothing
<1>2. ASSUME NEW q \in Proposal, proposal[q].status # "done",
             proposal'[q].status # "done", slips(q)' = slips(q)
      PROVE  N(q)
  BY <1>2 DEF AllOrNothing
<1>3. ASSUME NEW q \in Proposal, GivenUp(q), slips(q)' = slips(q)
      PROVE  N(q)
  BY <1>2, <1>3 DEF GivenUp, Live, Pending
<1>4. CASE Quiet
  BY <1>4 DEF Quiet, AllOrNothing
<1>5. CASE Drops
  BY <1>0, <1>1, <1>3, <1>5 DEF Drops
<1>6. ASSUME NEW t \in Task, NEW p \in Proposal, NEW targets \in SUBSET Target,
             NEW sameId \in BOOLEAN, CreateProposal(t, p, targets, sameId)
      PROVE  \A q \in Proposal : N(q)
  <2>1. /\ \A q \in Proposal \ {p} : KeptOrGivenUp(q)
        /\ UNCHANGED <<authorized, receipts>>
    BY <1>6, CreateFacts
  <2>2. proposal[p].status = "absent" /\ proposal'[p].status = "pending_endorsement"
    BY <1>6, CreateRows
  <2> QED BY <1>1, <1>2, <1>3, <2>1, <2>2 DEF KeptOrGivenUp
<1>7. ASSUME NEW p \in Proposal, NEW a \in Principal, Endorse(p, a)
      PROVE  \A q \in Proposal : N(q)
  <2>1. /\ \A q \in Proposal \ {p} : proposal'[q] = proposal[q]
        /\ UNCHANGED <<authorized, receipts>>
        /\ proposal[p].status # "done" /\ proposal'[p].status # "done"
    BY <1>7, EndorseFacts DEF Forward
  <2> QED BY <1>1, <1>2, <2>1
<1>8. ASSUME NEW p \in Proposal, NEW a \in Principal, Reject(p, a)
      PROVE  \A q \in Proposal : N(q)
  <2>1. /\ \A q \in Proposal : KeptOrGivenUp(q)
        /\ UNCHANGED <<authorized, receipts>>
    BY <1>8, RejectFacts
  <2> QED BY <1>1, <1>3, <2>1 DEF KeptOrGivenUp
<1>9. ASSUME NEW p \in Proposal, NEW a \in Principal, Approve(p, a)
      PROVE  \A q \in Proposal : N(q)
  <2>1. /\ \A q \in Proposal \ {p} : /\ proposal'[q] = proposal[q]
                                     /\ authorized'[q] = authorized[q]
        /\ receipts' = receipts
        /\ proposal[p].status # "done" /\ proposal'[p].status # "done"
    BY <1>9, ApproveFacts DEF Forward
  <2> QED BY <1>1, <1>2, <2>1
<1>10. ASSUME NEW e \in Executor, NEW p \in Proposal, Apply(e, p)
       PROVE  \A q \in Proposal : N(q)
  <2>1. /\ receipts \subseteq receipts'
        /\ \A x \in receipts' \ receipts : x.proposal = p /\ x.op \in authorized[p]
        /\ \A o \in authorized[p] : \E x \in receipts' :
             x.proposal = p /\ x.op = o
    BY <1>10, ApplyResults
  <2>2. /\ \A q \in Proposal \ {p} : /\ proposal'[q] = proposal[q]
                                     /\ authorized'[q] = authorized[q]
        /\ Forward(p, "approved", "done")
        /\ authorized'[p] = {}
    BY <1>10, ApplyFacts
  <2>3. \A q \in Proposal \ {p} : N(q)
    <3>1. \A q \in Proposal \ {p} : slips(q)' = slips(q)
      BY <2>1
    <3> QED BY <1>1, <2>2, <3>1
  <2>4. N(p)
    <3>1. \A x \in receipts : x.proposal # p
      BY <2>2 DEF AllOrNothing, Forward
    <3>2. {x.op : x \in slips(p)'} = authorized[p]
      BY <2>1, <3>1
    <3>3. ~proposal'[p].sameId => authorized[p] = proposal'[p].ops
      BY <2>2 DEF Forward, SameRow, Authority
    <3>4. proposal'[p].status = "done"
      BY <2>2 DEF Forward
    <3> QED BY <2>2, <3>2, <3>3, <3>4
  <2> QED BY <2>3, <2>4
<1> QED BY <1>0, <1>4, <1>5, <1>6, <1>7, <1>8, <1>9, <1>10, Classify
-----------------------------------------------------------------------------
(* One live proposal, and who holds the keys.                              *)

\* A task is closed by a cancellation or by the proposal that is applied, and
\* done only by the latter.
LEMMA TasksStep ==
  ASSUME TypeOK, [Next]_vars, NEW u \in Task
  PROVE  \/ /\ task'[u].status \in Closed <=> task[u].status \in Closed
            /\ task'[u].status = "done" <=> task[u].status = "done"
         \/ /\ CancelTask(u)
            /\ task'[u].status # "done" /\ task[u].status # "done"
         \/ \E e \in Executor, p \in Proposal : Apply(e, p) /\ proposal[p].task = u
<1> DEFINE Same == /\ task'[u].status \in Closed <=> task[u].status \in Closed
                   /\ task'[u].status = "done" <=> task[u].status = "done"
<1>1. CASE task' = task
  BY <1>1
<1>2. ASSUME NEW t \in Task, NEW s \in {"blocked", "done", "cancelled"},
             task' = [task EXCEPT ![t].status = s]
      PROVE  /\ t # u => Same
             /\ t = u => task'[u].status = s
  BY <1>2 DEF TypeOK, TaskRow
<1>3. ASSUME NEW t \in Task, CancelTask(t)
      PROVE  Same \/ /\ CancelTask(u)
                     /\ task'[u].status # "done" /\ task[u].status # "done"
  <2>1. task' = [task EXCEPT ![t].status = "cancelled"] /\ task[t].status # "done"
    BY <1>3 DEF CancelTask
  <2> QED BY <1>2, <1>3, <2>1
<1>4. ASSUME NEW t \in Task, NEW a \in Principal, AcceptHandoff(t, a)
      PROVE  Same
  BY <1>4 DEF TypeOK, TaskRow, AcceptHandoff
<1>5. ASSUME NEW p \in Proposal, proposal[p].task \in Task,
             task[proposal[p].task].status \notin Closed,
             task' = [task EXCEPT ![proposal[p].task].status = "blocked"]
      PROVE  Same
  BY <1>2, <1>5 DEF Closed
<1>6. ASSUME NEW p \in Proposal, proposal[p].task \notin Task,
             task' = [task EXCEPT ![proposal[p].task].status = "blocked"]
      PROVE  Same
  BY <1>6 DEF TypeOK
<1>7. ASSUME NEW e \in Executor, NEW p \in Proposal, Handle(e, p)
      PROVE  Same \/ (Apply(e, p) /\ proposal[p].task = u)
  <2>1. CASE ExecuteBlocked(e, p)
    BY <2>1, <1>1, <1>5, <1>6 DEF ExecuteBlocked
  <2>2. CASE Apply(e, p)
    <3>1. CASE proposal[p].task = u
      BY <2>2, <3>1
    <3>2. CASE proposal[p].task # u
      <4>1. task' = [task EXCEPT ![proposal[p].task].status = "done"]
        BY <2>2 DEF Apply
      <4>2. task'[u] = task[u]
        BY <3>2, <4>1 DEF TypeOK
      <4> QED BY <4>2
    <3> QED BY <3>1, <3>2
  <2> QED BY <1>1, <1>7, <2>1, <2>2
          DEF Handle, ExecuteNothing, ExecuteRefused, ExecuteStale
<1>8. ASSUME NEW e \in Executor, RecordAttention(e) PROVE Same
  <2>1. failing[e] \in Proposal
    BY <1>8 DEF TypeOK, RecordAttention
  <2> QED BY <1>1, <1>5, <1>6, <1>8, <2>1 DEF RecordAttention
<1> QED
  BY <1>1, <1>3, <1>4, <1>7, <1>8
     DEF Next, vars, AddDependency, Revoke, CreateProposal, Endorse, Approve,
         Reject, ExecutorDies, Discard

\* What is live now was live before, or has just been created.
LEMMA LiveBefore ==
  ASSUME TypeOK, [Next]_vars, NEW p \in Proposal, proposal'[p].status \in Live
  PROVE  \/ proposal[p].status \in Live /\ SameRow(p)
         \/ \E t \in Task, targets \in SUBSET Target, sameId \in BOOLEAN :
              CreateProposal(t, p, targets, sameId)
<1> DEFINE Before == proposal[p].status \in Live /\ SameRow(p)
<1>1. KeptOrGivenUp(p) => Before
  BY DEF KeptOrGivenUp, GivenUp, SameRow, Live, Pending
<1>2. ASSUME NEW t \in Task, NEW q \in Proposal, NEW targets \in SUBSET Target,
             NEW sameId \in BOOLEAN, CreateProposal(t, q, targets, sameId)
      PROVE  Before \/ q = p
  <2>1. \A r \in Proposal \ {q} : KeptOrGivenUp(r)
    BY <1>2, CreateFacts
  <2> QED BY <1>1, <2>1
<1>3. ASSUME NEW q \in Proposal, NEW a \in Principal,
             Endorse(q, a) \/ Approve(q, a) \/ Reject(q, a)
      PROVE  Before
  BY <1>1, <1>3, EndorseFacts, ApproveFacts, RejectFacts
     DEF Forward, Live, Pending, KeptOrGivenUp
<1>4. ASSUME NEW e \in Executor, NEW q \in Proposal, Apply(e, q)
      PROVE  Before
  BY <1>1, <1>4, ApplyFacts DEF Forward, Live, Pending, KeptOrGivenUp
<1> QED BY <1>1, <1>2, <1>3, <1>4, Classify DEF Quiet, Drops, KeptOrGivenUp

LEMMA OneLiveStep ==
  ASSUME TypeOK, Shape, OneLiveProposal, [Next]_vars
  PROVE  OneLiveProposal'
<1>1. ASSUME NEW t \in Task, NEW p \in Proposal, NEW targets \in SUBSET Target,
             NEW sameId \in BOOLEAN, CreateProposal(t, p, targets, sameId)
      PROVE  OneLiveProposal'
  <2>1. /\ \A q \in Proposal \ {p} : KeptOrGivenUp(q)
        /\ \A q \in Proposal \ {p} :
             proposal[q].task = t => proposal'[q].status \notin Live
    <3>1. \A q \in Proposal \ {p} : KeptOrGivenUp(q)
      BY <1>1, CreateFacts
    <3>2. \A q \in Proposal \ {p} :
            proposal[q].task = t => proposal'[q].status \notin Live
      BY <1>1, CreateFacts
    <3> QED BY <3>1, <3>2
  <2>2. \A q \in Proposal \ {p} : proposal'[q].status \in Live =>
          /\ proposal[q].status \in Live
          /\ proposal'[q].task = proposal[q].task
          /\ proposal'[q].task # t
    BY <2>1 DEF KeptOrGivenUp, GivenUp, SameRow, Live, Pending
  <2>3. proposal'[p].task = t /\ task' = task /\ task[t].status \notin Closed
    <3>1. proposal'[p].task = t
      BY <1>1, CreateRows
    <3> QED BY <1>1, <3>1 DEF CreateProposal
  <2> QED BY <2>2, <2>3 DEF OneLiveProposal
<1>2. CASE ~ \E t \in Task, p \in Proposal, targets \in SUBSET Target,
                sameId \in BOOLEAN : CreateProposal(t, p, targets, sameId)
  <2>1. \A p \in Proposal : proposal'[p].status \in Live =>
          proposal[p].status \in Live /\ proposal'[p].task = proposal[p].task
    BY <1>2, LiveBefore DEF SameRow
  <2>2. ASSUME NEW p \in Proposal, proposal'[p].status \in Live
        PROVE  task'[proposal'[p].task].status \notin Closed
    <3> DEFINE u == proposal[p].task
    <3>1. /\ proposal[p].status \in Live /\ proposal'[p].task = u
          /\ u \in Task /\ task[u].status \notin Closed
      BY <2>1, <2>2 DEF OneLiveProposal, Shape, Live, Pending
    <3>2. ASSUME CancelTask(u) PROVE FALSE
      <4>1. proposal' = [q \in Proposal |->
               IF proposal[q].task = u /\ proposal[q].status \in Live
               THEN [proposal[q] EXCEPT !.status = "rejected"] ELSE proposal[q]]
        BY <3>2 DEF CancelTask
      <4>2. proposal'[p] = [proposal[p] EXCEPT !.status = "rejected"]
        BY <3>1, <4>1
      <4>3. proposal[p] \in ProposalRow
        BY DEF TypeOK
      <4>4. proposal'[p].status = "rejected"
        BY <4>2, <4>3, RowType DEF Status
      <4> QED BY <2>2, <4>4 DEF Live, Pending
    <3>3. ASSUME NEW e \in Executor, NEW q \in Proposal, Apply(e, q),
                 proposal[q].task = u
          PROVE  FALSE
      <4>1. proposal[q].status = "approved" /\ proposal'[q].status = "done"
        BY <3>3, ApplyFacts DEF Forward
      <4>2. q = p
        BY <3>1, <3>3, <4>1 DEF OneLiveProposal, Live
      <4> QED BY <2>2, <4>1, <4>2 DEF Live, Pending
    <3>4. task'[u].status \in Closed <=> task[u].status \in Closed
      BY <3>1, <3>2, <3>3, TasksStep
    <3> QED BY <3>1, <3>4
  <2> QED BY <2>1, <2>2 DEF OneLiveProposal
<1> QED BY <1>1, <1>2

\* p holds the key of its operation o.
Holds(p, o, status) ==
  /\ ledger[o.key].holder = p
  /\ ledger[o.key].status = status
  /\ ledger[o.key].content = o.content

KeysOf(p) ==
  \A o \in proposal[p].ops :
    /\ proposal[p].status \in Pending => Holds(p, o, "reserved")
    /\ proposal[p].status = "approved" => Holds(p, o, "dispatching")
    /\ proposal[p].status = "done" => Holds(p, o, "verified")

LEMMA KeysForm == KeysFollowProposals <=> \A p \in Proposal : KeysOf(p)
BY DEF KeysFollowProposals, KeysOf, Holds

LEMMA OpsHaveKeys ==
  ASSUME TypeOK, NEW p \in Proposal, NEW o \in proposal[p].ops
  PROVE  o.key \in Key
BY DEF TypeOK, ProposalRow, Operation

\* The keys of p move, and those of nobody else.
LEMMA KeysMove ==
  ASSUME TypeOK, NEW p \in Proposal,
         NEW from \in {"reserved", "dispatching"},
         NEW to \in {"dispatching", "verified", "released"},
         ledger' = MoveKeys(p, from, to),
         NEW q \in Proposal, NEW o \in proposal[q].ops
  PROVE  /\ Holds(p, o, from) => Holds(p, o, to)'
         /\ \A s : Holds(q, o, s) /\ (q # p \/ s # from) => Holds(q, o, s)'
<1>1. o.key \in Key
  BY OpsHaveKeys
<1>2. \A k \in Key :
        /\ ledger'[k].holder = ledger[k].holder
        /\ ledger'[k].content = ledger[k].content
        /\ ledger'[k].status = IF /\ ledger[k].holder = p
                                  /\ ledger[k].status = from
                               THEN to ELSE ledger[k].status
  BY MoveKeysType
<1> QED BY <1>1, <1>2 DEF Holds

\* A key that a proposal holds is not taken from it: what is reserved is
\* reserved for a holder who let go of it.
LEMMA CreateKeepsKeys ==
  ASSUME TypeOK, KeysFollowProposals,
         NEW t \in Task, NEW p \in Proposal, NEW targets \in SUBSET Target,
         NEW sameId \in BOOLEAN, CreateProposal(t, p, targets, sameId),
         NEW q \in Proposal \ {p}, proposal'[q] = proposal[q],
         proposal[q].status \in Live \cup {"done"},
         NEW u \in proposal[q].ops
  PROVE  ledger'[u.key] = ledger[u.key]
<1>1. SUFFICES ASSUME NEW o \in OpsOn(targets), o.key = u.key
               PROVE  FALSE
  BY CreateRows, OpsHaveKeys
<1>2. Reservable(o, t, Superseded(t))
  BY DEF CreateProposal
<1>3. /\ ledger[u.key].holder = q
      /\ ledger[u.key].status \in {"reserved", "dispatching", "verified"}
      /\ proposal[q].status \notin Pending => ledger[u.key].status # "reserved"
  BY KeysForm DEF KeysOf, Holds, Live, Pending
<1>4. Superseded(t)[q].status = proposal[q].status
  BY CreateRows
<1> QED BY <1>1, <1>2, <1>3, <1>4 DEF Reservable, Live, Pending

LEMMA KeysStep ==
  ASSUME TypeOK, Shape, KeysFollowProposals, [Next]_vars
  PROVE  KeysFollowProposals'
<1>0. \A p \in Proposal : KeysOf(p)
  BY KeysForm
<1>1. (\A p \in Proposal : KeysOf(p)') => KeysFollowProposals'
  BY DEF KeysFollowProposals, KeysOf, Holds
<1>2. ASSUME NEW q \in Proposal, GivenUp(q)
      PROVE  KeysOf(q)'
  BY <1>2 DEF GivenUp, KeysOf, Live, Pending
<1>3. ASSUME NEW q \in Proposal, proposal'[q] = proposal[q],
             UNCHANGED ledger
      PROVE  KeysOf(q)'
  BY <1>0, <1>3 DEF KeysOf, Holds
<1>4. CASE Quiet
  BY <1>1, <1>3, <1>4 DEF Quiet
<1>5. CASE Drops
  BY <1>1, <1>2, <1>3, <1>5 DEF Drops
<1>6. ASSUME NEW t \in Task, NEW p \in Proposal, NEW targets \in SUBSET Target,
             NEW sameId \in BOOLEAN, CreateProposal(t, p, targets, sameId)
      PROVE  \A q \in Proposal : KeysOf(q)'
  <2>1. ASSUME NEW q \in Proposal \ {p}, proposal'[q] = proposal[q]
        PROVE  KeysOf(q)'
    <3>1. CASE proposal[q].status \in Live \cup {"done"}
      <4>1. \A o \in proposal[q].ops : ledger'[o.key] = ledger[o.key]
        BY <1>6, <2>1, <3>1, CreateKeepsKeys
      <4> QED BY <1>0, <2>1, <4>1 DEF KeysOf, Holds
    <3>2. CASE proposal[q].status \notin Live \cup {"done"}
      BY <2>1, <3>2 DEF KeysOf, Live
    <3> QED BY <3>1, <3>2
  <2>2. \A q \in Proposal \ {p} : KeptOrGivenUp(q)
    BY <1>6, CreateFacts
  <2>3. KeysOf(p)'
    <3>1. /\ proposal'[p].status = "pending_endorsement"
          /\ proposal'[p].ops = OpsOn(targets)
          /\ \A o \in OpsOn(targets) :
               /\ ledger'[o.key].status = "reserved"
               /\ ledger'[o.key].holder = p
               /\ ledger'[o.key].content = o.content
      BY <1>6, CreateRows
    <3> QED BY <3>1 DEF KeysOf, Holds, Pending
  <2> QED BY <1>2, <2>1, <2>2, <2>3 DEF KeptOrGivenUp
<1>7. ASSUME NEW p \in Proposal, NEW a \in Principal, Endorse(p, a)
      PROVE  \A q \in Proposal : KeysOf(q)'
  <2>1. /\ \A q \in Proposal \ {p} : proposal'[q] = proposal[q]
        /\ Forward(p, "pending_endorsement", "pending_approval")
        /\ UNCHANGED ledger
    BY <1>7, EndorseFacts
  <2>2. KeysOf(p)'
    BY <1>0, <2>1 DEF Forward, SameRow, KeysOf, Holds, Pending
  <2> QED BY <1>3, <2>1, <2>2
<1>8. ASSUME NEW p \in Proposal, NEW a \in Principal, Reject(p, a)
      PROVE  \A q \in Proposal : KeysOf(q)'
  <2>1. /\ \A q \in Proposal : KeptOrGivenUp(q)
        /\ proposal'[p].status \notin Pending
    BY <1>8, RejectFacts
  <2>2. ledger' = MoveKeys(p, "reserved", "released")
    BY <1>8 DEF Reject
  <2>3. ASSUME NEW q \in Proposal, proposal'[q] = proposal[q]
        PROVE  KeysOf(q)'
    <3>1. \A o \in proposal[q].ops : \A s :
            Holds(q, o, s) /\ (q # p \/ s # "reserved") => Holds(q, o, s)'
      BY <2>2, KeysMove
    <3> QED BY <1>0, <2>1, <2>3, <3>1 DEF KeysOf
  <2> QED BY <1>2, <2>1, <2>3 DEF KeptOrGivenUp
<1>9. ASSUME NEW p \in Proposal,
             NEW from \in {"reserved", "dispatching"},
             NEW to \in {"dispatching", "verified"},
             ledger' = MoveKeys(p, from, to),
             \A q \in Proposal \ {p} : proposal'[q] = proposal[q]
      PROVE  /\ \A q \in Proposal \ {p} : KeysOf(q)'
             /\ \A o \in proposal[p].ops : Holds(p, o, from) => Holds(p, o, to)'
  <2>1. \A q \in Proposal \ {p} : \A o \in proposal[q].ops : \A s :
          Holds(q, o, s) => Holds(q, o, s)'
    BY <1>9, KeysMove
  <2>2. \A o \in proposal[p].ops : Holds(p, o, from) => Holds(p, o, to)'
    BY <1>9, KeysMove
  <2> QED BY <1>0, <1>9, <2>1, <2>2 DEF KeysOf
<1>10. ASSUME NEW p \in Proposal, NEW a \in Principal, Approve(p, a)
       PROVE  \A q \in Proposal : KeysOf(q)'
  <2>1. /\ \A q \in Proposal \ {p} : proposal'[q] = proposal[q]
        /\ Forward(p, "pending_approval", "approved")
    BY <1>10, ApproveFacts
  <2>2. ledger' = MoveKeys(p, "reserved", "dispatching")
    BY <1>10 DEF Approve
  <2>3. /\ \A q \in Proposal \ {p} : KeysOf(q)'
        /\ \A o \in proposal[p].ops :
             Holds(p, o, "reserved") => Holds(p, o, "dispatching")'
    BY <1>9, <2>1, <2>2
  <2>4. KeysOf(p)'
    BY <1>0, <2>1, <2>3 DEF Forward, SameRow, KeysOf, Pending
  <2> QED BY <2>3, <2>4
<1>11. ASSUME NEW e \in Executor, NEW p \in Proposal, Apply(e, p)
       PROVE  \A q \in Proposal : KeysOf(q)'
  <2>1. /\ \A q \in Proposal \ {p} : proposal'[q] = proposal[q]
        /\ Forward(p, "approved", "done")
    BY <1>11, ApplyFacts
  <2>2. ledger' = MoveKeys(p, "dispatching", "verified")
    BY <1>11 DEF Apply
  <2>3. /\ \A q \in Proposal \ {p} : KeysOf(q)'
        /\ \A o \in proposal[p].ops :
             Holds(p, o, "dispatching") => Holds(p, o, "verified")'
    BY <1>9, <2>1, <2>2
  <2>4. KeysOf(p)'
    BY <1>0, <2>1, <2>3 DEF Forward, SameRow, KeysOf, Pending
  <2> QED BY <2>3, <2>4
<1> QED BY <1>1, <1>4, <1>5, <1>6, <1>7, <1>8, <1>10, <1>11, Classify
-----------------------------------------------------------------------------
(* Nobody's job is forgotten.                                              *)

Scheduled(p) == jobs[p] > 0 \/ \E e \in Executor : failing[e] = p

\* A step after which no approved proposal is done applies none.
LEMMA NoApply ==
  ASSUME TypeOK,
         \A r \in Proposal :
           proposal[r].status = "approved" => proposal'[r].status # "done"
  PROVE  ~ \E e \in Executor, r \in Proposal : Apply(e, r)
<1>1. SUFFICES ASSUME NEW e \in Executor, NEW r \in Proposal, Apply(e, r)
               PROVE  FALSE
  OBVIOUS
<1>2. Forward(r, "approved", "done")
  BY <1>1, ApplyFacts
<1> QED BY <1>2 DEF Forward

LEMMA DropsNoApply ==
  ASSUME TypeOK, Drops
  PROVE  ~ \E e \in Executor, r \in Proposal : Apply(e, r)
<1>1. \A r \in Proposal :
        proposal[r].status = "approved" => proposal'[r].status # "done"
  BY DEF Drops, KeptOrGivenUp, GivenUp
<1> QED BY <1>1, NoApply

\* Only AddDependency writes prerequisites.
LEMMA DependsStep ==
  ASSUME [Next]_vars
  PROVE  depends' = depends \/ \E t, u \in Task : AddDependency(t, u)
<1>1. ASSUME NEW p \in Proposal, NEW a \in Principal,
             Endorse(p, a) \/ Approve(p, a) \/ Reject(p, a)
      PROVE  depends' = depends
  BY <1>1 DEF Endorse, Approve, Reject
<1>2. ASSUME NEW e \in Executor, NEW p \in Proposal, Handle(e, p)
      PROVE  depends' = depends
  BY <1>2 DEF Handle, ExecuteNothing, ExecuteBlocked, ExecuteRefused,
              ExecuteStale, Apply
<1>3. ASSUME NEW e \in Executor, RecordAttention(e) \/ ExecutorDies(e)
      PROVE  depends' = depends
  BY <1>3 DEF RecordAttention, ExecutorDies
<1>4. ASSUME NEW t \in Task, NEW p \in Proposal, NEW targets \in SUBSET Target,
             NEW sameId \in BOOLEAN, CreateProposal(t, p, targets, sameId)
      PROVE  depends' = depends
  BY <1>4 DEF CreateProposal
<1>5. ASSUME NEW t \in Task, CancelTask(t) PROVE depends' = depends
  BY <1>5 DEF CancelTask
<1>6. ASSUME NEW p \in Proposal, Discard(p) PROVE depends' = depends
  BY <1>6 DEF Discard
<1>7. ASSUME NEW t \in Task, NEW a \in Principal, AcceptHandoff(t, a)
      PROVE  depends' = depends
  BY <1>7 DEF AcceptHandoff
<1>8. ASSUME NEW a \in Principal, Revoke(a) PROVE depends' = depends
  BY <1>8 DEF Revoke
<1> QED
  BY <1>1, <1>2, <1>3, <1>4, <1>5, <1>6, <1>7, <1>8 DEF Next, vars

\* A prerequisite is finished by the proposal that is applied and by no other
\* step.
LEMMA UnblockedBefore ==
  ASSUME TypeOK, [Next]_vars, NEW t \in Task, Unblocked(t)',
         ~ \E e \in Executor, q \in Proposal :
             Apply(e, q) /\ proposal[q].task \in Parents(t)
  PROVE  Unblocked(t)
<1>1. depends \subseteq depends'
  BY DependsStep DEF AddDependency
<1>2. Parents(t) \subseteq Parents(t)'
  BY <1>1 DEF Parents
<1>3. ASSUME NEW u \in Parents(t) PROVE task[u].status = "done"
  <2>1. u \in Task
    BY DEF Parents
  <2>2. task'[u].status = "done"
    BY <1>2 DEF Unblocked
  <2> QED BY <2>1, <2>2, TasksStep
<1> QED BY <1>3 DEF Unblocked

\* A job is taken away only by working it; a failure is forgotten only by
\* marking its proposal or dying.
LEMMA KeepsJobs ==
  ASSUME TypeOK, TypeOK', NEW p \in Proposal, Scheduled(p),
         jobs'[p] >= jobs[p],
         \A e \in Executor : failing[e] = p => failing'[e] = p
  PROVE  Scheduled(p)'
<1>1. jobs[p] \in Nat /\ jobs'[p] \in Nat
  BY DEF TypeOK
<1>2. CASE jobs[p] > 0
  <2>1. jobs'[p] > 0
    BY <1>1, <1>2
  <2> QED BY <2>1 DEF Scheduled
<1>3. CASE \E e \in Executor : failing[e] = p
  <2>1. \E e \in Executor : failing'[e] = p
    BY <1>3
  <2> QED BY <2>1 DEF Scheduled
<1> QED BY <1>2, <1>3 DEF Scheduled

LEMMA ApplyWakes ==
  ASSUME TypeOK, NEW e \in Executor, NEW q \in Proposal, Apply(e, q),
         NEW t \in Task, Unblocked(t)', task[t].status \notin Closed,
         NEW p \in Proposal \ {q}, proposal[p].status = "approved",
         proposal[p].task = t, proposal[q].task \in Parents(t)
  PROVE  jobs'[p] > 0
<1> DEFINE v == proposal[q].task
           W == Awaiting(v)
<1>1. /\ depends' = depends
      /\ task' = [task EXCEPT ![v].status = "done"]
      /\ Consume(q, W)
      /\ jobs[q] > 0
  BY DEF Apply, Delivered
<1>2. Parents(t)' = Parents(t)
  BY <1>1 DEF Parents
<1>3. ASSUME NEW u \in Parents(t) \ {v} PROVE task[u].status = "done"
  <2>1. u \in Task
    BY DEF Parents
  <2>2. task'[u].status = "done"
    BY <1>2 DEF Unblocked
  <2>3. task'[u] = task[u]
    BY <1>1, <2>1 DEF TypeOK
  <2> QED BY <2>2, <2>3
<1>4. W \in SUBSET Proposal /\ p \in W
  BY <1>3 DEF Awaiting
<1> HIDE DEF W
<1> QED BY <1>1, <1>4, ConsumeType

LEMMA HandleSchedules ==
  ASSUME TypeOK, TypeOK', OneLiveProposal, [Next]_vars,
         NEW e \in Executor, NEW q \in Proposal, Handle(e, q),
         NEW p \in Proposal, proposal[p].status = "approved",
         proposal'[p].status = "approved",
         NEW t \in Task, proposal[p].task = t, Unblocked(t)',
         Unblocked(t) => Scheduled(p)
  PROVE  Scheduled(p)'
<1>1. ASSUME NEW W \in SUBSET Proposal, Consume(q, W), jobs[q] > 0,
             failing' = failing, p # q, Unblocked(t)
      PROVE  Scheduled(p)'
  <2>1. jobs'[p] >= jobs[p]
    BY <1>1, ConsumeType
  <2> QED BY <1>1, <2>1, KeepsJobs
<1>2. jobs[q] > 0 /\ failing[e] = NoProposal
  BY DEF Handle, ExecuteNothing, ExecuteBlocked, ExecuteRefused, ExecuteStale,
         Apply, Delivered
<1>3. ASSUME ~ \E f \in Executor, r \in Proposal : Apply(f, r)
      PROVE  Unblocked(t)
  BY <1>3, UnblockedBefore
<1>4. CASE ExecuteNothing(e, q)
  <2>1. p # q /\ Consume(q, {}) /\ failing' = failing /\ proposal' = proposal
    BY <1>4 DEF ExecuteNothing, review
  <2>2. Unblocked(t)
    BY <1>3, <2>1, NoApply
  <2> QED BY <1>1, <1>2, <2>1, <2>2
<1>5. CASE ExecuteBlocked(e, q)
  <2>1. /\ Consume(q, {}) /\ failing' = failing /\ proposal' = proposal
        /\ ~Unblocked(proposal[q].task)
    BY <1>5 DEF ExecuteBlocked, review
  <2>2. Unblocked(t)
    BY <1>3, <2>1, NoApply
  <2>3. p # q
    BY <2>1, <2>2
  <2> QED BY <1>1, <1>2, <2>1, <2>2, <2>3
<1>6. CASE ExecuteRefused(e, q)
  <2>1. Consume(q, {}) /\ failing' = failing
    BY <1>6 DEF ExecuteRefused
  <2>2. Drops /\ p # q
    BY <1>6, ExecuteRefusedDrops
  <2>3. Unblocked(t)
    BY <1>3, <2>2, DropsNoApply
  <2> QED BY <1>1, <1>2, <2>1, <2>2, <2>3
<1>7. CASE ExecuteStale(e, q)
  <2>1. /\ failing' = [failing EXCEPT ![e] = q]
        /\ jobs' = [jobs EXCEPT ![q] = @ - 1]
        /\ proposal' = proposal
    BY <1>7 DEF ExecuteStale, review
  <2>2. CASE p = q
    <3>1. failing'[e] = p
      BY <2>1, <2>2 DEF TypeOK
    <3> QED BY <3>1 DEF Scheduled
  <2>3. CASE p # q
    <3>1. Unblocked(t)
      BY <1>3, <2>1, NoApply
    <3>2. jobs'[p] = jobs[p] /\ jobs[p] \in Nat
      BY <2>1, <2>3 DEF TypeOK
    <3>3. \A f \in Executor : failing[f] = p => failing'[f] = p
      BY <1>2, <2>1, GovernanceAssumption DEF TypeOK
    <3> QED BY <3>1, <3>2, <3>3, KeepsJobs
  <2> QED BY <2>2, <2>3
<1>8. CASE Apply(e, q)
  <2>1. Forward(q, "approved", "done")
    BY <1>8, ApplyFacts
  <2>2. /\ p # q
        /\ \A f \in Executor, r \in Proposal : Apply(f, r) => r = q
    <3>1. p # q
      BY <2>1 DEF Forward
    <3>2. ASSUME NEW f \in Executor, NEW r \in Proposal, Apply(f, r)
          PROVE  r = q
      <4>1. Forward(r, "approved", "done")
        BY <3>2, ApplyFacts
      <4>2. \A s \in Proposal \ {q} : proposal'[s] = proposal[s]
        BY <1>8, ApplyFacts
      <4> QED BY <4>1, <4>2 DEF Forward
    <3> QED BY <3>1, <3>2
  <2>3. CASE proposal[q].task \notin Parents(t)
    <3>1. Unblocked(t)
      BY <2>2, <2>3, UnblockedBefore
    <3>2. /\ Awaiting(proposal[q].task) \in SUBSET Proposal
          /\ Consume(q, Awaiting(proposal[q].task)) /\ failing' = failing
      BY <1>8 DEF Apply, Awaiting
    <3> QED BY <1>1, <1>2, <2>2, <3>1, <3>2
  <2>4. CASE proposal[q].task \in Parents(t)
    <3>1. task[t].status \notin Closed
      BY DEF OneLiveProposal, Live
    <3>2. jobs'[p] > 0
      BY <1>8, <2>2, <2>4, <3>1, ApplyWakes
    <3> QED BY <3>2 DEF Scheduled
  <2> QED BY <2>3, <2>4
<1> QED BY <1>4, <1>5, <1>6, <1>7, <1>8 DEF Handle

\* Preparing a proposal moves no other one forward.
LEMMA CreateOthers ==
  ASSUME TypeOK, NEW t \in Task, NEW q \in Proposal,
         NEW targets \in SUBSET Target, NEW sameId \in BOOLEAN,
         CreateProposal(t, q, targets, sameId)
  PROVE  \A r \in Proposal : \/ proposal'[r].status = "pending_endorsement"
                             \/ KeptOrGivenUp(r)
<1>1. proposal'[q].status = "pending_endorsement"
  BY CreateRow
<1>2. \A r \in Proposal \ {q} : KeptOrGivenUp(r)
  BY CreateFacts
<1> QED BY <1>1, <1>2

\* An approved proposal was approved before, or is so by this step.
LEMMA ApprovedBefore ==
  ASSUME TypeOK, [Next]_vars, NEW p \in Proposal,
         proposal'[p].status = "approved"
  PROVE  \/ proposal[p].status = "approved" /\ proposal'[p].task = proposal[p].task
         \/ \E a \in Principal : Approve(p, a)
<1> DEFINE Was == proposal[p].status = "approved" /\ proposal'[p].task = proposal[p].task
<1>1. KeptOrGivenUp(p) => Was
  BY DEF KeptOrGivenUp, GivenUp
<1>2. ASSUME NEW t \in Task, NEW q \in Proposal, NEW targets \in SUBSET Target,
             NEW sameId \in BOOLEAN, CreateProposal(t, q, targets, sameId)
      PROVE  Was
  BY <1>1, <1>2, CreateOthers
<1>3. ASSUME NEW q \in Proposal, NEW a \in Principal, Endorse(q, a) PROVE Was
  <2>1. Forward(q, "pending_endorsement", "pending_approval")
    BY <1>3, EndorseFacts
  <2>2. \A r \in Proposal \ {q} : proposal'[r] = proposal[r]
    BY <1>3, EndorseFacts
  <2>3. p # q
    BY <2>1 DEF Forward
  <2> QED BY <2>2, <2>3
<1>4. ASSUME NEW q \in Proposal, NEW a \in Principal, Reject(q, a) PROVE Was
  BY <1>1, <1>4, RejectFacts
<1>5. ASSUME NEW q \in Proposal, NEW a \in Principal, Approve(q, a)
      PROVE  Was \/ q = p
  <2>1. \A r \in Proposal \ {q} : proposal'[r] = proposal[r]
    BY <1>5, ApproveFacts
  <2> QED BY <2>1
<1>6. ASSUME NEW e \in Executor, NEW q \in Proposal, Apply(e, q) PROVE Was
  <2>1. Forward(q, "approved", "done")
    BY <1>6, ApplyFacts
  <2>2. \A r \in Proposal \ {q} : proposal'[r] = proposal[r]
    BY <1>6, ApplyFacts
  <2>3. p # q
    BY <2>1 DEF Forward
  <2> QED BY <2>2, <2>3
<1>7. Quiet => Was
  BY DEF Quiet
<1>8. Drops => Was
  BY DEF Drops, GivenUp
<1> QED BY <1>2, <1>3, <1>4, <1>5, <1>6, <1>7, <1>8, Classify

LEMMA ScheduledStep ==
  ASSUME TypeOK, TypeOK', Shape, OneLiveProposal, ApprovedIsScheduled, [Next]_vars
  PROVE  ApprovedIsScheduled'
<1>1. SUFFICES ASSUME NEW p \in Proposal, proposal'[p].status = "approved",
                      NEW t, t = proposal'[p].task,
                      Unblocked(t)', discarded' = 0
               PROVE  Scheduled(p)'
  <2>1. \A p \in Proposal : Unblocked(proposal[p].task)' =>
          \A t : t = proposal'[p].task => Unblocked(t)'
    BY DEF Unblocked, Parents
  <2> QED BY <2>1 DEF ApprovedIsScheduled, Scheduled
<1>2. ASSUME NEW a \in Principal, Approve(p, a) PROVE Scheduled(p)'
  <2>1. jobs' = [jobs EXCEPT ![p] = @ + 1]
    BY <1>2, ApproveFacts
  <2>2. jobs'[p] > 0
    BY <2>1 DEF TypeOK
  <2> QED BY <2>2 DEF Scheduled
<1>3. SUFFICES ASSUME proposal[p].status = "approved", t = proposal[p].task
               PROVE  Scheduled(p)'
  BY <1>1, <1>2, ApprovedBefore
<1>4. t \in Task
  BY <1>3 DEF Shape
<1>5. ASSUME discarded = 0, Unblocked(t) PROVE Scheduled(p)
  BY <1>3, <1>5 DEF ApprovedIsScheduled, Scheduled
<1>6. ASSUME discarded' = discarded, jobs'[p] >= jobs[p],
             \A e \in Executor : failing[e] = p => failing'[e] = p,
             ~ \E e \in Executor, q \in Proposal : Apply(e, q)
      PROVE  Scheduled(p)'
  <2>1. Unblocked(t)
    BY <1>1, <1>4, <1>6, UnblockedBefore
  <2>2. Scheduled(p)
    BY <1>1, <1>5, <1>6, <2>1
  <2> QED BY <1>6, <2>2, KeepsJobs
<1>7. ASSUME NEW e \in Executor, NEW q \in Proposal, Handle(e, q)
      PROVE  Scheduled(p)'
  <2>1. discarded' = discarded
    BY <1>7 DEF Handle, ExecuteNothing, ExecuteBlocked, ExecuteRefused,
       ExecuteStale, Apply, budget
  <2>2. Unblocked(t) => Scheduled(p)
    BY <1>1, <1>5, <2>1
  <2> QED BY <1>1, <1>3, <1>4, <1>7, <2>2, HandleSchedules
<1>8. ASSUME NEW e \in Executor, RecordAttention(e) PROVE Scheduled(p)'
  <2>1. p # failing[e]
    BY <1>1, <1>8, RecordAttentionDrops
  <2>2. ~ \E f \in Executor, q \in Proposal : Apply(f, q)
    BY <1>8, RecordAttentionDrops, DropsNoApply
  <2>3. /\ jobs' = jobs /\ discarded' = discarded
        /\ failing' = [failing EXCEPT ![e] = NoProposal]
    BY <1>8 DEF RecordAttention, budget
  <2>4. \A f \in Executor : failing[f] = p => failing'[f] = p
    BY <2>1, <2>3 DEF TypeOK
  <2>5. jobs'[p] >= jobs[p]
    BY <2>3 DEF TypeOK
  <2> QED BY <1>6, <2>2, <2>3, <2>4, <2>5
<1>9. ASSUME NEW e \in Executor, ExecutorDies(e) PROVE Scheduled(p)'
  <2>1. /\ failing[e] \in Proposal /\ discarded' = discarded
        /\ jobs' = [jobs EXCEPT ![failing[e]] = @ + 1]
        /\ failing' = [failing EXCEPT ![e] = NoProposal]
        /\ proposal' = proposal
    BY <1>9 DEF ExecutorDies, TypeOK, review
  <2>2. CASE p = failing[e]
    <3>1. jobs'[p] > 0
      BY <2>1, <2>2 DEF TypeOK
    <3> QED BY <3>1 DEF Scheduled
  <2>3. CASE p # failing[e]
    <3>1. jobs'[p] >= jobs[p]
      BY <2>1, <2>3 DEF TypeOK
    <3>2. \A f \in Executor : failing[f] = p => failing'[f] = p
      BY <2>1, <2>3 DEF TypeOK
    <3>3. ~ \E f \in Executor, q \in Proposal : Apply(f, q)
      BY <2>1, NoApply
    <3> QED BY <1>6, <2>1, <3>1, <3>2, <3>3
  <2> QED BY <2>2, <2>3
<1>10. ASSUME NEW q \in Proposal, Discard(q) PROVE FALSE
  <2>1. discarded' = discarded + 1 /\ discarded \in Nat
    BY <1>10 DEF Discard, TypeOK
  <2> QED BY <1>1, <2>1
<1>11. ASSUME NEW q \in Proposal, NEW a \in Principal, Approve(q, a)
       PROVE  Scheduled(p)'
  <2>1. Forward(q, "pending_approval", "approved")
    BY <1>11, ApproveFacts
  <2>2. /\ jobs' = [jobs EXCEPT ![q] = @ + 1]
        /\ failing' = failing /\ discarded' = discarded
    BY <1>11, ApproveFacts
  <2>3. \A r \in Proposal \ {q} : proposal'[r] = proposal[r]
    BY <1>11, ApproveFacts
  <2>4. ~ \E f \in Executor, r \in Proposal : Apply(f, r)
    <3>1. \A r \in Proposal :
            proposal[r].status = "approved" => proposal'[r].status # "done"
      BY <2>1, <2>3 DEF Forward
    <3> QED BY <3>1, NoApply
  <2>5. jobs'[p] >= jobs[p]
    BY <2>2 DEF TypeOK
  <2> QED BY <1>6, <2>2, <2>4, <2>5
<1>12. ASSUME jobs' = jobs, failing' = failing, discarded' = discarded
       PROVE  Scheduled(p)'
  <2>1. jobs'[p] >= jobs[p]
    BY <1>12 DEF TypeOK
  <2>2. CASE \E e \in Executor, q \in Proposal : Handle(e, q)
    BY <1>7, <2>2
  <2>3. CASE ~ \E e \in Executor, q \in Proposal : Handle(e, q)
    <3>1. ~ \E e \in Executor, q \in Proposal : Apply(e, q)
      BY <2>3 DEF Handle
    <3> QED BY <1>6, <1>12, <2>1, <3>1
  <2> QED BY <2>2, <2>3
<1>13. [\E e \in Executor, q \in Proposal : Handle(e, q)]_vars
       \/ (\E e \in Executor : RecordAttention(e) \/ ExecutorDies(e))
       \/ (\E q \in Proposal : Discard(q))
       \/ (\E q \in Proposal, a \in Principal : Approve(q, a))
       \/ (jobs' = jobs /\ failing' = failing /\ discarded' = discarded)
  BY DEF Next, vars, AddDependency, CancelTask, AcceptHandoff, Revoke,
         CreateProposal, Endorse, Reject, budget
<1> QED BY <1>7, <1>8, <1>9, <1>10, <1>11, <1>12, <1>13 DEF vars
-----------------------------------------------------------------------------
(* Theorems.                                                               *)

LEMMA InitIInv == Init => IInv
<1> SUFFICES ASSUME Init PROVE IInv
  OBVIOUS
<1> USE GovernanceAssumption
<1>1. \A p \in Proposal : /\ proposal[p] \in ProposalRow
                          /\ proposal[p].status = "absent"
                          /\ proposal[p].ops = {}
                          /\ authorized[p] = {}
  BY DEF Init, AbsentProposal, ProposalRow
<1>2. \A k \in Key : ledger[k] \in LedgerRow
  BY DEF Init, FreeKey, LedgerRow
<1>3. TypeOK
  <2>1. proposal \in [Proposal -> ProposalRow] /\ ledger \in [Key -> LedgerRow]
    BY <1>1, <1>2 DEF Init
  <2>2. task \in [Task -> TaskRow]
    BY DEF Init, TaskRow
  <2>3. /\ decisions \in [Proposal ->
             SUBSET (Principal \X {"endorse", "approve", "reject"})]
        /\ authorized \in [Proposal -> SUBSET Operation]
        /\ version \in [Record -> Nat]
        /\ receipts \in SUBSET Receipt
        /\ depends \in SUBSET (Task \X Task)
        /\ active \in SUBSET Principal
    BY DEF Init
  <2>4. /\ jobs \in [Proposal -> Nat]
        /\ failing \in [Executor -> Proposal \cup {NoProposal}]
        /\ faults \in Nat /\ discarded \in Nat /\ moves \in Nat /\ repeats \in Nat
    BY DEF Init
  <2> QED BY <2>1, <2>2, <2>3, <2>4 DEF TypeOK
<1>4. Shape /\ Authority /\ Reviewed
  BY <1>1 DEF Shape, Authority, Reviewed
<1>5. ReceiptsBelong
  BY DEF Init, ReceiptsBelong
<1>6. OneLiveProposal /\ KeysFollowProposals /\ ApprovedIsScheduled
  BY <1>1 DEF OneLiveProposal, KeysFollowProposals, ApprovedIsScheduled, Live,
              Pending
<1>7. RecordsAreSerial
  BY DEF Init, RecordsAreSerial
<1>8. AllOrNothing
  BY <1>1 DEF Init, AllOrNothing
<1> QED BY <1>3, <1>4, <1>5, <1>6, <1>7, <1>8 DEF IInv

LEMMA StepIInv == IInv /\ [Next]_vars => IInv'
<1> SUFFICES ASSUME IInv, [Next]_vars PROVE IInv'
  OBVIOUS
<1>1. /\ TypeOK /\ Shape /\ Authority /\ Reviewed /\ ReceiptsBelong
      /\ OneLiveProposal /\ KeysFollowProposals /\ RecordsAreSerial
      /\ AllOrNothing /\ ApprovedIsScheduled
  BY DEF IInv
<1>2. TypeOK'
  BY <1>1, TypeStep
<1>3. Shape' /\ Authority' /\ Reviewed'
  BY <1>1, ShapeStep, AuthorityStep, ReviewedStep
<1>4. ReceiptsBelong' /\ AllOrNothing'
  BY <1>1, ReceiptsStep, AllOrNothingStep
<1>5. OneLiveProposal' /\ KeysFollowProposals'
  BY <1>1, OneLiveStep, KeysStep
<1>6. RecordsAreSerial' /\ ApprovedIsScheduled'
  BY <1>1, <1>2, SerialStep, ScheduledStep
<1> QED BY <1>2, <1>3, <1>4, <1>5, <1>6 DEF IInv

\* Everything createProposalTx, the decisions and the executor preserve
\* together: types, what proposals, effects, decisions, receipts and the
\* ledger say of each other, and that no approved proposal is forgotten.
THEOREM Invariance == Spec => []IInv
BY InitIInv, StepIInv, PTL DEF Spec

\* Every row and every counter keeps the form the schema gives it.
THEOREM TypeCorrect == Spec => []TypeOK
<1>1. IInv => TypeOK
  BY DEF IInv
<1> QED BY <1>1, Invariance, PTL

\* createProposalTx leaves a task one live proposal, and closing a task none.
THEOREM LiveProposalsAreUnique == Spec => []OneLiveProposal
<1>1. IInv => OneLiveProposal
  BY DEF IInv
<1> QED BY <1>1, Invariance, PTL

\* Whatever supersedes, rejects, cancels or retries, business_operations says
\* who holds a key and how far it is.
THEOREM LedgerFollowsProposals == Spec => []KeysFollowProposals
<1>1. IInv => KeysFollowProposals
  BY DEF IInv
<1> QED BY <1>1, Invariance, PTL

\* Two receipts of one key would be two operations of the proposal that holds
\* it.
LEMMA OneReceiptPerKey ==
  ASSUME TypeOK, Shape, ReceiptsBelong, KeysFollowProposals,
         NEW x \in receipts, NEW y \in receipts, x.op.key = y.op.key
  PROVE  x = y
<1>1. /\ x \in Receipt /\ y \in Receipt
      /\ x.proposal \in Proposal /\ y.proposal \in Proposal
  BY DEF TypeOK, Receipt
<1>2. /\ proposal[x.proposal].status = "done"
      /\ x.op \in proposal[x.proposal].ops
      /\ x.version = x.op.content.version + 1
  BY DEF ReceiptsBelong
<1>3. /\ proposal[y.proposal].status = "done"
      /\ y.op \in proposal[y.proposal].ops
      /\ y.version = y.op.content.version + 1
  BY DEF ReceiptsBelong
<1>4. /\ ledger[x.op.key].holder = x.proposal
      /\ ledger[y.op.key].holder = y.proposal
  BY <1>1, <1>2, <1>3 DEF KeysFollowProposals
<1>5. x.proposal = y.proposal
  BY <1>4
<1>6. x.op = y.op
  BY <1>1, <1>2, <1>3, <1>5 DEF Shape
<1> QED BY <1>1, <1>2, <1>3, <1>5, <1>6 DEF Receipt

\* The executor never applies a business key twice: not for a retried job, not
\* for a revision, not for another task.
THEOREM KeysAreAppliedOnce == Spec => []KeyAppliedOnce
<1>1. IInv => KeyAppliedOnce
  BY OneReceiptPerKey DEF IInv, KeyAppliedOnce
<1> QED BY <1>1, Invariance, PTL

\* simulator_records changes only from the version a proposal was prepared for
\* and leaves one receipt for each version.
THEOREM UpdatesAreSerial == Spec => []RecordsAreSerial
<1>1. IInv => RecordsAreSerial
  BY DEF IInv
<1> QED BY <1>1, Invariance, PTL

\* The effects of a proposal are confirmed in the transaction that finishes it:
\* all of them or none.
THEOREM ProposalsAreAtomic == Spec => []AllOrNothing
<1>1. IInv => AllOrNothing
  BY DEF IInv
<1> QED BY <1>1, Invariance, PTL

\* No receipt without the endorsement of the person who prepared the change and
\* the approval of another one who may approve.
THEOREM AppliedWorkIsReviewed == Spec => []AppliedByTwoPeople
<1>1. ASSUME IInv PROVE AppliedByTwoPeople
  <2>1. TypeOK /\ Reviewed /\ ReceiptsBelong
    BY <1>1 DEF IInv
  <2>2. \A x \in receipts : x.proposal \in Proposal
    BY <2>1 DEF TypeOK, Receipt
  <2> QED BY <2>1, <2>2 DEF Reviewed, ReceiptsBelong, AppliedByTwoPeople
<1> QED BY <1>1, Invariance, PTL

\* The executor drops the job of a proposal that waits, and executeClaimed
\* inserts it again for the last prerequisite: with no discarded job, an
\* approved proposal that waits for nothing is on its way.
THEOREM ApprovedIsNeverForgotten == Spec => []ApprovedIsScheduled
<1>1. IInv => ApprovedIsScheduled
  BY DEF IInv
<1> QED BY <1>1, Invariance, PTL

\* Only Apply finishes a proposal.
LEMMA FinishedBy ==
  ASSUME TypeOK, [Next]_vars, NEW p \in Proposal,
         proposal'[p].status = "done", proposal[p].status # "done"
  PROVE  \E e \in Executor : Apply(e, p)
<1>1. SUFFICES ASSUME ~ \E e \in Executor : Apply(e, p)
               PROVE  proposal'[p].status # "done"
  BY <1>1
<1>2. KeptOrGivenUp(p) => proposal'[p].status # "done"
  BY DEF KeptOrGivenUp, GivenUp
<1>3. ASSUME NEW t \in Task, NEW q \in Proposal, NEW targets \in SUBSET Target,
             NEW sameId \in BOOLEAN, CreateProposal(t, q, targets, sameId)
      PROVE  proposal'[p].status # "done"
  BY <1>2, <1>3, CreateOthers
<1>4. ASSUME NEW q \in Proposal, NEW a \in Principal, Endorse(q, a)
      PROVE  proposal'[p].status # "done"
  <2>1. Forward(q, "pending_endorsement", "pending_approval")
    BY <1>4, EndorseFacts
  <2>2. \A r \in Proposal \ {q} : proposal'[r] = proposal[r]
    BY <1>4, EndorseFacts
  <2> QED BY <2>1, <2>2 DEF Forward
<1>5. ASSUME NEW q \in Proposal, NEW a \in Principal, Approve(q, a)
      PROVE  proposal'[p].status # "done"
  <2>1. Forward(q, "pending_approval", "approved")
    BY <1>5, ApproveFacts
  <2>2. \A r \in Proposal \ {q} : proposal'[r] = proposal[r]
    BY <1>5, ApproveFacts
  <2> QED BY <2>1, <2>2 DEF Forward
<1>6. ASSUME NEW q \in Proposal, NEW a \in Principal, Reject(q, a)
      PROVE  proposal'[p].status # "done"
  BY <1>2, <1>6, RejectFacts
<1>7. ASSUME NEW e \in Executor, NEW q \in Proposal, Apply(e, q)
      PROVE  proposal'[p].status # "done"
  <2>1. \A r \in Proposal \ {q} : proposal'[r] = proposal[r]
    BY <1>7, ApplyFacts
  <2>2. p # q
    BY <1>1, <1>7
  <2> QED BY <2>1, <2>2
<1>8. Quiet => proposal'[p].status # "done"
  BY DEF Quiet
<1>9. Drops => proposal'[p].status # "done"
  BY DEF Drops, GivenUp
<1> QED BY <1>3, <1>4, <1>5, <1>6, <1>7, <1>8, <1>9, Classify

\* executeClaimed asks again for the prerequisites, the owner and the approver
\* in the transaction that applies, whatever changed since the approval.
THEOREM AppliedAfterItsPrerequisites == Spec => AppliesInOrder
<1>1. ASSUME TypeOK, [Next]_vars
      PROVE  \A p \in Proposal : AppliedInOrder(p)
  <2>1. SUFFICES ASSUME NEW p \in Proposal, proposal'[p].status = "done",
                        proposal[p].status # "done"
                 PROVE  /\ proposal[p].status = "approved"
                        /\ Unblocked(proposal[p].task)
                        /\ task[proposal[p].task].owner \in active
                        /\ DecidedBy(p, "approve", active \cap Approver)
    BY DEF AppliedInOrder
  <2>2. PICK e \in Executor : Apply(e, p)
    BY <1>1, <2>1, FinishedBy
  <2> QED BY <2>2 DEF Apply, Permitted
<1>2. TypeOK /\ [Next]_vars => [\A p \in Proposal : AppliedInOrder(p)]_vars
  BY <1>1
<1> QED BY <1>2, TypeCorrect, PTL DEF Spec, AppliesInOrder
-----------------------------------------------------------------------------
(* Prerequisites.                                                          *)

LEMMA AncestryClosed ==
  ASSUME NEW t \in Task
  PROVE  /\ Ancestry(t) \in SUBSET Task /\ t \in Ancestry(t)
         /\ \A v \in Ancestry(t) : Parents(v) \subseteq Ancestry(t)
<1>1. \A v : Parents(v) \subseteq Task
  BY DEF Parents
<1> QED BY <1>1 DEF Ancestry

LEMMA AncestryLeast ==
  ASSUME NEW t \in Task, NEW S \in SUBSET Task, t \in S,
         \A v \in S : Parents(v) \subseteq S
  PROVE  Ancestry(t) \subseteq S
BY DEF Ancestry

LEMMA CycleStep ==
  ASSUME NoDependencyCycle, NEW t \in Task, NEW u \in Task,
         AddDependency(t, u)
  PROVE  NoDependencyCycle'
<1>1. /\ t \notin Ancestry(u)
      /\ \A v \in Task : Parents(v)' = IF v = t THEN Parents(v) \cup {u}
                                                ELSE Parents(v)
  BY DEF AddDependency, Parents
<1>2. SUFFICES ASSUME NEW x \in Task, NEW y \in Parents(x)'
               PROVE  \E S \in SUBSET Task :
                        /\ y \in S /\ x \notin S
                        /\ \A v \in S : Parents(v)' \subseteq S
  BY DEF NoDependencyCycle, Ancestry
<1>3. y \in Task
  BY DEF Parents
<1>4. /\ Ancestry(u) \in SUBSET Task /\ u \in Ancestry(u)
      /\ \A v \in Ancestry(u) : Parents(v) \subseteq Ancestry(u)
  BY AncestryClosed
<1>5. /\ Ancestry(y) \in SUBSET Task /\ y \in Ancestry(y)
      /\ \A v \in Ancestry(y) : Parents(v) \subseteq Ancestry(y)
  BY <1>3, AncestryClosed
<1>6. CASE y \notin Parents(x)
  <2>1. x = t /\ y = u
    BY <1>1, <1>6
  <2>2. \A v \in Ancestry(u) : Parents(v)' \subseteq Ancestry(u)
    BY <1>1, <1>4
  <2> QED BY <1>1, <1>4, <2>1, <2>2
<1>7. CASE y \in Parents(x) /\ t \notin Ancestry(y)
  <2>1. x \notin Ancestry(y)
    BY <1>7 DEF NoDependencyCycle
  <2>2. \A v \in Ancestry(y) : Parents(v)' \subseteq Ancestry(y)
    BY <1>1, <1>5, <1>7
  <2> QED BY <1>5, <2>1, <2>2
<1>8. CASE y \in Parents(x) /\ t \in Ancestry(y)
  <2> DEFINE S == Ancestry(y) \cup Ancestry(u)
  <2>1. x \notin Ancestry(y)
    BY <1>8 DEF NoDependencyCycle
  <2>2. x \notin Ancestry(u)
    <3>1. SUFFICES ASSUME x \in Ancestry(u) PROVE FALSE
      OBVIOUS
    <3>2. y \in Ancestry(u)
      BY <1>4, <1>8, <3>1
    <3>3. Ancestry(y) \subseteq Ancestry(u)
      BY <1>3, <1>4, <3>2, AncestryLeast
    <3> QED BY <1>1, <1>8, <3>3
  <2>3. \A v \in S : Parents(v)' \subseteq S
    BY <1>1, <1>4, <1>5
  <2>4. S \in SUBSET Task /\ y \in S /\ x \notin S
    BY <1>4, <1>5, <2>1, <2>2
  <2> HIDE DEF S
  <2> QED BY <2>3, <2>4
<1> QED BY <1>6, <1>7, <1>8

\* The recursive query of AddDependency is enough to keep the prerequisites of
\* any number of tasks free of cycles.
THEOREM DependenciesAreAcyclic == Spec => []NoDependencyCycle
<1>1. Init => NoDependencyCycle
  BY DEF Init, NoDependencyCycle, Parents
<1>2. NoDependencyCycle /\ [Next]_vars => NoDependencyCycle'
  <2> SUFFICES ASSUME NoDependencyCycle, [Next]_vars PROVE NoDependencyCycle'
    OBVIOUS
  <2>1. CASE \E t, u \in Task : AddDependency(t, u)
    BY <2>1, CycleStep
  <2>2. CASE depends' = depends
    BY <2>2 DEF NoDependencyCycle, Ancestry, Parents
  <2> QED BY <2>1, <2>2, DependsStep
<1> QED BY <1>1, <1>2, PTL DEF Spec
-----------------------------------------------------------------------------
(***************************************************************************)
(* Governance implements GovernedChange: seen through the phase of each    *)
(* change, what it was prepared with, the versions of the records and the  *)
(* keys that were applied, the ledger of reservations, the queue and the   *)
(* executors cannot be observed.                                           *)
(***************************************************************************)

PhaseMap   == [p \in Proposal |-> Phase(p)]
ContentMap == [p \in Proposal |-> proposal[p].ops]
UsedKeys   == {x.op.key : x \in receipts}

\* The phase each status shows, before a step and after it.
LEMMA PhaseOf ==
  ASSUME NEW p \in Proposal
  PROVE  /\ proposal[p].status = "absent" => Phase(p) = "absent"
         /\ proposal[p].status = "pending_endorsement" => Phase(p) = "prepared"
         /\ proposal[p].status = "pending_approval" => Phase(p) = "endorsed"
         /\ proposal[p].status = "approved" => Phase(p) = "approved"
         /\ proposal[p].status = "done" => Phase(p) = "applied"
         /\ proposal[p].status \in {"rejected", "superseded", "needs_attention"}
              => Phase(p) = "dropped"
BY DEF Phase

LEMMA PhaseOfNext ==
  ASSUME NEW p \in Proposal
  PROVE  /\ proposal'[p].status = "absent" => Phase(p)' = "absent"
         /\ proposal'[p].status = "pending_endorsement" => Phase(p)' = "prepared"
         /\ proposal'[p].status = "pending_approval" => Phase(p)' = "endorsed"
         /\ proposal'[p].status = "approved" => Phase(p)' = "approved"
         /\ proposal'[p].status = "done" => Phase(p)' = "applied"
         /\ proposal'[p].status \in {"rejected", "superseded", "needs_attention"}
              => Phase(p)' = "dropped"
BY DEF Phase

\* What is given up was in review, and nothing else of it is seen to change.
LEMMA GivenUpIsDropped ==
  ASSUME NEW p \in Proposal, GivenUp(p)
  PROVE  /\ Phase(p) \in Change!InReview
         /\ Phase(p)' = "dropped"
         /\ proposal'[p].ops = proposal[p].ops
<1>1. /\ proposal[p].status \in Live
      /\ proposal'[p].status \in {"rejected", "superseded", "needs_attention"}
      /\ proposal'[p].ops = proposal[p].ops
  BY DEF GivenUp, SameRow
<1>2. Phase(p) \in Change!InReview
  BY <1>1, PhaseOf DEF Live, Pending, Change!InReview
<1> QED BY <1>1, <1>2, PhaseOfNext

LEMMA KeptIsSame ==
  ASSUME NEW p \in Proposal, proposal'[p] = proposal[p]
  PROVE  Phase(p)' = Phase(p) /\ proposal'[p].ops = proposal[p].ops
BY DEF Phase

\* One proposal changes its phase and nothing else is seen.
LEMMA OnePhase ==
  ASSUME NEW p \in Proposal, proposal'[p].ops = proposal[p].ops,
         \A q \in Proposal \ {p} : proposal'[q] = proposal[q]
  PROVE  /\ PhaseMap' = [PhaseMap EXCEPT ![p] = Phase(p)']
         /\ ContentMap' = ContentMap
<1>1. \A q \in Proposal \ {p} : Phase(q)' = Phase(q)
  BY KeptIsSame
<1>2. \A q \in Proposal : proposal'[q].ops = proposal[q].ops
  OBVIOUS
<1> QED BY <1>1, <1>2 DEF PhaseMap, ContentMap

LEMMA DropMaps ==
  ASSUME \A p \in Proposal : KeptOrGivenUp(p), UNCHANGED <<version, receipts>>
  PROVE  Change!Drop
<1> DEFINE D == {p \in Proposal : GivenUp(p)}
<1>1. \A p \in Proposal :
        Phase(p)' = IF p \in D /\ Phase(p) \in Change!InReview
                    THEN "dropped" ELSE Phase(p)
  BY GivenUpIsDropped, KeptIsSame DEF KeptOrGivenUp
<1>2. \A p \in Proposal : proposal'[p].ops = proposal[p].ops
  BY GivenUpIsDropped DEF KeptOrGivenUp
<1>3. D \in SUBSET Proposal
  OBVIOUS
<1>4. PhaseMap' = [p \in Proposal |->
         IF p \in D /\ PhaseMap[p] \in Change!InReview
         THEN "dropped" ELSE PhaseMap[p]]
  BY <1>1 DEF PhaseMap
<1>5. ContentMap' = ContentMap /\ UsedKeys' = UsedKeys
  BY <1>2 DEF ContentMap, UsedKeys
<1> HIDE DEF D
<1> QED
  BY <1>3, <1>4, <1>5
     DEF Change!Drop, Change!Dropped, PhaseMap, ContentMap, UsedKeys

\* An applied key is a verified one.
LEMMA UsedIsVerified ==
  ASSUME TypeOK, ReceiptsBelong, KeysFollowProposals, NEW k \in UsedKeys
  PROVE  ledger[k].status = "verified"
<1>1. PICK x \in receipts : x.op.key = k
  BY DEF UsedKeys
<1>2. x.proposal \in Proposal
  BY DEF TypeOK, Receipt
<1>3. proposal[x.proposal].status = "done" /\ x.op \in proposal[x.proposal].ops
  BY DEF ReceiptsBelong
<1> QED BY <1>1, <1>2, <1>3 DEF KeysFollowProposals

LEMMA PrepareMaps ==
  ASSUME IInv, NEW t \in Task, NEW p \in Proposal,
         NEW targets \in SUBSET Target, NEW sameId \in BOOLEAN,
         CreateProposal(t, p, targets, sameId)
  PROVE  Change!Prepare(p)
<1> DEFINE D == {q \in Proposal \ {p} : GivenUp(q)}
<1>1. /\ TypeOK /\ ReceiptsBelong /\ KeysFollowProposals
  BY DEF IInv
<1>2. /\ proposal[p].status = "absent"
      /\ proposal'[p].status = "pending_endorsement"
      /\ proposal'[p].ops = OpsOn(targets)
  BY <1>1, CreateRow
<1>3. \A q \in Proposal \ {p} : KeptOrGivenUp(q)
  BY <1>1, CreateFacts
<1>4. UNCHANGED <<version, receipts>>
  BY DEF CreateProposal, records
<1>5. Phase(p) = "absent" /\ Phase(p)' = "prepared"
  BY <1>2, PhaseOf, PhaseOfNext
<1>6. \A q \in Proposal \ {p} :
        /\ Phase(q)' = IF q \in D /\ Phase(q) \in Change!InReview
                       THEN "dropped" ELSE Phase(q)
        /\ proposal'[q].ops = proposal[q].ops
  BY <1>3, GivenUpIsDropped, KeptIsSame DEF KeptOrGivenUp
<1>7. /\ targets # {}
      /\ \A o \in OpsOn(targets) : Reservable(o, t, Superseded(t))
  BY DEF CreateProposal
<1>8. OpsOn(targets) # {} /\ \A o \in OpsOn(targets) : Change!Current(o)
  BY <1>1, <1>7, OpsOnType DEF Change!Current
<1>9. \A o \in OpsOn(targets) : o.key \notin UsedKeys
  BY <1>1, <1>7, UsedIsVerified DEF Reservable
<1>10. D \in SUBSET Proposal
  OBVIOUS
<1> HIDE DEF D
<1>11. PhaseMap' = [[q \in Proposal |->
          IF q \in D /\ PhaseMap[q] \in Change!InReview
          THEN "dropped" ELSE PhaseMap[q]] EXCEPT ![p] = "prepared"]
  BY <1>5, <1>6 DEF PhaseMap
<1>12. /\ ContentMap' = [ContentMap EXCEPT ![p] = ContentMap'[p]]
       /\ ContentMap'[p] = OpsOn(targets)
  BY <1>2, <1>6 DEF ContentMap
<1>13. UsedKeys' = UsedKeys
  BY <1>4 DEF UsedKeys
<1>14. PhaseMap[p] = "absent"
  BY <1>5 DEF PhaseMap
<1> QED
  BY <1>4, <1>8, <1>9, <1>10, <1>11, <1>12, <1>13, <1>14
     DEF Change!Prepare, Change!Dropped, PhaseMap, ContentMap, UsedKeys

LEMMA ApplyMaps ==
  ASSUME IInv, NEW e \in Executor, NEW p \in Proposal, Apply(e, p)
  PROVE  Change!Apply(p)
<1> DEFINE ops == authorized[p]
<1>1. /\ TypeOK /\ Authority /\ ReceiptsBelong /\ KeysFollowProposals
  BY DEF IInv
<1>2. Forward(p, "approved", "done")
  BY <1>1, ApplyFacts
<1>3. \A q \in Proposal \ {p} : proposal'[q] = proposal[q]
  BY <1>1, ApplyFacts
<1>4. /\ proposal[p].status = "approved" /\ proposal'[p].status = "done"
      /\ proposal'[p].ops = proposal[p].ops
  BY <1>2 DEF Forward, SameRow
<1>5. Phase(p) = "approved" /\ Phase(p)' = "applied"
  BY <1>4, PhaseOf, PhaseOfNext
<1>6. /\ PhaseMap' = [PhaseMap EXCEPT ![p] = "applied"]
      /\ ContentMap' = ContentMap
  BY <1>3, <1>4, <1>5, OnePhase
<1>7. ops \in SUBSET proposal[p].ops /\ ops # {}
  BY <1>1, <1>4 DEF Authority
<1>8. \A o \in ops : Change!Current(o)
  BY DEF Apply, Applicable, Change!Current
<1>9. \A o \in ops : o.key \notin UsedKeys
  <2>1. \A o \in ops : ledger[o.key].status = "dispatching"
    BY <1>1, <1>4, <1>7 DEF KeysFollowProposals
  <2> QED BY <1>1, <2>1, UsedIsVerified
<1>10. version' = [r \in Record |->
          IF \E o \in ops : o.content.record = r THEN version[r] + 1
          ELSE version[r]]
  BY DEF Apply
<1>11. UsedKeys' = UsedKeys \cup {o.key : o \in ops}
  <2> DEFINE new(o) == [proposal |-> p, op |-> o,
                        version |-> o.content.version + 1]
  <2>1. receipts' = receipts \cup {new(o) : o \in ops}
    BY DEF Apply
  <2>2. \A o : new(o).op = o
    OBVIOUS
  <2> HIDE DEF ops, new
  <2>3. UsedKeys' \subseteq UsedKeys \cup {o.key : o \in ops}
    BY <2>1, <2>2 DEF UsedKeys
  <2>4. UsedKeys \cup {o.key : o \in ops} \subseteq UsedKeys'
    BY <2>1, <2>2 DEF UsedKeys
  <2> QED BY <2>3, <2>4
<1>12. PhaseMap[p] = "approved" /\ ContentMap[p] = proposal[p].ops
  BY <1>5 DEF PhaseMap, ContentMap
<1> HIDE DEF ops
<1> QED
  BY <1>6, <1>7, <1>8, <1>9, <1>10, <1>11, <1>12
     DEF Change!Apply, PhaseMap, ContentMap, UsedKeys

LEMMA InitMaps ==
  ASSUME Init
  PROVE  Change!Init
BY DEF Init, Change!Init, Phase, AbsentProposal

LEMMA StepMaps ==
  ASSUME IInv, [Next]_vars
  PROVE  [Change!Next]_(Change!vars)
<1>1. TypeOK
  BY DEF IInv
<1>2. ASSUME Quiet PROVE Change!Drop
  BY <1>2, DropMaps DEF Quiet, KeptOrGivenUp
<1>3. ASSUME Drops PROVE Change!Drop
  BY <1>3, DropMaps DEF Drops, KeptOrGivenUp
<1>4. ASSUME NEW p \in Proposal, NEW a \in Principal, Reject(p, a)
      PROVE  Change!Drop
  BY <1>1, <1>4, RejectFacts, DropMaps
<1>5. ASSUME NEW p \in Proposal, NEW a \in Principal, Endorse(p, a)
      PROVE  Change!Endorse(p)
  <2>1. Forward(p, "pending_endorsement", "pending_approval")
    BY <1>1, <1>5, EndorseFacts
  <2>2. \A q \in Proposal \ {p} : proposal'[q] = proposal[q]
    BY <1>1, <1>5, EndorseFacts
  <2>3. Phase(p) = "prepared" /\ Phase(p)' = "endorsed"
    BY <2>1, PhaseOf, PhaseOfNext DEF Forward
  <2>4. /\ PhaseMap' = [PhaseMap EXCEPT ![p] = "endorsed"]
        /\ ContentMap' = ContentMap
    BY <2>1, <2>2, <2>3, OnePhase DEF Forward, SameRow
  <2>5. UNCHANGED <<version, receipts>>
    BY <1>1, <1>5, EndorseFacts
  <2> QED BY <2>3, <2>4, <2>5 DEF Change!Endorse, PhaseMap, ContentMap
<1>6. ASSUME NEW p \in Proposal, NEW a \in Principal, Approve(p, a)
      PROVE  Change!Approve(p)
  <2>1. Forward(p, "pending_approval", "approved")
    BY <1>1, <1>6, ApproveFacts
  <2>2. \A q \in Proposal \ {p} : proposal'[q] = proposal[q]
    BY <1>1, <1>6, ApproveFacts
  <2>3. Phase(p) = "endorsed" /\ Phase(p)' = "approved"
    BY <2>1, PhaseOf, PhaseOfNext DEF Forward
  <2>4. /\ PhaseMap' = [PhaseMap EXCEPT ![p] = "approved"]
        /\ ContentMap' = ContentMap
    BY <2>1, <2>2, <2>3, OnePhase DEF Forward, SameRow
  <2>5. UNCHANGED <<version, receipts>>
    BY <1>1, <1>6, ApproveFacts
  <2> QED BY <2>3, <2>4, <2>5 DEF Change!Approve, PhaseMap, ContentMap
<1>7. ASSUME NEW t \in Task, NEW p \in Proposal, NEW targets \in SUBSET Target,
             NEW sameId \in BOOLEAN, CreateProposal(t, p, targets, sameId)
      PROVE  Change!Prepare(p)
  BY <1>7, PrepareMaps
<1>8. ASSUME NEW e \in Executor, NEW p \in Proposal, Apply(e, p)
      PROVE  Change!Apply(p)
  BY <1>8, ApplyMaps
<1> QED
  BY <1>1, <1>2, <1>3, <1>4, <1>5, <1>6, <1>7, <1>8, Classify
     DEF Change!Next

\* Revisions, reservations, cancelled tasks, lost jobs and executors that roll
\* back cannot be told from changes that pass review and happen once, on the
\* records they were prepared for.
THEOREM GovernanceImplementsChange == Spec => ImplementsGovernedChange
<1>1. Init => Change!Init
  BY InitMaps
<1>2. IInv /\ [Next]_vars => [Change!Next]_(Change!vars)
  BY StepMaps
<1> QED
  BY <1>1, <1>2, Invariance, PTL
     DEF Spec, ImplementsGovernedChange, Change!Spec
=============================================================================
