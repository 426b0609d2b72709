------------------------------ MODULE AgentRuns ------------------------------
(***************************************************************************)
(* The agent runs of one organisation: the rows of agent_runs and          *)
(* decision_gates, the River queue that delivers "agent.run" jobs, the     *)
(* workers that execute ExecuteAgentRun, the recovery sweeper, and the     *)
(* changes to tasks, principals and releases a run can be overtaken by.    *)
(*                                                                         *)
(* Every store operation is one transaction opened by WithOrg, which takes *)
(* an advisory lock on the organisation: transactions of one organisation  *)
(* are serial, so each is one atomic action here.  ExecuteAgentRun is NOT  *)
(* one transaction: it claims, gathers context, runs the harness outside   *)
(* any transaction, and publishes.  Everything may happen in between.      *)
(***************************************************************************)
EXTENDS Integers, FiniteSets

CONSTANTS
  Run,          \* identities of agent_runs rows
  Task,         \* identities of tasks
  Gate,         \* identities of decision_gates rows
  Principal,    \* people
  Worker,       \* goroutines executing ExecuteAgentRun, in any process
  Admin,        \* the principals whose role is 'admin'
  TaskOf,       \* the task a run works on (agent_runs.task_id never changes)
  NoRun, NoGate, NoOne,
  SweepLimit,   \* maxRecoverPerOrg
  MaxFaults,        \* bound: crashes, duplicate deliveries, leases outlived
  MaxDiscards,      \* bound: jobs of one run River gives up on after the last
                    \* of their attempts
  MaxBadQuestions   \* bound: questions with a schema that cannot be answered

ASSUME RunAssumption ==
  /\ TaskOf \in [Run -> Task]
  /\ Admin \subseteq Principal
  /\ NoRun \notin Run /\ NoGate \notin Gate /\ NoOne \notin Principal
  /\ SweepLimit \in Nat \ {0}
  /\ MaxFaults \in Nat /\ MaxDiscards \in Nat /\ MaxBadQuestions \in Nat

VARIABLES
  run,        \* agent_runs: status, attempt, claim token, lease, gate, creator
  gate,       \* decision_gates: status, run, respondent
  task,       \* tasks: owner and status ("open" is draft or blocked)
  active,     \* the principals with active = true
  release,    \* is the harness release the runs are bound to 'active'?
  published,  \* number of proposals with origin_run_id = r
  reclaimed,  \* the runs with an 'agent_run.reclaimed' domain event
  jobs,       \* River: deliveries of run r that are available
  worker,     \* what each worker holds between its transactions
  faults,     \* number of faults so far
  discarded,  \* River: number of discarded deliveries of run r
  badQuestions

vars == <<run, gate, task, active, release, published, reclaimed, jobs,
          worker, faults, discarded, badQuestions>>

\* The parts of the state, grouped by who writes them.
people == <<task, active, release>>
budget == <<faults, discarded, badQuestions>>
-----------------------------------------------------------------------------
Live     == {"queued", "running", "waiting"}
Terminal == {"succeeded", "failed", "cancelled"}
Closed   == {"done", "cancelled"}

RunRow == [status : {"absent"} \cup Live \cup Terminal,
           attempt : Nat,
           token : Nat,     \* 0 is the empty claim_token
           lease : {"none", "live", "expired"},
           gate : Gate \cup {NoGate},
           initiator : Principal \cup {NoOne}]

GateRow == [status : {"absent", "pending", "resolved", "cancelled"},
            run : Run \cup {NoRun},
            respondent : Principal \cup {NoOne}]

TaskRow == [owner : Principal, status : {"open"} \cup Closed]

WorkerState == [pc : {"idle", "probe", "gather", "run", "fail"},
                run : Run \cup {NoRun},
                token : Nat,
                owner : Principal \cup {NoOne},  \* owner_id as gathered
                job : BOOLEAN]    \* is the delivery still this worker's?

AbsentRun  == [status |-> "absent", attempt |-> 0, token |-> 0,
               lease |-> "none", gate |-> NoGate, initiator |-> NoOne]
AbsentGate == [status |-> "absent", run |-> NoRun, respondent |-> NoOne]
Idle       == [pc |-> "idle", run |-> NoRun, token |-> 0, owner |-> NoOne,
               job |-> FALSE]

TypeOK ==
  /\ run \in [Run -> RunRow]
  /\ gate \in [Gate -> GateRow]
  /\ task \in [Task -> TaskRow]
  /\ active \in SUBSET Principal
  /\ release \in BOOLEAN
  /\ published \in [Run -> Nat]
  /\ reclaimed \in SUBSET Run
  /\ jobs \in [Run -> Nat]
  /\ worker \in [Worker -> WorkerState]
  /\ discarded \in [Run -> Nat]
  /\ faults \in Nat /\ badQuestions \in Nat

Init ==
  /\ run = [r \in Run |-> AbsentRun]
  /\ gate = [g \in Gate |-> AbsentGate]
  /\ task \in [Task -> [owner : Principal, status : {"open"}]]
  /\ active = Principal
  /\ release = TRUE
  /\ published = [r \in Run |-> 0]
  /\ reclaimed = {}
  /\ jobs = [r \in Run |-> 0]
  /\ worker = [w \in Worker |-> Idle]
  /\ discarded = [r \in Run |-> 0]
  /\ faults = 0 /\ badQuestions = 0
-----------------------------------------------------------------------------
(* Helpers.                                                                *)

TaskStatus(r) == task[TaskOf[r]].status

\* Mutants, here and below, are wrong versions of the definition they precede.
\* No specification uses them; each shows that a property can fail.
LapsedNever(r) == run[r].lease = "none"     \* mutant: forgets the expiry time
LapsedAlways(r) == run[r].lease # "none"    \* mutant: forgets the lease
\* The claim's WHERE clause takes a running row only when its lease lapsed.
Lapsed(r) == run[r].lease # "live"

Claimable(r) ==
  \/ run[r].status = "queued"
  \/ run[r].status = "running" /\ Lapsed(r)

\* Mutant: the claim is not re-read after the harness.
HoldsClaimUnread(w) == worker[w].run \in Run
\* "... and claim_token=$3 for update", then status must still be 'running'.
HoldsClaim(w) ==
  LET r == worker[w].run IN
    run[r].token = worker[w].token /\ run[r].status = "running"

\* River inserts a job in the caller's transaction.
\* Every end of a claim writes claim_token='' and claim_expires_at=null.
Unclaimed(row, status) == [row EXCEPT !.status = status, !.token = 0,
                                      !.lease = "none"]

Enqueue(r) == jobs' = [jobs EXCEPT ![r] = @ + 1]

\* The handler returned nil: River completes the job.
Ack(w) ==
  /\ worker' = [worker EXCEPT ![w] = Idle]
  /\ UNCHANGED <<jobs, discarded>>

\* River gives up a job after the last of its attempts.
Discard(r) ==
  /\ discarded[r] < MaxDiscards
  /\ discarded' = [discarded EXCEPT ![r] = @ + 1]

\* A delivery of r ended in an error: River makes the job available again, or
\* discards it.
Retry(r) ==
  \/ Enqueue(r) /\ UNCHANGED discarded
  \/ Discard(r) /\ UNCHANGED jobs

\* The handler returned an error, or its process died.
Nack(w) ==
  /\ worker' = [worker EXCEPT ![w] = Idle]
  /\ IF worker[w].job THEN Retry(worker[w].run)
     ELSE UNCHANGED <<jobs, discarded>>

Goto(w, pc) == worker' = [worker EXCEPT ![w].pc = pc]
-----------------------------------------------------------------------------
(* CreateAgentRun, and the people around a run.                            *)

\* Mutant: the status of the task is not looked at.
CreateAgentRunAnytime(r, p) ==
  /\ run[r].status = "absent" /\ release
  /\ run' = [run EXCEPT ![r].status = "queued", ![r].initiator = p]
  /\ Enqueue(r)
  /\ UNCHANGED <<gate, people, published, reclaimed, worker, budget>>

\* Only the owner or an active admin; never on a closed task; only while an
\* active harness release exists.  Row and job are inserted together.
CreateAgentRun(r, p) ==
  /\ run[r].status = "absent"
  /\ release
  /\ TaskStatus(r) \notin Closed
  /\ p = task[TaskOf[r]].owner \/ p \in Admin \cap active
  /\ run' = [run EXCEPT ![r].status = "queued", ![r].initiator = p]
  /\ Enqueue(r)
  /\ UNCHANGED <<gate, people, published, reclaimed, worker, budget>>

\* Mutant: the questions of the cancelled runs stay open.
CancelTaskKeepingGates(t) ==
  /\ task[t].status # "done"
  /\ task' = [task EXCEPT ![t].status = "cancelled"]
  /\ run' = [r \in Run |->
       IF TaskOf[r] = t /\ run[r].status \in Live
       THEN Unclaimed(run[r], "cancelled") ELSE run[r]]
  /\ UNCHANGED <<gate, active, release, published, reclaimed, jobs, worker,
                 budget>>

\* CancelTask also closes the task's pending gates and its unfinished runs.
CancelTask(t) ==
  /\ task[t].status # "done"
  /\ task' = [task EXCEPT ![t].status = "cancelled"]
  /\ gate' = [g \in Gate |->
       IF /\ gate[g].status = "pending"
          /\ gate[g].run \in Run
          /\ TaskOf[gate[g].run] = t
       THEN [gate[g] EXCEPT !.status = "cancelled"] ELSE gate[g]]
  /\ run' = [r \in Run |->
       IF TaskOf[r] = t /\ run[r].status \in Live
       THEN Unclaimed(run[r], "cancelled") ELSE run[r]]
  /\ UNCHANGED <<active, release, published, reclaimed, jobs, worker, budget>>

\* applyProposal finishes the task of an approved proposal.  It leaves runs
\* and gates of the task alone.
CompleteTask(t) ==
  /\ task[t].status \notin Closed
  /\ task' = [task EXCEPT ![t].status = "done"]
  /\ UNCHANGED <<run, gate, active, release, published, reclaimed, jobs,
                 worker, budget>>

\* Mutant: the offer's recipient was never resolved.
AcceptHandoffOfNobody(t, p) ==
  /\ task[t].owner # p
  /\ task' = [task EXCEPT ![t].owner = NoOne]
  /\ UNCHANGED <<run, gate, active, release, published, reclaimed, jobs,
                 worker, budget>>

\* AcceptHandoff of an offer of ownership.  It does not look at the status of
\* the task.
AcceptHandoff(t, p) ==
  /\ task[t].owner # p
  /\ task' = [task EXCEPT ![t].owner = p]
  /\ UNCHANGED <<run, gate, active, release, published, reclaimed, jobs,
                 worker, budget>>

\* A principal is deactivated (by an operator: no endpoint does it).
Revoke(p) ==
  /\ p \in active
  /\ active' = active \ {p}
  /\ UNCHANGED <<run, gate, task, release, published, reclaimed, jobs,
                 worker, budget>>

\* TransitionRegistryRelease: active -> draining, or (via disabled) back.
ReleaseChanges ==
  /\ release' = ~release
  /\ UNCHANGED <<run, gate, task, active, published, reclaimed, jobs, worker,
                 budget>>

\* ResolveGate by the respondent with a valid answer: a run that waits on
\* this gate is queued and its continuation enqueued.
ResolveGate(g, p) ==
  LET r == gate[g].run IN
  /\ gate[g].status = "pending"
  /\ p \in active /\ gate[g].respondent = p
  /\ gate' = [gate EXCEPT ![g].status = "resolved"]
  /\ IF run[r].status = "waiting" /\ run[r].gate = g
     THEN /\ run' = [run EXCEPT ![r] = Unclaimed(@, "queued")]
          /\ Enqueue(r)
     ELSE UNCHANGED <<run, jobs>>
  /\ UNCHANGED <<people, published, reclaimed, worker, budget>>
-----------------------------------------------------------------------------
(* ExecuteAgentRun, one action per transaction and per way out.            *)

\* The delivered run is claimed.  A fresh token is drawn for every call; it
\* is represented by the attempt the same UPDATE increments.
Claim(w, r) ==
  /\ worker[w].pc = "idle"
  /\ jobs[r] > 0
  /\ Claimable(r)
  /\ run' = [run EXCEPT ![r].status = "running", ![r].lease = "live",
                        ![r].attempt = @ + 1,
                        ![r].token = run[r].attempt + 1]
  /\ jobs' = [jobs EXCEPT ![r] = @ - 1]
  /\ worker' = [worker EXCEPT ![w] =
       [pc |-> "gather", run |-> r, token |-> run[r].attempt + 1,
        owner |-> NoOne, job |-> TRUE]]
  /\ UNCHANGED <<gate, people, published, reclaimed, budget>>

\* Nothing was claimable: the handler has to look why, in a second
\* transaction.
ClaimRefused(w, r) ==
  /\ worker[w].pc = "idle"
  /\ jobs[r] > 0
  /\ ~Claimable(r)
  /\ jobs' = [jobs EXCEPT ![r] = @ - 1]
  /\ worker' = [worker EXCEPT ![w] =
       [pc |-> "probe", run |-> r, token |-> 0, owner |-> NoOne, job |-> TRUE]]
  /\ UNCHANGED <<run, gate, people, published, reclaimed, budget>>

\* The claiming transaction fails (no connection, no lock, a deadline) and its
\* error is returned to River while the run is still as it was.
ClaimFails(w, r) ==
  /\ worker[w].pc = "idle"
  /\ jobs[r] > 0
  /\ faults < MaxFaults
  /\ faults' = faults + 1
  /\ \/ UNCHANGED <<jobs, discarded>>
     \/ Discard(r) /\ jobs' = [jobs EXCEPT ![r] = @ - 1]
  /\ UNCHANGED <<run, gate, people, published, reclaimed, worker, badQuestions>>

\* Mutant: an early delivery is acknowledged.
ProbeBusyAcknowledged(w) ==
  /\ worker[w].pc = "probe" /\ run[worker[w].run].status = "running"
  /\ Ack(w)
  /\ UNCHANGED <<run, gate, people, published, reclaimed, faults,
                 badQuestions>>

\* A run in flight: the delivery asks to be retried.
ProbeBusy(w) ==
  /\ worker[w].pc = "probe"
  /\ run[worker[w].run].status = "running"
  /\ Nack(w)
  /\ UNCHANGED <<run, gate, people, published, reclaimed, faults,
                 badQuestions>>

\* Anything else: the delivery is acknowledged.
ProbeDone(w) ==
  /\ worker[w].pc = "probe"
  /\ run[worker[w].run].status # "running"
  /\ Ack(w)
  /\ UNCHANGED <<run, gate, people, published, reclaimed, faults,
                 badQuestions>>

\* Context is gathered: records, answers and the owner of the task.
Gather(w) ==
  /\ worker[w].pc = "gather"
  /\ worker' = [worker EXCEPT ![w].pc = "run",
                              ![w].owner = task[TaskOf[worker[w].run]].owner]
  /\ UNCHANGED <<run, gate, people, published, reclaimed, jobs, budget>>

\* Gathering failed, the runner is unavailable, errs, or returns no usable
\* draft: the failure is recorded next.
HarnessFails(w) ==
  /\ worker[w].pc \in {"gather", "run"}
  /\ Goto(w, "fail")
  /\ UNCHANGED <<run, gate, people, published, reclaimed, jobs, budget>>

\* Mutant: failRun without its fence.
RecordFailureUnfenced(w) ==
  /\ worker[w].pc = "fail"
  /\ run' = [run EXCEPT ![worker[w].run] = Unclaimed(@, "failed")]
  /\ Ack(w)
  /\ UNCHANGED <<gate, people, published, reclaimed, faults, badQuestions>>

\* failRun, fenced by the claim token alone.
RecordFailure(w) ==
  LET r == worker[w].run IN
  /\ worker[w].pc = "fail"
  /\ run' = IF run[r].token = worker[w].token
            THEN [run EXCEPT ![r] = Unclaimed(@, "failed")] ELSE run
  /\ Ack(w)
  /\ UNCHANGED <<gate, people, published, reclaimed, faults, badQuestions>>

\* The harness answered but the claim moved on: nothing is written.
Displaced(w) ==
  /\ worker[w].pc = "run"
  /\ ~HoldsClaim(w)
  /\ Ack(w)
  /\ UNCHANGED <<run, gate, people, published, reclaimed, faults,
                 badQuestions>>

\* A question: the gate is created for the gathered owner (no runner names a
\* respondent), or the run's pending gate is adopted, and the run is parked.
Park(w, g) ==
  LET r == worker[w].run
      open == {h \in Gate : gate[h].status = "pending" /\ gate[h].run = r}
  IN
  /\ worker[w].pc = "run"
  /\ HoldsClaim(w)
  /\ gate[g].status = "absent" \/ g \in open
  /\ open # {} => g \in open
  /\ gate' = IF open # {} THEN gate
             ELSE [gate EXCEPT ![g] = [status |-> "pending", run |-> r,
                                       respondent |-> worker[w].owner]]
  /\ run' = [run EXCEPT ![r] = [Unclaimed(@, "waiting") EXCEPT !.gate = g]]
  /\ Ack(w)
  /\ UNCHANGED <<people, published, reclaimed, faults, badQuestions>>

\* A question whose schema no answer satisfies: the transaction fails, and
\* its error is returned to River without failRun.
ParkRefused(w) ==
  /\ worker[w].pc = "run"
  /\ HoldsClaim(w)
  /\ badQuestions < MaxBadQuestions
  /\ badQuestions' = badQuestions + 1
  /\ Nack(w)
  /\ UNCHANGED <<run, gate, people, published, reclaimed, faults>>

\* Mutant: nobody is asked whether the actors are still active.
MayPublishRevoked(w) == TaskStatus(worker[w].run) \notin Closed /\ release

\* What the publishing transaction re-reads before createProposalTx.
MayPublish(w) ==
  LET r == worker[w].run IN
  /\ TaskStatus(r) \notin Closed
  /\ release
  /\ {worker[w].owner, run[r].initiator} \subseteq active

\* A draft, but the task closed, the release is no longer active or an actor
\* was revoked: the run fails in the publishing transaction.
PublishRefused(w) ==
  LET r == worker[w].run IN
  /\ worker[w].pc = "run"
  /\ HoldsClaim(w)
  /\ ~MayPublish(w)
  /\ run' = [run EXCEPT ![r] = Unclaimed(@, "failed")]
  /\ Ack(w)
  /\ UNCHANGED <<gate, people, published, reclaimed, faults, badQuestions>>

\* createProposalTx refused the draft (a stale record, an invalid operation,
\* a business key already taken, an owner that changed): the transaction is
\* rolled back and the failure recorded in one of its own.
DraftRejected(w) ==
  /\ worker[w].pc = "run"
  /\ HoldsClaim(w)
  /\ MayPublish(w)
  /\ Goto(w, "fail")
  /\ UNCHANGED <<run, gate, people, published, reclaimed, jobs, budget>>

\* The draft becomes a proposal of the owner, and the run succeeds.
Publish(w) ==
  LET r == worker[w].run IN
  /\ worker[w].pc = "run"
  /\ HoldsClaim(w)
  /\ MayPublish(w)
  /\ worker[w].owner = task[TaskOf[r]].owner
  /\ published' = [published EXCEPT ![r] = @ + 1]
  /\ run' = [run EXCEPT ![r] = Unclaimed(@, "succeeded")]
  /\ Ack(w)
  /\ UNCHANGED <<gate, people, reclaimed, faults, badQuestions>>
-----------------------------------------------------------------------------
(* Failures, leases and recovery.                                          *)

\* A worker process dies, its job times out, or one of its transactions
\* fails: nothing more is written, River delivers the job again.
Crash(w) ==
  /\ worker[w].pc # "idle"
  /\ faults < MaxFaults
  /\ faults' = faults + 1
  /\ Nack(w)
  /\ UNCHANGED <<run, gate, people, published, reclaimed, badQuestions>>

\* River takes a worker for dead and delivers its job again, or gives it up,
\* while the worker goes on.
Rescue(w) ==
  /\ worker[w].job
  /\ faults < MaxFaults
  /\ faults' = faults + 1
  /\ Retry(worker[w].run)
  /\ worker' = [worker EXCEPT ![w].job = FALSE]
  /\ UNCHANGED <<run, gate, people, published, reclaimed, badQuestions>>

\* Is a worker still executing the attempt that holds the claim of r?
Held(r) == \E w \in Worker : worker[w].run = r /\ worker[w].token = run[r].token

\* The lease of an abandoned claim passes.
LeaseExpires(r) ==
  /\ run[r].lease = "live"
  /\ ~Held(r)
  /\ run' = [run EXCEPT ![r].lease = "expired"]
  /\ UNCHANGED <<gate, people, published, reclaimed, jobs, worker, budget>>

\* A worker is slower than RunBudget allows for and outlives its lease.
LeaseOutlived(r) ==
  /\ run[r].lease = "live"
  /\ Held(r)
  /\ faults < MaxFaults
  /\ faults' = faults + 1
  /\ run' = [run EXCEPT ![r].lease = "expired"]
  /\ UNCHANGED <<gate, people, published, reclaimed, jobs, worker, discarded,
                 badQuestions>>

Stale == {r \in Run : /\ run[r].status = "running"
                      /\ Lapsed(r)
                      /\ TaskStatus(r) \notin Closed}

\* reclaimInOrg: at most SweepLimit stale runs go back to the queue, each with
\* a job and an 'agent_run.reclaimed' event of aggregate version 0.  The event
\* is unique per run: when one of the runs has it already the insert fails
\* and the transaction changes nothing.
Sweep ==
  \E C \in SUBSET Stale :
    /\ C # {}
    /\ C = Stale \/ Cardinality(C) = SweepLimit
    /\ Cardinality(C) <= SweepLimit
    /\ C \cap reclaimed = {}
    /\ reclaimed' = reclaimed \cup C
    /\ run' = [r \in Run |->
         IF r \in C THEN [Unclaimed(run[r], "queued") EXCEPT !.attempt = @ + 1]
         ELSE run[r]]
    /\ jobs' = [r \in Run |-> IF r \in C THEN jobs[r] + 1 ELSE jobs[r]]
    /\ UNCHANGED <<gate, people, published, worker, budget>>
-----------------------------------------------------------------------------
\* The steps of a handler that is not interrupted.
WorkerStep(w) ==
  \/ ProbeBusy(w) \/ ProbeDone(w)
  \/ Gather(w) \/ HarnessFails(w) \/ RecordFailure(w)
  \/ Displaced(w) \/ ParkRefused(w)
  \/ PublishRefused(w) \/ DraftRejected(w) \/ Publish(w)
  \/ \E g \in Gate : Park(w, g)

Deliver(r) ==
  \E w \in Worker : Claim(w, r) \/ ClaimRefused(w, r) \/ ClaimFails(w, r)

Next ==
  \/ \E r \in Run, p \in Principal : CreateAgentRun(r, p)
  \/ \E t \in Task : CancelTask(t) \/ CompleteTask(t)
  \/ \E t \in Task, p \in Principal : AcceptHandoff(t, p)
  \/ \E p \in Principal : Revoke(p)
  \/ ReleaseChanges
  \/ \E g \in Gate, p \in Principal : ResolveGate(g, p)
  \/ \E r \in Run : Deliver(r)
  \/ \E w \in Worker : WorkerStep(w) \/ Crash(w) \/ Rescue(w)
  \/ \E r \in Run : LeaseExpires(r) \/ LeaseOutlived(r)
  \/ Sweep

Spec == Init /\ [][Next]_vars

\* The queue does not starve a job, a handler that is not killed comes to its
\* end (RunBudget bounds the harness), time passes, and the sweeper ticks.
Fairness ==
  /\ \A r \in Run : SF_vars(\E w \in Worker : Claim(w, r))
  /\ \A r \in Run : WF_vars(LeaseExpires(r))
  /\ \A w \in Worker : WF_vars(WorkerStep(w))
  /\ WF_vars(Sweep)

FairSpec == Spec /\ Fairness
-----------------------------------------------------------------------------
(* Safety.                                                                 *)

\* ExecuteAgentRun's publication is exactly-once per run, whatever was
\* delivered twice, crashed, reclaimed or cancelled in between: a run has one
\* proposal when it succeeded and none otherwise.
PublishedOnce ==
  \A r \in Run : published[r] = IF run[r].status = "succeeded" THEN 1 ELSE 0

\* The claim token is a fence: it is set exactly while a run is 'running', no
\* token was handed out twice, and two workers never hold the same one.
ClaimTokensAreUnique ==
  /\ \A r \in Run :
       /\ run[r].token # 0 <=> run[r].status = "running"
       /\ run[r].lease # "none" <=> run[r].status = "running"
       /\ run[r].token <= run[r].attempt
  /\ \A w \in Worker : worker[w].pc \in {"gather", "run", "fail"} =>
       worker[w].token \in 1 .. run[worker[w].run].attempt
  /\ \A v, w \in Worker :
       /\ v # w
       /\ worker[v].run = worker[w].run
       /\ worker[v].token = worker[w].token
       => worker[v].token = 0

\* A worker is on its way to recording a result for r.
Working(w, r) == worker[w].run = r /\ worker[w].pc \in {"gather", "run", "fail"}

\* Somebody will come back to a running run: a job is waiting, or the worker
\* with the claim or a worker about to find the run busy holds one.
SomeoneReturns(r) ==
  \/ jobs[r] > 0
  \/ \E w \in Worker :
       /\ worker[w].job /\ worker[w].run = r
       /\ worker[w].pc = "probe" \/ worker[w].token = run[r].token

\* enqueueAgentRunTx runs in the transaction that queues a run, and an early
\* delivery is retried instead of acknowledged: as long as River gave up none of
\* its deliveries, a queued run has a job and a running one somebody to finish
\* it.  After a discard neither holds: a run whose claims kept failing stays
\* queued with no job, and the sweeper looks at running runs only.
NoStrandedRun ==
  \A r \in Run : discarded[r] = 0 =>
    /\ run[r].status = "queued" => jobs[r] > 0
    /\ run[r].status = "running" => SomeoneReturns(r)

\* A waiting run and a pending question belong together one to one: the answer
\* to a pending gate resumes a run, and a waiting run has a gate to answer.
QuestionsMatchWaitingRuns ==
  /\ \A r \in Run : run[r].status = "waiting" =>
       /\ run[r].gate \in Gate
       /\ gate[run[r].gate].status = "pending"
       /\ gate[run[r].gate].run = r
  /\ \A g \in Gate : gate[g].status = "pending" =>
       /\ gate[g].run \in Run
       /\ run[gate[g].run].status = "waiting"
       /\ run[gate[g].run].gate = g

\* CancelTask leaves nothing behind, and nothing a worker, an answer or the
\* sweeper does later reopens work of a cancelled task.
CancelledTaskIsQuiet ==
  \A r \in Run : TaskStatus(r) = "cancelled" => run[r].status \notin Live

\* A step that moves a worker whose claim was taken over.
InertWhenDisplaced(w) ==
  /\ worker[w].pc \in {"run", "fail"}
  /\ run[worker[w].run].token # worker[w].token
  /\ worker'[w] # worker[w]
  => UNCHANGED <<run, gate, published>>

\* A worker whose claim was taken over writes nothing: not the run, no gate
\* and no proposal, whichever way its handler ends.
DisplacedWorkerIsInert == [][\A w \in Worker : InertWhenDisplaced(w)]_vars

\* A step that ends the claim of r within its lease.
EndedByItsHolder(r) ==
  /\ run[r].lease = "live"
  /\ run'[r].token # run[r].token
  => \/ task'[TaskOf[r]].status = "cancelled"
     \/ \E w \in Worker : /\ worker[w].run = r
                          /\ worker[w].token = run[r].token
                          /\ worker'[w] = Idle

\* A claim within its lease ends by its own worker or by the cancellation of
\* the task; no delivery and no sweep takes it away.
LiveClaimIsNotStolen == [][\A r \in Run : EndedByItsHolder(r)]_vars

\* A step that publishes a proposal of r.
MadeForPresentOwner(r) ==
  published'[r] # published[r] =>
    /\ TaskStatus(r) = "open"
    /\ {task[TaskOf[r]].owner, run[r].initiator} \subseteq active
    /\ \E w \in Worker : /\ Working(w, r)
                         /\ worker[w].token = run[r].token
                         /\ worker[w].owner = task[TaskOf[r]].owner

\* What was read before the harness ran still holds when its draft is
\* published: the proposal is made for the person who owns the open task now,
\* and neither that person nor the initiator has been revoked.
PublishedForPresentOwner == [][\A r \in Run : MadeForPresentOwner(r)]_vars
-----------------------------------------------------------------------------
(* Liveness, under FairSpec.                                               *)

\* A run that was queued or is running comes to an end or waits for a person,
\* through crashes, slow workers, duplicate deliveries and refused questions.
\* When River discarded a job of the run that holds as long as the sweeper can
\* help: it looks for no queued run without a job, leaves runs of closed tasks
\* alone, and reclaims no run twice.
RunsSettle ==
  \A r \in Run : run[r].status \in {"queued", "running"} ~>
                  \/ run[r].status \in {"waiting"} \cup Terminal
                  \/ /\ discarded[r] > 0
                     /\ \/ run[r].status = "queued" /\ jobs[r] = 0
                        \/ TaskStatus(r) \in Closed
                        \/ reclaimed # {}

\* A claim whose lease passed is picked up again, by the sweeper when the job
\* that could have done so is gone: it does not stay abandoned.
SweepRecovers ==
  \A r \in Run : run[r].lease = "expired" /\ TaskStatus(r) \notin Closed
                   ~> run[r].lease # "expired" \/ TaskStatus(r) \in Closed
-----------------------------------------------------------------------------
(* The abstract specification: a run is a job with one outcome.            *)

Phase(r) == CASE run[r].status \in {"queued", "running"} -> "open"
              [] run[r].status = "waiting" -> "asking"
              [] OTHER -> run[r].status

CancelledTasks == {t \in Task : task[t].status = "cancelled"}

Lifecycle == INSTANCE RunLifecycle WITH
  phase <- [r \in Run |-> Phase(r)],
  output <- published,
  cancelled <- CancelledTasks

\* Claims, leases, retries, reclaims and fencing implement a run that happens
\* once.
ImplementsLifecycle == Lifecycle!Spec
=============================================================================
