# Verification of the workforce platform

The platform lets the people of an organisation work with agents without
handing over their responsibility.  An agent *prepares* a change; people
*endorse* and *approve* it; the platform *applies* it, once, to the records it
was prepared for.  A Go server (`src/cmd`, `src/internal`) keeps everything in
PostgreSQL, and two kinds of job run in River, a queue in the same database:
`agent.run` (let a harness work on a task) and `proposal.execute` (apply an
approved change).

This directory holds TLA+ models of the parts whose correctness depends on the
order of events, the TLC runs that check them, and TLAPS proofs of what matters
most.  `PROJECT.json` lists components, runs, mutants, theorems, hazards and,
for every definition that models code, the lines it models.

Run everything from this directory:

    tlc -workers 2 -config RunsRace.cfg MCAgentRuns.tla     # any row of "runs"
    tlapm AgentRunsProofs.tla

---

## 1. Inventory

Every store operation opens one transaction with `WithOrg`, which takes an
advisory lock on the organisation: **operations of one organisation are serial**
and each is an atomic action in the models.  What is *not* serial: what a job
does between its transactions, the order in which people and jobs act, and the
queue (a job may be delivered twice, late, or never again).

| Component | State | Operations | What makes it correct |
|---|---|---|---|
| Agent runs (`agent_runs.go`) | `agent_runs`: status, attempt, claim token, lease, gate | `CreateAgentRun`, `ExecuteAgentRun` (claim / probe / gather / harness / settle), `failRun` | a run publishes at most once; a worker that lost its claim writes nothing; a run never gets stuck |
| Decision gates (`gates.go`) | `decision_gates` | open, adopt, `ResolveGate`, cancel | a pending question has exactly one waiting run and the other way round |
| Recovery sweeper (`recovery.go`) | a cursor in memory | `reclaimSweep`, `orgsAfter`, `reclaimInOrg` | every abandoned run of every organisation is found again; a pass is bounded |
| Proposals and decisions (`store.go`) | `proposals`, `proposal_decisions`, `effects` | `createProposalTx`, `Decide` | at most one live proposal per task; two people behind every applied change |
| Business operations (`business_operations.go`) | `business_operations`: key, holder, fingerprint, status | reserve, release, dispatch, verify | a business key is applied at most once |
| Executor (`store.go`) | `receipts`, `simulator_records` | `executeProposal`, `applyProposal`, `enqueueEligibleChildren` | all effects or none, at the reviewed versions, after the prerequisites, while the people are still active |
| Tasks and prerequisites (`store.go`) | `tasks`, `task_dependencies` | create, `AddDependency`, `CancelTask`, completion | no cycle; nothing of a cancelled task lives on; a waiting change is woken |
| Job queue (River) | jobs | insert, deliver, retry, discard, rescue | external: the environment of the others |
| Handoffs (`handoffs.go`, `store.go`) | `handoffs` | offer, accept, reject, clarify, expire | an acceptance moves what was offered, once; bounded number of transfers |
| Registry releases (`registry.go`) | `registry_releases` with revisions and granted capabilities | create, `TransitionRegistryRelease`, grant | what runs was vetted; a release holds exactly what was granted to it; no change is made to a revision its operator did not see |
| Capabilities, templates, agents (`capabilities.go`, `templates.go`) | grants, templates, agents | check, publish, `CreateAgentFromTemplate`, `admissionMissing` | an agent has no capability its harness was not granted when the run started |
| Sessions, identity links (`sessions.go`, `identity_admin.go`, `oidc_identity.go`, `bff.go`) | `sessions`, `login_transactions`, `identity_links` | login, callback, read, revoke, link, unlink, bootstrap | a login ends in one session at most; a request is accepted only with a live session, an active link and an active principal; an account never changes hands; an administrator keeps an account |
| Organisation (`organization.go`) | positions, relationships with validity | create, end, as-of queries | at every instant one manager each, and nobody above themselves through others |
| Milestones (`milestones.go`) | milestones, dependencies | create, depend, forecast, complete | no cycle; met only with evidence and after its prerequisites |
| Questions (`gates.go`) | schema, answer and respondent of a gate | validate a schema, validate an answer, recognise a repeat | every question that is opened has an answer, unless its text says a thing twice; integers are recorded as they were stated |
| Connectors (`connectors.go`) | `simulator_records` | preview, prepare | what a human read in a proposal is what becomes of the record |
| Harness and runner protocol (`cli.go`) | a process and its group, three pipes, a bounded buffer | start, copy, kill, wait; extract and judge a reply | a draft is taken only from a complete stream of a process that ended well; what is given up is killed |
| Boards, HTTP API, configuration, seed, web client | none of their own | | projections, decoding, I/O |

**How they interact.**  A person starts a run on a task; the row and an
`agent.run` job are inserted together.  A worker claims the run, reads the task,
and leaves the database to let a harness work.  The harness answers with a
question (a gate is opened and the run waits; the answer enqueues it again), a
draft (a proposal is created for the *owner of the task* and the run succeeds)
or nothing usable (the run fails).  A proposal reserves its business keys, is
endorsed by its creator and approved by someone else; the approval authorizes
one effect per operation and inserts a `proposal.execute` job.  The executor
applies the effects, writes receipts, finishes the task, and inserts the jobs of
the proposals that were waiting for it.  Cancelling a task reaches into runs,
gates and proposals; a sweeper in every worker process reaches into runs.  The
registry decides which release a run is pinned to and what its agent may do;
sessions and links decide who a request comes from; a handoff moves the owner for
whom drafts are prepared; connectors give a proposal's operations their meaning.

**What is hard here.**  The handler of a run spans several transactions with a
long gap; its lease may lapse while it is alive; the queue redelivers; the
sweeper and the queue race to recover the same run; and the world (owner, task,
release, people) moves in the gap.  A proposal is decided in one world and
applied in another: keys travel between proposals of several tasks by
supersession, rejection and cancellation; a proposal that must wait gives up its
job and relies on its parent to insert it again.  A request reads its session, its
principal and its link in three transactions, a login callback in four, while
administrators change them; two organisations may link one account at the same
time, each under its own lock.  People answer offers, revise releases and complete
milestones from what they read earlier.  Numbers are read into float64 in one
place and not in the other.  A harness prints what it likes, starts processes of
its own, and ends, or not, around a deadline.  `PROJECT.json` lists each of these
hazards at its line.

---

## 2. Modules

| Module | What it is | Lines of code it stands for |
|---|---|---|
| `AgentRuns` | runs, gates, claims, leases, the `agent.run` queue, the sweep of one organisation, and the changes that overtake a run | `agent_runs.go`, `recovery.go`, `gates.go`, parts of `store.go` |
| `RunLifecycle` | abstract: a run is a job with one outcome | - |
| `AgentRunsProofs` | invariance and action properties of `AgentRuns`; it implements `RunLifecycle` | - |
| `Governance` | proposals, decisions, business keys, prerequisites, executor, the `proposal.execute` queue | `store.go`, `business_operations.go`, `connectors.go` |
| `GovernanceProofs` | invariance and action properties of `Governance`; it implements `GovernedChange` | - |
| `GovernedChange` | abstract: a change passes review and happens once | - |
| `SweepWalk` | the sweeper's walk over the organisations | `recovery.go` |
| `Handoffs` | offers of responsibility, their lifetime and every reply | `handoffs.go`, `store.go` |
| `HandoffsProofs` | invariance and action properties of `Handoffs`; it implements `Accountability` | - |
| `Accountability` | abstract: who answers for a task changes by consent, a bounded number of times | - |
| `Access` | principals, links, logins, sessions, and requests that read them step by step | `sessions.go`, `identity_admin.go`, `oidc_identity.go`, `bff.go` |
| `AccessProofs` | invariance and an action property of `Access` | - |
| `Registry` | releases, grants, agents, templates, admission of runs | `registry.go`, `capabilities.go`, `templates.go`, `agent_runs.go` |
| `RegistryProofs` | invariance and action properties of `Registry` | - |
| `Organization` | positions and effective-dated relationships | `organization.go` |
| `Milestones` | milestones, prerequisites, forecasts, completion | `milestones.go` |
| `RecordsProofs` | invariance and an action property of `Milestones`, invariance of `Organization` | - |
| `Questions` | schemas, answers and repeats | `gates.go` |
| `Connectors` | what an operation must say and what it makes of a record | `connectors.go` |
| `Doubles` | numbers read into a float64 | external (`encoding/json`) |
| `ValuesProofs` | invariance properties of `Questions` and `Connectors` | - |
| `Protocol` | which document of an output is the reply, and what a reply must hold | `cli.go` |
| `Harness` | one execution of a harness: process group, pipe, buffer, deadline | `cli.go` |
| `WorkerProofs` | what a worker process does by itself: an action property of `SweepWalk`, invariance of `Harness` and what `Protocol` reads | - |
| `MCAgentRuns`, `MCGovernance`, `MCSweepWalk`, `MCHandoffs`, `MCAccess`, `MCRegistry`, `MCHarness` | instances for TLC | - |
| `MCRecords` | the instance of `Milestones` and `Organization` | - |
| `MCValues` | the instance of `Questions` and `Connectors` | - |

**How they fit together.**  `AgentRuns` and `Governance` are cut where a run
publishes: `Publish` of the one counts a proposal, `CreateProposal` of the other
makes one.  Each contains, as actions of its environment, what the others do to
the state it shares with them (a task is cancelled, its owner moves by a handoff,
a person is revoked, a release changes).  `Handoffs` is the detail of
`AcceptHandoff`, `Registry` of `ReleaseChanges` and of the admission in
`CreateAgentRun`, `Questions` of the answers of `ResolveGate`, `Connectors` of the
versions in `Apply`, `Harness` of the step between `Gather` and the settling
transactions, `Access` of the people in all of them.

### AgentRuns

| Variable | In the code |
|---|---|
| `run[r]` | row of `agent_runs`: `status`, `attempt`, `claim_token`, `claim_expires_at`, `gate_id`, `created_by` |
| `gate[g]` | row of `decision_gates`: `status`, `run_id`, `respondent_id` |
| `task[t]` | `tasks.owner_id`, `tasks.status` (`draft` and `blocked` are one: nothing here tells them apart) |
| `active` | principals with `active = true` |
| `release` | is the bound harness release `active` |
| `published[r]` | number of `proposals` with `origin_run_id = r` |
| `reclaimed` | runs with an `agent_run.reclaimed` row in `domain_events` |
| `jobs[r]` | deliveries of `agent.run` for `r` that River may hand out |
| `discarded[r]` | history: deliveries for `r` that River gave up after their last attempt |
| `worker[w]` | locals of a running `ExecuteAgentRun`: where it is, run, token, owner as gathered |

`ExecuteAgentRun` is cut at its transaction boundaries, and each way out of a
transaction is an action of its own:

    Claim -> Gather -> (harness) -> Park | ParkRefused | Publish | PublishRefused | DraftRejected | Displaced
    ClaimRefused -> ProbeBusy (retry) | ProbeDone (acknowledge)
    ClaimFails (retry)
    HarnessFails, DraftRejected -> RecordFailure

A claim token is a random string in the code, drawn for each claim; in the model
it is the attempt number that the same `UPDATE` increments, which is fresh for
the same reason.  The lease is `none`, `live` or `expired`.  What a draft
contains is not modelled: whether `createProposalTx` accepts it is a choice
(`DraftRejected` or `Publish`), and the checks the publishing transaction makes
itself (`MayPublish`) are guards.  Whatever goes back to River with an error goes
through `Retry`: the job is available again or, after its last attempt, discarded.
`ClaimFails` is the claim whose transaction fails; the run stays as it was, and a
queued run may lose its job that way.

`Sweep` takes a set of stale runs, no larger than `SweepLimit`, *requeues* each
and inserts one `agent_run.reclaimed` event per run, in one transaction.  The
event has the aggregate version 0 and `(org, aggregate, version)` is unique, so a
run in `reclaimed` makes the transaction fail; the guard `C \cap reclaimed = {}`
says exactly that.

### Governance

| Variable | In the code |
|---|---|
| `proposal[p]` | row of `proposals`; `ops` are the operations of its revision with the record version each expects |
| `decisions[p]` | rows of `proposal_decisions` |
| `authorized[p]` | `effects` in state `authorized` |
| `ledger[k]` | row of `business_operations`: status, holder, and as `content` what the fingerprint covers |
| `version[r]` | version of a record in `simulator_records` |
| `receipts` | rows of `receipts` |
| `depends` | `task_dependencies` |
| `jobs[p]` | deliveries of `proposal.execute` |
| `failing[e]` | the stale proposal an executor has rolled back and not yet marked |

`CreateProposal` is `createProposalTx` as a whole: it supersedes the live
proposal of the task, checks the versions, and reserves the keys against the
rows *after* superseding.  `Apply` is `applyProposal` as a whole, with the jobs
it inserts for waiting children.  An execution that finds a stale record rolls
back (`ExecuteStale`) and marks the proposal in a second transaction
(`RecordAttention`); the world may move between the two, and the executor may
die.  Revision number and digest of a proposal name an immutable row, so they
are its identity.  `sameId` records that the caller gave two operations one id,
which nothing in the code refuses.

`Ancestry` is the least set closed under taking parents, which is what the
recursive query of `AddDependency` computes; it is written without recursion so
that the module can be proved about.

### SweepWalk

The pages the sweeper reads (`orgsAfter`), the cursor it keeps between ticks, and
what disturbs it: organisations that appear, organisations whose transaction
fails, passes that cannot read at all, and restarts that forget the cursor.

### Handoffs

| Variable | In the code |
|---|---|
| `offer[h]` | row of `handoffs`: `state`, `role`, `created_by`, `recipient_id`, `hop_depth`; `seen.version` is `offered_task_version`, the rest of `seen` is history |
| `task[t]` | `tasks.owner_id`, `assignee_id`, `status`, `version` |
| `due` | offers with `expires_at <= clock_timestamp()` |

A refused reply is no step: its transaction is rolled back, and with it the expiry
that `expireDueHandoffs` had written.  `ListHandoffs` and `PeekHandoff` are steps
because their expiry is committed; `PeekHandoff` of a closed task's offer finds no
row and is rolled back as well.  `TaskMoves`, `TaskBlocks` and `Revoke` are the rest
of the system; `TaskBlocks` is the executor that finds a prerequisite undone, and the
one writer of a task that leaves its version alone.  Mapped to `Accountability`, the people asked are the takers of the offers
that could be accepted now.

### Access

| Variable | In the code |
|---|---|
| `principal[a]` | row of `principals`: `role`, `active` |
| `link[x]` | row of `identity_links`, by (issuer, subject) |
| `login[l]`, `session[s]` | rows of `login_transactions` and `sessions` |
| `proc[p]` | locals of a request or callback in progress: where it is and what it has read |
| `linking[o]` | a transaction that found no link and is about to insert one |
| `seen[p]` | history: which of session, link and principal was good at some moment of the request |

    callback:       ConsumeLoginTransaction -> Exchange -> ResolveLink -> ResolvePrincipal -> CreateSession
    bearer request: Bearer -> ResolveLink -> ResolvePrincipal -> accepted
    cookie request: ReadRow -> ReadPrincipal -> ReadLink -> accepted

Each arrow is a statement or transaction of its own.  What reads or changes the
principals of an organisation waits for the organisation's lock (`Unlocked`); the
pool statements on links, logins and sessions do not.  `InsertLink` is apart from
the look-up before it because two organisations may insert at once, and the
primary key decides.

### Registry

`release[r]` is a row of `registry_releases`, `later[r]` the releases whose
`updated_at` is later than its own, which decides among several active releases of
one runner (`Newest(h)`: `order by updated_at desc limit 1`).
`reading[o]` is the row an operator saw last; `Fresh` is the comparison of the
revision that the caller sends.  `agent`, `template` and `run` are the rows of
those tables as far as capabilities go.  `decided` and `passed` are history.

### Organization

`rel[i]` is a row of `org_relationships`; a period is `[from, to)` with `to =
MaxTime + 1` for an open end.  `DetectManagementCycle` climbs as the recursive
query does: `MaxDepth` levels, over the lines that overlap the new period, and
without comparing the manager it starts from (`Chain` is who is met on the way).
`HierarchyAsOf` states the result without any climbing: among any few people, one
has no manager in their midst but possibly himself.

### Milestones

`milestone[m]`, `dep` and `reading` are the rows and what each planner saw.  `Reach`
is the least set closed under taking parents, without recursion, so that the
module can be proved about.  `late` is history: a prerequisite that was added to a
milestone that was met already.

### Questions, Connectors, Doubles

A JSON value is its kind, which value of that kind it is, and whether a number is
written in plain digits.  A schema is a pair of maps (`properties` and its older
name `requested`) and the required fields, or the empty schema, `Anything`.  It is
checked as the harness wrote it and answered as the `jsonb` column has kept it: a text
may hold `properties` twice, Go decodes the second map over the first (`Overlaid`,
`earlier`), and the column keeps the second alone (`Stored`).
`Float64` is what an integer becomes in a `float64`: exact up to `MaxExact` (2^53),
even above.  Other numbers are an integer and what they exceed it by: half of one,
less or more.  `Nearest` is their float64 where that is an integer; halves survive
below 2^52 (`StaysHalf`), and "less" and "more" stand for what is too close to an
integer to be told from it.  A list may hold `null`, which Go reads as an empty
string (`Holes`, `Decoded`).  A payload of an operation is a *sequence* of pairs, for a JSON object
may repeat a key, which `parse` refuses.  The data of a record is a function of all
field names, with `Absent` for those it does not have.

### Protocol and Harness

`TryDecode`, `ExtractProtocol`, `ToDraft`, `SanitizeReason` and `Judge` are the
functions of those names over abstract documents: a document is our reply, or an
envelope that may report an error and may carry an object or a text of lines.  An
envelope's `is_error`, `subtype` and `exit_code` are decoded together, so that one of
the wrong type (`typed` is false) hides the other two (`ReportsError`).
Documents hold documents to any depth, and `tryDecode` calls itself with the depth it
has reached; `Decoding` is the same as a function of the levels that are left.
`Vouched` is the reference: the replies that no envelope around them takes back.
`Harness` is `Run`: the child and its descendants, `capWriter` with its kill on
overflow, `select` over exit and deadline in whichever order, and the wait after
the kill.  A descendant is in the process group or not, which decides whether a kill
reaches it, and has stdout, stderr or neither open (stdin, which `Run` also copies,
counts as stderr: it says nothing and is waited for).  `cmd.Wait` returns when nobody
holds a stream (`WaitDone`).

---

## 3. Runs

A mutant - a wrong version of one definition, next to it in the module - is
recorded for each property of each passing run; TLC finds the property violated
when the mutant takes the definition's place.

| Run | Question | States |
|---|---|---|
| `RunsRace` | one run that asks twice, delivered to two workers, with two crashes, or two runs of a task with a discarded job and a sweep of one run at a time: does the claim token fence everything, is anyone stranded, is it a run that happens once? | 1.4 M |
| `RunsLive` | does every run settle, through two faults (failing claims among them), a discarded job and a refused question? | 153 k |
| `RunsSweepTwice` | *refuted*: an abandoned claim is recovered | |
| `GovLedger` | three proposals, two tasks, two keys and a record, or three tasks that wait for each other: is the ledger in step, is nobody forgotten, is it a governed change? | 426 k |
| `GovPeople` | ownership moves, a person is revoked, prerequisites appear between decision and execution: two people, all or nothing, in order, eventually | 910 k |
| `WalkDirectory` | five organisations, pages of two, two lapses: is everyone visited, and nobody skipped? | 27 k |
| `HandoffOffers` | three offers of one task, with lapses, reads and changes of the task, with and without a new version: one bounded chain, by consent, as offered? | 2.4 M |
| `AccessRuns` | two callbacks and two requests, or two organisations and three accounts: is everybody who they are taken for? | 1.1 M |
| `RegistryWork` | one release and three operators, two versions, two families, agents and templates: are grants what was decided, and runs covered? | 73 k |
| `Records` | three milestones and two planners; three people, four relationships, three instants: no deadlock, met in order, a hierarchy? | 33 k |
| `Values` | schemas over two fields, some of them said twice, and every answer; payloads with integers, fractions and holes: answerable, exact, as stated? | 65 k |
| `HarnessRuns` | every stream of three lines, five kinds of descendants, overflow, deadline: is a taken answer earned, does `Run` return? | 958 k |

Several invariants are conjunctions of named parts (`TransfersFormOneChain`,
`SessionsAreAccountedFor`, `WorkIsGranted`, `PeopleFormAHierarchy`,
`PlanIsFollowed`, `StatedExactly`, `OperationsDoAsStated`, `AnswerIsEarned`); most of these include the type
invariant of their module.

**Bounds.**  Every cap on the environment is a constant named `Max...` that
occurs in a guard: `MaxFaults` (crashes, failing claims, rescued jobs, outlived
leases, lost completions), `MaxDiscards` (jobs of a run that River gives up), `MaxBadQuestions`, `MaxMoves`
(transfers and revocations), `MaxRepeats`, `MaxLapses`, `MaxChanges`,
`MaxBootstraps`, `MaxRevocations`, `MaxRevision`, `MaxVersion`, `MaxProposed`,
`MaxLines`, `MaxTime`.  Attempts, record versions and job counts need no cap of
their own: attempts are limited by the faults and gates, versions by the keys.

- *Runs.*  Two workers are enough for a displaced and a displacing one, two faults
  for a displaced worker whose successor also dies, two gates for a run that asks
  again, two runs with `SweepLimit = 1` for a sweep that leaves one behind.
- *Governance.*  Three proposals on two tasks give a revision and a competitor for
  the same key; three tasks are the shortest cycle that is not caught by looking
  at the parents alone.
- *Handoffs.*  Three offers and `MaxHops = 2` (code: 5): one more offer than may
  be accepted, all made before the first acceptance.
- *Access.*  Two logins and two processes for two callbacks of one login; three
  accounts for one that two organisations want besides one each.
- *Registry.*  A release needs five revisions to become active and eight to be
  drained, disabled and active again, plus a grant: `MaxRevision = 9`.
- *Records.*  Three milestones as for tasks.  Three people are the shortest cycle
  through others that a direct look misses; three instants let two periods overlap
  without containing each other; `MaxDepth = 2` (code: 64) is just enough for three
  people, as 64 is for sixty-five (`NoCircleAtAll`).
- *Values.*  `MaxExact = 4` stands for 2^53, so that 5 is the first number that is
  rounded (to 4) and 7 is rounded upwards; `MaxFinite = 8` for the largest float64;
  a half is a half up to 2 and rounded beyond;
  `MaxItems = 2` for 64 with lists of one, two and three items.
- *Harness.*  Sizes are counted in lines: `Limit = 2` of `MaxLines = 3` overflows.
  `MaxUnwrapDepth = 3` is the code's; `MaxOperations = 1` stands for 8.  Of the six
  kinds of descendants the one left out is outside the group with nothing open: `Run`
  cannot notice it.

**Constraints.**  Where the product of all bounds is too large, a `CONSTRAINT`
named `Focus` in the MC module lists the combinations that are explored, each with
the case it is for.  It prunes states, never steps inside the listed cases.  Runs
with liveness have none, except `HarnessRuns`, whose constraint only limits what the
harness prints and starts, to which no fairness is owed.

**Sums.**  `MCRecords` and `MCValues` check two components that share no state in
one run each.  No property speaks of both, so TLC walks their sum: in a behaviour
one moves and the other stays in an initial state.  Every behaviour of either one
is a behaviour of the sum.

**Symmetry** is used in runs without liveness, over runs, workers, gates, tasks,
keys, records, accounts, processes, offers, people, capabilities, administrators,
relationships, wherever the elements are treated alike; principals that differ in
what they may do, and identities that a constraint takes in their order, are not
permuted.  `GovPeople` uses a smaller choice of operations (`SomeTargets`) that
still has a proposal change two records, or one record twice, and two proposals
compete for a record.

**Deadlock** is checked in `AgentRuns`, `Governance`, `SweepWalk`, `Handoffs`,
`Access` and `Values`: there somebody can always act.  The registry, the plan and a
harness come to an end - at the last revision, when everything is met, when `Run`
has returned - and their runs say `CHECK_DEADLOCK FALSE`.

**Fairness.**

- `SF` on claiming a run: River hands out an available job sooner or later even
  if other jobs interrupt; strong, because between two chances the run may be
  busy or all workers occupied.
- `WF` on the steps of a handler: `RunBudget` bounds the harness, and each
  transaction comes back with a result or an error.
- `WF` on `LeaseExpires`: time passes.
- `WF` on `Sweep` and `ReclaimSweep`: the sweeper is a ticker.
- `SF` on handling a proposal, `WF` on `RecordAttention`: the same for
  `proposal.execute`.

- `WF` on `Copy`, `Expire`, `Finish`, `Cancel` and `FinishKilled` of `Harness`: the
  goroutines of `Run` are scheduled, the deadline comes, a `SIGKILL` is carried out.

Nothing is assumed of people or of a harness: no liveness property needs a person to
act or a process to end by itself, and faults are never forced.

`RunsSettle` has exceptions, and they are real.  When River has discarded the job of
a run, only the sweeper can bring it back.  The sweeper never looks at a queued run
(one whose claims kept failing), leaves runs of closed tasks alone (on purpose) and
cannot reclaim a run a second time (finding 1).  `NoStrandedRun` is therefore about
runs none of whose jobs was discarded.  `RunReturns` has an exception too: a
descendant that left the process group holds a stream that `Run` waits for.

---

## 4. Findings

**A run is recovered only once** (`recovery.go:198`, run `RunsSweepTwice`).  Every
`agent_run.reclaimed` event is inserted with aggregate version 0, which is unique
per run.  The second reclaim of a run violates the key and rolls back the
transaction, in every later pass, for *all* stale runs of the organisation.

The models also follow the code where it departs from what one might expect; the
properties are stated so that they hold of the code, and say so where it matters.

| Where | What the code does |
|---|---|
| `agent_runs.go:198` | a claim that fails is left to River's retries; after the last one the run is queued without a job, and `recovery.go:151` selects running runs only |
| `agent_runs.go:263` | the owner a question goes to is read before the harness runs and not again |
| `agent_runs.go:274` | a refused question is returned to River as an error, not recorded with `failRun`; each retry starts the harness again |
| `agent_runs.go:270` | "must be refused HERE, not persisted", of a question without an answer: the text of the schema is checked, and the `jsonb` column keeps less of it; a required field declared in the first of two `properties` has no answer (`ForgottenHasNoAnswer`; a key written in two cases, or a repeated `items`, does the same) |
| `agent_runs.go:278` | the branch that adopts a question of an earlier attempt is not reached by a running run: a pending question has a waiting run (`QuestionsMatchWaitingRuns`) |
| `store.go:269` | a cancelled prerequisite is never done: what depends on it waits |
| `store.go:347` | capabilities that an agent declares are compared with no grant when it is created, only when a run is admitted |
| `store.go:506` | rejecting an approved proposal is recorded and changes nothing |
| `store.go:520` | two operations may have one id: one of them gets an effect, both keys are verified |
| `store.go:720` | an offer made by the assignee, or against an older version of the task, is kept open and can never be accepted |
| `store.go:907` | a task is blocked without a new version, so an offer made before is accepted afterwards, although `store.go:716` says "must not be accepted after the task changed underneath it" |
| `store.go:910` | a proposal that is refused at execution because somebody was revoked keeps its keys |
| `business_operations.go:48` | the fingerprint of a released key is compared before its status, and covers the target version: once the record has moved, no content fits |
| `gates.go:144` | a repeated answer is compared after both were read into float64, so beyond 2^53 two numbers may count as one |
| `connectors.go:221` | `delta` is an "integer" (`connectors.go:242`) once it has been read into a float64: 4503599627370497.5 is applied as 4503599627370498 |
| `organization.go:205` | the walk for a management cycle stops after 64 levels |
| `organization.go:207` | the walk does not compare the manager it starts from: somebody may be made their own manager |
| `milestones.go:199` | a milestone that was met may be given a prerequisite that is not |
| `cli.go:436` | `Run` waits for the ends of stdin, stdout and stderr even after its deadline; a descendant in a group of its own can hold any of them |
| `cli.go:683` | `is_error`, `subtype` and `exit_code` are read together: with one of the wrong type an envelope that says `is_error: true` is opened, although `cli.go:675` and `docs/harness-adapter.md:73` call it a failure |
| `cli.go:718` | of a text inside an envelope the first line that decodes is the reply; a failure in a later line is not looked for |

## 5. Proofs

All proofs are about the specifications that the runs check, for arbitrary sets of
runs, tasks, gates, people and workers and arbitrary bounds, under the named
assumptions of each module (the special values are not members of the sets; bounds are
natural numbers; every run has a task; people and organisations are finitely many;
what a line holds is a line).  TLC evaluates them in each run.

### AgentRuns

`AgentRunsProofs!Invariance` proves the inductive invariant

    IInv == TypeOK /\ WorkerShape /\ ClaimTokensAreUnique /\ PublishedOnce
              /\ QuestionsMatchWaitingRuns /\ CancelledTaskIsQuiet /\ NoStrandedRun

from which each property is a theorem of its own.  `WorkerShape` is the only part
that is not a property anyone would ask for: it says what the locals of a handler
may look like.  The others need each other:

- *Fencing.*  A token is the attempt that drew it and no larger than the run's
  attempt.  So a new claim's token is held by nobody else, and a worker whose
  token still is the token of its run is the only one with it.
- *Publishing once* follows: the proposal count moves only in `Publish`, which
  needs the token of a running run and takes the run out of `running` for good.
- *Questions and runs* are paired by one argument for all steps that leave rows
  outside `waiting` (`InnerStep`), and one each for the four steps that touch a
  gate.
- *Nobody is stranded* is the delicate one.  Of a run none of whose jobs was
  discarded: queued, it has a job; running, it has a job, or a worker that still owns its delivery and will hand it back:
  the holder of the claim, or a worker about to find the run busy.  The lemmas
  `Returning`, `Retried` and `Acknowledged` say what a step may do to that
  witness; every acknowledgement ends the claim it belongs to, which is why
  `ParkRefused` has to be a retry and `ProbeBusy` must not acknowledge.

From the invariant follow the action properties: a displaced worker is inert, a
claim within its lease is ended only by its holder or by a cancellation, and a
draft is published for the present, active owner of an open task.
`RunsImplementLifecycle` proves that every step of a handler
is a step or a stutter of `RunLifecycle`.

### Governance

`GovernanceProofs!Invariance` proves

    IInv == TypeOK /\ Shape /\ Authority /\ Reviewed /\ ReceiptsBelong
              /\ OneLiveProposal /\ KeysFollowProposals /\ RecordsAreSerial
              /\ AllOrNothing /\ ApprovedIsScheduled

The first five are the strengthening.  `Shape`: a proposal that exists has a task,
an author and operations, and no key twice.  `Authority`: an approved proposal has
effects, for operations it was prepared with.  `Reviewed`: the status of a
proposal shows in its decisions.  `ReceiptsBelong`: a receipt is one of the
operations of a finished proposal.

What a step does to proposals is settled once (`Classify`): it leaves them alone,
gives some up, or is one of the five steps with decisions of their own
(`CreateProposal`, `Endorse`, `Approve`, `Reject`, `Apply`), for each of which a
lemma says what it changes.  Then, property by property:

- *Keys.*  A key changes hands only in `CreateProposal`, and only when it is free,
  released, or reserved by a proposal that is rejected or was just superseded.
  None of these is the ledger's entry for a live or finished proposal, so
  `KeysFollowProposals` survives.  Two receipts of one key then have one holder,
  and by `Shape` one operation: `KeyAppliedOnce` is a consequence, not a part, of
  the invariant.
- *Records.*  A receipt's version is one more than the version its record had, and
  that is the version it has now; older receipts have smaller versions.
- *Nobody forgets an approved proposal.*  A prerequisite is finished only by
  `Apply` (`UnblockedBefore`), and the step that finishes the last one puts every
  approved proposal behind it into `Awaiting` (`ApplyWakes`).  A job is taken away
  by a step that finds its proposal blocked, ends its approval, or leaves it in
  `failing`.  That a live proposal's task is not closed (`OneLiveProposal`) is
  what makes `Awaiting` complete: it leaves out closed tasks.
- *Cycles.*  `NoDependencyCycle` is inductive on its own: if the new edge from t to
  u closed a cycle through an older edge from x to y, then t would be an ancestor
  of y, y of u, and so t of u, which the query of `AddDependency` excludes.

`GovernanceImplementsChange` proves that every step is a step
or a stutter of `GovernedChange`; the interesting half is that a key that was
applied is verified in the ledger, so neither a new proposal nor an approved one
can hold it.

### Milestones

`RecordsProofs` proves, for any number of milestones and planners, `TypeOK`,
`Acyclic`, `PlanIsFollowed` (that is `SomethingIsReady` and `MetInOrder`) and
`MetAsRead`.  That no milestone
waits for itself does not by itself show that somebody can go on: a plan without
cycles might still be infinitely deep.  The inductive invariant is therefore
stronger: every non-empty set of milestones has a member with no prerequisite in
the set.  Adding an edge keeps that, because a set without such a member would have
to contain a way from the new prerequisite back to its dependant, which `WaitsFor`
excludes.  `SomethingIsReady` is the case of the set of milestones that are not met.

### Organization

`RecordsProofs` also proves `PeopleFormAHierarchy` (`PeopleHierarchy`) for any finite
number of people, any relationships and periods, and any `MaxDepth`.  The inductive
invariant is

    PeopleInv == PeopleTypeOK /\ OneManager /\ NoCircle

`OneManager` is the exclusion constraint, `NoCircle` that at no instant a few people
(no more than `MaxDepth + 1`) are each managed by another one of them.  It is about
sets, not about walks, so that ending a relationship keeps it trivially; the work is
in `CreateRelationship`, where the two meet (`CirclesAreFound`).  Suppose a new line
from p to m closes a circle of some people at an instant.  As long as the walk from m
has not met p, it meets another one of them at each level (`ChainGrows`): if it did
not, those it has met would be a circle by themselves, without the new line, and there
was none.  So it needs no more levels than there are people besides m.  The lines it
climbs include those of the instant, since they overlap the period of the new one, and
`DetectManagementCycle` refuses.
Only circles that are longer than the walk can slip through: `NoCircleAtAll` says
that none does in an organisation of no more than `MaxDepth + 1` people.  That a
person may be their own manager is in the statement: the code does not exclude it.

### Questions

`ValuesProofs` proves, for any fields, schemas and bounds, that whatever text
`ValidateGateSchema` accepts, `validateGateResponse` accepts under the stored schema
the answer that gives each required field the plainest value of its type
(`AcceptedSchemaHasAnswer`) - unless the stored schema has lost the declaration of a
required field (`Forgets`), and then it accepts no answer at all
(`ForgottenHasNoAnswer`).  So the exception in `Answerable` is exactly the hole in the
code.  What the column keeps is part of the text, with the same fields required
(`StoredSchema`).  `StatedExactly` has two parts: integers are recorded as they were
stated and recognised when they are repeated (`RecordedExactly`), and a repeat that is
reported as taken is the recorded answer as long as its numbers are exact
(`ExactRepeatsAreTheRecord`).

### Connectors

`ValuesProofs` also proves, for any records and payloads, `PreviewedOpsApply`
(`PreviewsHold`) and `OperationsDoAsStated` (`OperationsSayWhatTheyDo`), from

    OpsInv == OpsTypeOK /\ NotAhead /\ PreviewedOpsApply /\ QuantitiesAreExact /\ LastSays

- *Previews hold* because the version of a record names its data: no proposed
  operation is ahead of its record (`NotAhead`), and each application raises the
  version, so an operation for the version the record has now was previewed against
  the data it has now.
- *Quantities are exact*: a float64 in the range of `integer` is the integer it was
  read from, or one of the two around the fraction (`SmallIsExact`), and the sum is bounded by `AcceptsInventory`.  An
  operation of another integration may write to an inventory record, for nothing
  compares the two, but `quantity` is no key of mail or documents.
- *Says what it does*: with no key twice, the pair `ValueOf` chooses is the only one
  (`ValueIsSaid`, `SaidIsValue`).

### SweepWalk

`WorkerProofs!SweepSkipsNothing` proves `WalkSkipsNothing` for any finite set of
organisations and any size of a page.  A full page has a greatest identity
(`Greatest`), everything before it comes before less than `SweepBatch` others, so it is
on the page too (`PageHasNoGaps`), and a page without its last one comes before it,
which bounds the page (`PageIsBounded`).  The fairness of `WalkSpec` is not used.

### Protocol and Harness

`WorkerProofs!AnswersAreEarned` proves `AnswerIsEarned` for any lines, depth of
unwrapping, limit of the output, descendants and number of lines printed.

What is read: `DecodingGoesDown` and `OpeningGoesDown` show that the recursive
functions exist and obey their equations (from `Iterates`: what goes from a base by a
step exists), and `RepliesAreFoundInside`, by the level of a least counterexample, that
a line is read as a failure or as the reply of an object it opens.  `OutputIsRead`
adds that a failure anywhere in the stream wins, and `OutputIsJudged` what `Run` makes
of that.  What runs:

    RunInv == TypeOK /\ NothingLost /\ Started /\ Killed /\ TakenAtTheEnd
                /\ GivingUpKillsTheGroup

- `NothingLost`: until the buffer overflows, what was printed is what was copied and
  what is in the pipe, in that order, however the reads cut it (`WriteMoves`).
- `TakenAtTheEnd`: what was taken is `Judge` of a buffer to which nothing can be added
  any more: nobody who could write is alive, nothing is in the pipe, nothing
  overflowed.  So the buffer is all that was printed, then and ever after.
- `Killed`: after a kill the leader is gone, and with it whoever might start another
  process of the group while `Run` waits for the end of the output.

### Access

`AccessProofs` proves the four properties of `AccessRuns` for any organisations,
people, accounts, logins, sessions and number of requests at once.  What makes them
inductive: a link and a principal are never taken away and never change whom they
name or the role (`Lasting`, which is also `LinksAreNotRepointed`), so what a request
read of them stays true however long it stands between two statements
(`RequestsFollowLinks`); a consumed login is spent and is held by one callback or by
one session (`LoginsAreSpent`, `LoginsAreHeldOnce`); and by each statement a request
has passed it has seen one more of the three conditions hold (`SeenSoFar`).
`AdminsKeepALink` also needs that whoever is linked exists (`PrincipalsExist`):
otherwise a bootstrap might turn a removed link into the last one of a new
administrator.

### Handoffs

`HandoffsProofs` proves `TransfersFormOneChain` and `OffersAreKept` for any offers,
tasks, people and bound on transfers.  The length of the chain is only looked at when
an offer is made, so what has to be inductive is that an offer which can still be
accepted is the *next* one: as long as a task has the version an offer was made for,
the task is what the offer saw, the offer's `hop` is one more than the number of
accepted transfers, and that number is below the bound (`OffersFit`).  Accepting
raises the version, and so every rival is overtaken.

The same module proves that `Handoffs` implements `Accountability`
(`HandoffsImplementAccountability`): an acceptance of an ownership offer is `Take`,
an offer by the owner is `Ask`, and replies, expiries and changes of tasks can only
`Forget` (`FewerAsked`).

### Registry

`RegistryProofs` proves the three properties of `RegistryWork` for any releases,
families, harnesses, agents, templates, runs and people:

    IInv == TypeOK /\ GrantsOnRecord /\ Vetted /\ OneOfFamily /\ ReadingsAge
              /\ OrderIsStrict /\ RunsAreFounded /\ TemplatesExist
              /\ PublishedCanRun /\ AgentsStayInScope

Transitions and grants are one kind of step (`Written`): an administrator writes
one release, as he saw it last.  Then:

- *Grants.*  `GrantsOnRecord` also says that nothing was decided about a release
  that does not exist.  A written release grants at least what it did, so a run that
  was covered stays covered (`RunsAreFounded`, which adds that its agent and release
  exist: neither is ever deleted).
- *Vetting.*  `ActiveIsVetted` says what an active release has passed, and is not
  inductive: `Vetted` says it of every state on the way (`Checks`).
- *Decided as read.*  `Fresh` compares revisions only.  That an equal revision means
  an equal row is `ReadingsAge`: a reading is older than its release or it is the
  release.
- *A grant takes nothing from a harness.*  With one family there is at most one
  active release (`OneOfFamily`), which stays the one that serves.
- *`limit 1`.*  `OrderIsStrict` makes the newest release unique (`NewestIsOne`).

### Only model-checked

Every safety invariant, action property and refinement that a passing run checks is
also a theorem.  What rests on TLC alone is liveness (`RunsSettle`,
`ApprovedIsExecuted`, `EveryOrgIsSwept`, `RunReturns`), which is out of the prover's
reach, and what a violation shows (`RunsSweepTwice`).

## 6. What is not modelled, and why

- **Data.**  Context, instructions, names, wording and time-stamps: no property here
  distinguishes them.  In `AgentRuns` a gate's schema is valid or not and an answer is
  valid (an invalid one changes nothing); `Questions` is about which ones are.
- **Durations.**  A lease passes after its holder is gone, or, as a counted fault,
  before.  That River's job time-out is shorter than the harness budget is
  therefore one of the ways a worker crashes, not a number.
- **Replays that change nothing**: the same decision, the same reply to an offer, the
  same completed transfer sent again.
- **The HTTP layer, OIDC and configuration**: they decode, authenticate and call
  one store operation each.
- **PostgreSQL and River** are external: transactions are atomic and serial per
  organisation, and a job is delivered at least once until River discards it.
- **Operations without a caller** outside the tests: `PurgeExpiredLoginTransactions`,
  `RevokeSessionsForPrincipal` and its kind, `LinkOIDCIdentity`,
  `UnlinkOIDCIdentity`.
- **Reads** that change nothing and decide nothing: lists, boards, a single gate.
- **Around a harness**: the built-in simulator, where the runner's configuration comes
  from, the sweep of old working directories, the environment of the child.
- **Around a session**: cookies, CSRF tokens, PKCE and the verification of tokens: a
  provider confirms an account or it does not.
- **Creation of tasks**, which exist from the start, and manifests, licences and
  provenance of releases, which only describe them.
- **Migrations, seed and web client**: they run before or beside the system; the
  constraints that migrations install are guards of the models.

---

## 7. Plan

Done: every component of the store that changes state, the connectors and the
execution of a harness; abstract specifications of runs, changes and accountability;
proofs of every safety property that is checked.  What is left, in order of what it
would add:

1. `Work`: `AgentRuns` and `Governance` composed over the shared tasks, people and
   proposals, in one specification: a draft of a run supersedes a proposal, a
   cancelled task ends both.
2. `Registry` composed with `AgentRuns`: `release` becomes the state of a real
   release, and a run that was admitted goes on under it or not.
