--------------------------- MODULE AgentRunsProofs ---------------------------
(***************************************************************************)
(* Theorems about AgentRuns for every set of runs, tasks, gates, people    *)
(* and workers, and every bound.                                           *)
(***************************************************************************)
EXTENDS AgentRuns, TLAPS

\* A worker between two transactions knows its run; an idle one holds nothing.
WorkerShape ==
  \A w \in Worker :
    /\ worker[w].pc # "idle" => worker[w].run \in Run
    /\ worker[w].pc = "idle" => ~worker[w].job /\ worker[w].token = 0
    /\ worker[w].pc = "probe" => worker[w].token = 0

IInv ==
  /\ TypeOK
  /\ WorkerShape
  /\ ClaimTokensAreUnique
  /\ PublishedOnce
  /\ QuestionsMatchWaitingRuns
  /\ CancelledTaskIsQuiet
  /\ NoStrandedRun

-----------------------------------------------------------------------------
\* Ending a claim keeps a row a row.
LEMMA UnclaimedType ==
  ASSUME NEW row \in RunRow, NEW s \in Live \cup Terminal
  PROVE  /\ Unclaimed(row, s) \in RunRow
         /\ Unclaimed(row, s).status = s
         /\ Unclaimed(row, s).token = 0
         /\ Unclaimed(row, s).lease = "none"
         /\ Unclaimed(row, s).gate = row.gate
         /\ Unclaimed(row, s).attempt = row.attempt
  BY DEF Unclaimed, RunRow

LEMMA AckType ==
  ASSUME TypeOK, NEW w \in Worker, Ack(w)
  PROVE  /\ worker' \in [Worker -> WorkerState]
         /\ jobs' \in [Run -> Nat] /\ discarded' \in [Run -> Nat]
  BY DEF TypeOK, Ack, Idle, WorkerState

\* A delivery handed back to River is available again or counted as given up.
LEMMA RetryEffect ==
  ASSUME TypeOK, NEW r \in Run, Retry(r)
  PROVE  /\ jobs' \in [Run -> Nat] /\ discarded' \in [Run -> Nat]
         /\ \A q \in Run \ {r} : jobs'[q] = jobs[q] /\ discarded'[q] = discarded[q]
         /\ discarded'[r] = 0 => discarded[r] = 0 /\ jobs'[r] > 0
<1>1. CASE Enqueue(r) /\ UNCHANGED discarded
  BY <1>1 DEF TypeOK, Enqueue
<1>2. CASE Discard(r) /\ UNCHANGED jobs
  BY <1>2 DEF TypeOK, Discard
<1> QED BY <1>1, <1>2 DEF Retry

\* A claim that fails takes no delivery away that is not counted as given up.
LEMMA ClaimFailsEffect ==
  ASSUME TypeOK, NEW w \in Worker, NEW r \in Run, ClaimFails(w, r)
  PROVE  /\ jobs' \in [Run -> Nat] /\ discarded' \in [Run -> Nat]
         /\ \A q \in Run : discarded'[q] = 0 =>
              discarded[q] = 0 /\ jobs'[q] = jobs[q]
         /\ faults' \in Nat
         /\ UNCHANGED <<run, gate, task, active, release, published, reclaimed,
                        worker, badQuestions>>
<1>1. CASE UNCHANGED <<jobs, discarded>>
  BY <1>1 DEF TypeOK, ClaimFails, people
<1>2. CASE Discard(r) /\ jobs' = [jobs EXCEPT ![r] = @ - 1]
  BY <1>2 DEF TypeOK, ClaimFails, Discard, people
<1> QED BY <1>1, <1>2 DEF ClaimFails

LEMMA NackType ==
  ASSUME TypeOK, WorkerShape, NEW w \in Worker, Nack(w), worker[w].pc # "idle"
  PROVE  /\ worker' \in [Worker -> WorkerState]
         /\ jobs' \in [Run -> Nat] /\ discarded' \in [Run -> Nat]
  <1>1. worker' \in [Worker -> WorkerState]
    BY DEF TypeOK, Nack, Idle, WorkerState
  <1>2. jobs' \in [Run -> Nat] /\ discarded' \in [Run -> Nat]
    BY RetryEffect DEF TypeOK, WorkerShape, Nack
  <1> QED BY <1>1, <1>2

LEMMA TypeStep ==
  ASSUME TypeOK, WorkerShape, [Next]_vars
  PROVE  TypeOK'
<1> USE RunAssumption
<1>1. ASSUME NEW r \in Run, NEW p \in Principal, CreateAgentRun(r, p)
      PROVE  TypeOK'
  <2>1. [run[r] EXCEPT !.status = "queued", !.initiator = p] \in RunRow
    <3>1. run[r] \in RunRow
      BY DEF TypeOK
    <3> QED BY <3>1 DEF RunRow, Live
  <2>2. run' = [run EXCEPT ![r] =
                  [run[r] EXCEPT !.status = "queued", !.initiator = p]]
    BY <1>1 DEF TypeOK, CreateAgentRun
  <2>3. run' \in [Run -> RunRow] /\ jobs' \in [Run -> Nat]
    BY <1>1, <2>1, <2>2 DEF TypeOK, CreateAgentRun, Enqueue
  <2> QED BY <1>1, <2>3 DEF TypeOK, CreateAgentRun, people, budget
<1>2. ASSUME NEW t \in Task, CancelTask(t) PROVE TypeOK'
  <2>1. run' \in [Run -> RunRow]
    BY <1>2, UnclaimedType DEF TypeOK, CancelTask, Terminal
  <2>2. gate' \in [Gate -> GateRow]
    BY <1>2 DEF TypeOK, CancelTask, GateRow
  <2>3. task' \in [Task -> TaskRow]
    BY <1>2 DEF TypeOK, CancelTask, TaskRow, Closed
  <2> QED BY <1>2, <2>1, <2>2, <2>3 DEF TypeOK, CancelTask, budget
<1>3. ASSUME NEW t \in Task, CompleteTask(t) PROVE TypeOK'
  BY <1>3 DEF TypeOK, CompleteTask, TaskRow, Closed, budget
<1>4. ASSUME NEW t \in Task, NEW p \in Principal, AcceptHandoff(t, p)
      PROVE  TypeOK'
  BY <1>4 DEF TypeOK, AcceptHandoff, TaskRow, budget
<1>5. ASSUME NEW p \in Principal, Revoke(p) PROVE TypeOK'
  BY <1>5 DEF TypeOK, Revoke, budget
<1>6. ASSUME ReleaseChanges PROVE TypeOK'
  BY <1>6 DEF TypeOK, ReleaseChanges, budget
<1>7. ASSUME NEW g \in Gate, NEW p \in Principal, ResolveGate(g, p)
      PROVE  TypeOK'
  <2>1. gate' \in [Gate -> GateRow]
    BY <1>7 DEF TypeOK, ResolveGate, GateRow
  <2>2. run' \in [Run -> RunRow] /\ jobs' \in [Run -> Nat]
    BY <1>7, UnclaimedType DEF TypeOK, ResolveGate, Enqueue, Live
  <2> QED BY <1>7, <2>1, <2>2 DEF TypeOK, ResolveGate, people, budget
<1>8. ASSUME NEW w \in Worker, NEW r \in Run, Claim(w, r) PROVE TypeOK'
  <2>1. run' \in [Run -> RunRow]
    BY <1>8 DEF TypeOK, Claim, RunRow, Live
  <2>2. jobs' \in [Run -> Nat]
    BY <1>8 DEF TypeOK, Claim
  <2>3. worker' \in [Worker -> WorkerState]
    BY <1>8 DEF TypeOK, Claim, WorkerState, RunRow
  <2> QED BY <1>8, <2>1, <2>2, <2>3 DEF TypeOK, Claim, people, budget
<1>9. ASSUME NEW w \in Worker, NEW r \in Run, ClaimRefused(w, r)
      PROVE  TypeOK'
  <2>1. jobs' \in [Run -> Nat]
    BY <1>9 DEF TypeOK, ClaimRefused
  <2>2. worker' \in [Worker -> WorkerState]
    BY <1>9 DEF TypeOK, ClaimRefused, WorkerState
  <2> QED BY <1>9, <2>1, <2>2 DEF TypeOK, ClaimRefused, people, budget
<1>16. ASSUME NEW w \in Worker, NEW r \in Run, ClaimFails(w, r) PROVE TypeOK'
  BY <1>16, ClaimFailsEffect DEF TypeOK
<1>10. ASSUME NEW w \in Worker, WorkerStep(w) PROVE TypeOK'
  <2>1. CASE ProbeBusy(w)
    BY <2>1, NackType DEF TypeOK, ProbeBusy, people
  <2>2. CASE ProbeDone(w)
    BY <2>2, AckType DEF TypeOK, ProbeDone, people
  <2>3. CASE Gather(w)
    <3>1. worker[w] \in WorkerState /\ worker[w].run \in Run
      BY <2>3 DEF TypeOK, WorkerShape, Gather
    <3>2. task[TaskOf[worker[w].run]].owner \in Principal
      BY <3>1 DEF TypeOK, TaskRow
    <3>3. worker' \in [Worker -> WorkerState]
      BY <2>3, <3>1, <3>2 DEF TypeOK, Gather, WorkerState
    <3> QED BY <2>3, <3>3 DEF TypeOK, Gather, people, budget
  <2>4. CASE HarnessFails(w)
    <3>1. worker' \in [Worker -> WorkerState]
      <4>1. worker' = [worker EXCEPT ![w] = [worker[w] EXCEPT !.pc = "fail"]]
        BY <2>4 DEF TypeOK, HarnessFails, Goto
      <4>2. [worker[w] EXCEPT !.pc = "fail"] \in WorkerState
        BY DEF TypeOK, WorkerState
      <4> QED BY <4>1, <4>2 DEF TypeOK
    <3> QED BY <2>4, <3>1 DEF TypeOK, HarnessFails, people, budget
  <2>5. CASE RecordFailure(w)
    <3>1. run' \in [Run -> RunRow]
      BY <2>5, UnclaimedType DEF TypeOK, RecordFailure, Terminal
    <3> QED BY <2>5, <3>1, AckType DEF TypeOK, RecordFailure, people
  <2>6. CASE Displaced(w)
    BY <2>6, AckType DEF TypeOK, Displaced, people
  <2>7. CASE ParkRefused(w)
    BY <2>7, NackType DEF TypeOK, ParkRefused, people
  <2>8. CASE PublishRefused(w)
    <3>1. run' \in [Run -> RunRow]
      BY <2>8, UnclaimedType DEF TypeOK, PublishRefused, Terminal
    <3> QED BY <2>8, <3>1, AckType DEF TypeOK, PublishRefused, people
  <2>9. CASE DraftRejected(w)
    BY <2>9 DEF TypeOK, DraftRejected, Goto, WorkerState, people, budget
  <2>10. CASE Publish(w)
    <3>1. run' \in [Run -> RunRow] /\ published' \in [Run -> Nat]
      BY <2>10, UnclaimedType DEF TypeOK, WorkerShape, Publish, Terminal
    <3> QED BY <2>10, <3>1, AckType DEF TypeOK, Publish, people
  <2>11. ASSUME NEW g \in Gate, Park(w, g) PROVE TypeOK'
    <3>1. worker[w].run \in Run /\ worker[w].owner \in Principal \cup {NoOne}
      BY <2>11 DEF TypeOK, WorkerShape, Park, WorkerState
    <3>2. gate' \in [Gate -> GateRow]
      BY <2>11, <3>1 DEF TypeOK, Park, GateRow
    <3>3. [Unclaimed(run[worker[w].run], "waiting") EXCEPT !.gate = g]
            \in RunRow
      <4>1. Unclaimed(run[worker[w].run], "waiting") \in RunRow
        BY <3>1, UnclaimedType DEF TypeOK, Live
      <4> QED BY <4>1 DEF RunRow
    <3>4. run' \in [Run -> RunRow]
      BY <2>11, <3>1, <3>3 DEF TypeOK, Park
    <3>5. worker' \in [Worker -> WorkerState] /\ jobs' \in [Run -> Nat]
          /\ discarded' \in [Run -> Nat]
      BY <2>11, AckType DEF Park
    <3>6. UNCHANGED <<task, active, release, published, reclaimed, faults,
                      badQuestions>>
      BY <2>11 DEF Park, people
    <3> QED BY <3>2, <3>4, <3>5, <3>6 DEF TypeOK
  <2> QED
    BY <1>10, <2>1, <2>2, <2>3, <2>4, <2>5, <2>6, <2>7, <2>8, <2>9, <2>10,
       <2>11 DEF WorkerStep
<1>11. ASSUME NEW w \in Worker, Crash(w) PROVE TypeOK'
  BY <1>11, NackType DEF TypeOK, Crash, people
<1>12. ASSUME NEW w \in Worker, Rescue(w) PROVE TypeOK'
  <2>1. jobs' \in [Run -> Nat] /\ discarded' \in [Run -> Nat]
    BY <1>12, RetryEffect DEF TypeOK, WorkerShape, Rescue
  <2>2. worker' \in [Worker -> WorkerState]
    <3>1. worker \in [Worker -> WorkerState]
      BY DEF TypeOK
    <3>2. worker' = [worker EXCEPT ![w] = [worker[w] EXCEPT !.job = FALSE]]
      BY <1>12, <3>1 DEF Rescue
    <3>3. [worker[w] EXCEPT !.job = FALSE] \in WorkerState
      BY <3>1 DEF WorkerState
    <3> QED BY <3>1, <3>2, <3>3
  <2> QED BY <1>12, <2>1, <2>2 DEF TypeOK, Rescue, people
<1>13. ASSUME NEW r \in Run, LeaseExpires(r) \/ LeaseOutlived(r) PROVE TypeOK'
  <2>1. run' = [run EXCEPT ![r] = [run[r] EXCEPT !.lease = "expired"]]
    BY <1>13 DEF TypeOK, LeaseExpires, LeaseOutlived
  <2>2. [run[r] EXCEPT !.lease = "expired"] \in RunRow
    <3>1. run[r] \in RunRow
      BY DEF TypeOK
    <3> QED BY <3>1 DEF RunRow
  <2>3. run' \in [Run -> RunRow]
    BY <2>1, <2>2 DEF TypeOK
  <2>4. CASE LeaseExpires(r)
    BY <2>4, <2>3 DEF TypeOK, LeaseExpires, people, budget
  <2>5. CASE LeaseOutlived(r)
    BY <2>5, <2>3 DEF TypeOK, LeaseOutlived, people
  <2> QED BY <1>13, <2>4, <2>5
<1>14. ASSUME Sweep PROVE TypeOK'
  <2>1. PICK C \in SUBSET Stale :
          /\ reclaimed' = reclaimed \cup C
          /\ run' = [r \in Run |-> IF r \in C
                     THEN [Unclaimed(run[r], "queued") EXCEPT !.attempt = @ + 1]
                     ELSE run[r]]
          /\ jobs' = [r \in Run |-> IF r \in C THEN jobs[r] + 1 ELSE jobs[r]]
    BY <1>14 DEF Sweep
  <2>2. \A r \in Run :
          [Unclaimed(run[r], "queued") EXCEPT !.attempt = @ + 1] \in RunRow
    <3>1. \A r \in Run : Unclaimed(run[r], "queued") \in RunRow
      BY UnclaimedType DEF TypeOK, Live
    <3>2. \A row \in RunRow : [row EXCEPT !.attempt = @ + 1] \in RunRow
      BY DEF RunRow
    <3> QED BY <3>1, <3>2
  <2>3. run' \in [Run -> RunRow]
    BY <2>1, <2>2 DEF TypeOK
  <2>4. jobs' \in [Run -> Nat]
    BY <2>1 DEF TypeOK
  <2>5. reclaimed' \in SUBSET Run
    BY <2>1 DEF TypeOK, Stale
  <2> QED BY <1>14, <2>3, <2>4, <2>5 DEF TypeOK, Sweep, people, budget
<1>15. CASE UNCHANGED vars
  BY <1>15 DEF TypeOK, vars
<1> QED
  BY <1>1, <1>2, <1>3, <1>4, <1>5, <1>6, <1>7, <1>8, <1>9, <1>10, <1>11,
     <1>12, <1>13, <1>14, <1>15, <1>16 DEF Next, Deliver
-----------------------------------------------------------------------------
\* No step gives an idle worker a job or a token, or loses a run in hand.
LEMMA ShapeStep ==
  ASSUME TypeOK, WorkerShape, [Next]_vars
  PROVE  WorkerShape'
<1>1. CASE UNCHANGED worker
  BY <1>1 DEF WorkerShape
<1>2. ASSUME NEW w \in Worker, worker' = [worker EXCEPT ![w] = Idle]
      PROVE  WorkerShape'
  BY <1>2 DEF TypeOK, WorkerShape, Idle
<1>3. ASSUME NEW w \in Worker, NEW r \in Run, Claim(w, r) \/ ClaimRefused(w, r)
      PROVE  WorkerShape'
  BY <1>3 DEF TypeOK, WorkerShape, Claim, ClaimRefused
<1>4. ASSUME NEW w \in Worker, Gather(w) PROVE WorkerShape'
  BY <1>4 DEF TypeOK, WorkerShape, WorkerState, Gather
<1>5. ASSUME NEW w \in Worker, HarnessFails(w) \/ DraftRejected(w)
      PROVE  WorkerShape'
  <2>1. worker' = [worker EXCEPT ![w].pc = "fail"] /\ worker[w].pc # "idle"
    BY <1>5 DEF HarnessFails, DraftRejected, Goto
  <2> QED BY <2>1 DEF TypeOK, WorkerShape, WorkerState
<1>6. ASSUME NEW w \in Worker, Rescue(w) PROVE WorkerShape'
  BY <1>6 DEF TypeOK, WorkerShape, WorkerState, Rescue
<1>7. ASSUME NEW w \in Worker, WorkerStep(w) PROVE WorkerShape'
  BY <1>7, <1>2, <1>4, <1>5
     DEF WorkerStep, ProbeBusy, ProbeDone, RecordFailure, Displaced, Park,
         ParkRefused, PublishRefused, Publish, Ack, Nack
<1>8. ASSUME NEW w \in Worker, Crash(w) PROVE WorkerShape'
  BY <1>8, <1>2 DEF Crash, Nack
<1> QED
  BY <1>1, <1>3, <1>6, <1>7, <1>8
     DEF Next, vars, Deliver, ClaimFails, CreateAgentRun, CancelTask,
         CompleteTask, AcceptHandoff, Revoke, ReleaseChanges, ResolveGate,
         LeaseExpires, LeaseOutlived, Sweep
-----------------------------------------------------------------------------
(* The fence.  Every step but a claim leaves each row's claim as it is or  *)
(* ends it, and gives no worker a token.                                   *)

RowsSettle ==
  \A r \in Run :
    /\ run'[r].attempt >= run[r].attempt
    /\ \/ /\ run'[r].status # "running"
          /\ run'[r].token = 0
          /\ run'[r].lease = "none"
       \/ /\ run'[r].status = run[r].status
          /\ run'[r].token = run[r].token
          /\ run'[r].lease = "none" <=> run[r].lease = "none"

Holder == {"gather", "run", "fail"}

WorkersStay ==
  \A w \in Worker :
    \/ /\ worker'[w].token = 0
       /\ worker'[w].pc \notin Holder
    \/ /\ worker'[w].token = worker[w].token
       /\ worker'[w].run = worker[w].run
       /\ worker'[w].pc \in Holder => worker[w].pc \in Holder

LEMMA RowsStep ==
  ASSUME TypeOK, WorkerShape, ClaimTokensAreUnique, [Next]_vars,
         ~ \E w \in Worker, r \in Run : Claim(w, r)
  PROVE  RowsSettle
<1>1. CASE UNCHANGED run
  BY <1>1 DEF RowsSettle, TypeOK, RunRow
<1>2. ASSUME NEW r \in Run, NEW s \in Live \cup Terminal, s # "running",
             run' = [run EXCEPT ![r] = Unclaimed(@, s)]
      PROVE  RowsSettle
  <2>1. /\ run'[r].status # "running" /\ run'[r].token = 0
        /\ run'[r].lease = "none" /\ run'[r].attempt = run[r].attempt
    BY <1>2, UnclaimedType DEF TypeOK
  <2>2. \A q \in Run \ {r} : run'[q] = run[q]
    BY <1>2 DEF TypeOK
  <2> QED BY <2>1, <2>2 DEF RowsSettle, TypeOK, RunRow
<1>3. ASSUME NEW r \in Run, NEW p \in Principal, CreateAgentRun(r, p)
      PROVE  RowsSettle
  BY <1>3 DEF RowsSettle, TypeOK, RunRow, CreateAgentRun, ClaimTokensAreUnique
<1>4. ASSUME NEW t \in Task, CancelTask(t) PROVE RowsSettle
  <2> SUFFICES ASSUME NEW r \in Run
               PROVE  /\ run'[r].attempt >= run[r].attempt
                      /\ \/ /\ run'[r].status # "running"
                            /\ run'[r].token = 0
                            /\ run'[r].lease = "none"
                         \/ run'[r] = run[r]
    BY DEF RowsSettle
  <2>1. run'[r] = run[r] \/ run'[r] = Unclaimed(run[r], "cancelled")
    BY <1>4 DEF CancelTask
  <2> QED BY <2>1, UnclaimedType DEF TypeOK, RunRow, Terminal
<1>5. ASSUME NEW g \in Gate, NEW p \in Principal, ResolveGate(g, p)
      PROVE  RowsSettle
  <2>1. CASE gate[g].run \in Run
    BY <1>5, <1>1, <1>2, <2>1 DEF ResolveGate, Live
  <2>2. CASE gate[g].run \notin Run
    BY <1>5, <1>1, <2>2 DEF ResolveGate, TypeOK
  <2> QED BY <2>1, <2>2
<1>6. ASSUME NEW w \in Worker, WorkerStep(w) PROVE RowsSettle
  <2>1. worker[w].pc # "idle" => worker[w].run \in Run
    BY DEF WorkerShape
  <2>2. CASE RecordFailure(w)
    BY <2>1, <2>2, <1>1, <1>2 DEF RecordFailure, Terminal
  <2>3. CASE PublishRefused(w) \/ Publish(w)
    BY <2>1, <2>3, <1>2 DEF PublishRefused, Publish, Terminal
  <2>4. ASSUME NEW g \in Gate, Park(w, g) PROVE RowsSettle
    <3> DEFINE r == worker[w].run
    <3>1. r \in Run /\ Unclaimed(run[r], "waiting") \in RunRow
      BY <2>1, <2>4, UnclaimedType DEF Park, TypeOK, Live
    <3>2. run' = [run EXCEPT ![r] = [Unclaimed(run[r], "waiting")
                                       EXCEPT !.gate = g]]
      BY <2>4, <3>1 DEF Park, TypeOK
    <3>3. /\ run'[r].status # "running" /\ run'[r].token = 0
          /\ run'[r].lease = "none" /\ run'[r].attempt = run[r].attempt
      BY <3>1, <3>2, UnclaimedType DEF TypeOK, RunRow, Live
    <3>4. \A q \in Run \ {r} : run'[q] = run[q]
      BY <3>2 DEF TypeOK
    <3> QED BY <3>1, <3>3, <3>4 DEF RowsSettle, TypeOK, RunRow
  <2> QED
    BY <1>6, <1>1, <2>2, <2>3, <2>4
       DEF WorkerStep, ProbeBusy, ProbeDone, Gather, HarnessFails, Displaced,
           ParkRefused, DraftRejected
<1>7. ASSUME NEW r \in Run, LeaseExpires(r) \/ LeaseOutlived(r)
      PROVE  RowsSettle
  <2>1. run' = [run EXCEPT ![r] = [run[r] EXCEPT !.lease = "expired"]]
        /\ run[r].lease = "live"
    BY <1>7 DEF TypeOK, LeaseExpires, LeaseOutlived
  <2>2. run[r] \in RunRow
    BY DEF TypeOK
  <2>3. /\ run'[r].attempt = run[r].attempt /\ run'[r].token = run[r].token
        /\ run'[r].status = run[r].status /\ run'[r].lease # "none"
    BY <2>1, <2>2 DEF TypeOK, RunRow
  <2>4. \A q \in Run \ {r} : run'[q] = run[q]
    BY <2>1 DEF TypeOK
  <2> QED BY <2>1, <2>2, <2>3, <2>4 DEF RowsSettle, TypeOK, RunRow
<1>8. ASSUME Sweep PROVE RowsSettle
  <2>1. PICK C \in SUBSET Stale :
          run' = [r \in Run |-> IF r \in C
                  THEN [Unclaimed(run[r], "queued") EXCEPT !.attempt = @ + 1]
                  ELSE run[r]]
    BY <1>8 DEF Sweep
  <2>2. \A r \in Run : Unclaimed(run[r], "queued") \in RunRow
    BY UnclaimedType DEF TypeOK, Live
  <2>3. ASSUME NEW r \in C
        PROVE  /\ run'[r].status # "running" /\ run'[r].token = 0
               /\ run'[r].lease = "none"
               /\ run'[r].attempt >= run[r].attempt
    <3>1. r \in Run
      BY <2>3 DEF Stale
    <3>2. run'[r] = [Unclaimed(run[r], "queued") EXCEPT !.attempt = @ + 1]
      BY <2>1, <2>3, <3>1
    <3> QED BY <2>2, <3>1, <3>2, UnclaimedType DEF TypeOK, RunRow, Live
  <2>4. \A r \in Run \ C : run'[r] = run[r]
    BY <2>1
  <2> QED BY <2>3, <2>4 DEF RowsSettle, TypeOK, RunRow
<1> QED
  BY <1>1, <1>3, <1>4, <1>5, <1>6, <1>7, <1>8
     DEF Next, vars, Deliver, CompleteTask, AcceptHandoff, Revoke,
         ReleaseChanges, ClaimRefused, ClaimFails, Crash, Rescue

LEMMA WorkersStep ==
  ASSUME TypeOK, WorkerShape, [Next]_vars,
         ~ \E w \in Worker, r \in Run : Claim(w, r)
  PROVE  WorkersStay
<1>1. CASE UNCHANGED worker
  BY <1>1 DEF WorkersStay
<1>2. ASSUME NEW w \in Worker, worker' = [worker EXCEPT ![w] = Idle]
      PROVE  WorkersStay
  BY <1>2 DEF TypeOK, WorkersStay, Idle, Holder
<1>3. ASSUME NEW w \in Worker, NEW r \in Run, ClaimRefused(w, r)
      PROVE  WorkersStay
  BY <1>3 DEF TypeOK, WorkersStay, ClaimRefused, Holder
<1>4. ASSUME NEW w \in Worker, Gather(w) \/ HarnessFails(w) \/ DraftRejected(w)
      PROVE  WorkersStay
  BY <1>4 DEF TypeOK, WorkerState, WorkersStay, Holder, Gather, HarnessFails,
              DraftRejected, Goto
<1>6. ASSUME NEW w \in Worker, Rescue(w) PROVE WorkersStay
  <2>1. worker' = [worker EXCEPT ![w].job = FALSE]
    BY <1>6 DEF Rescue
  <2> QED BY <2>1 DEF TypeOK, WorkerState, WorkersStay, Holder
<1>5. ASSUME NEW w \in Worker, WorkerStep(w) \/ Crash(w) PROVE WorkersStay
  BY <1>5, <1>2, <1>4
     DEF WorkerStep, ProbeBusy, ProbeDone, RecordFailure, Displaced, Park,
         ParkRefused, PublishRefused, Publish, Crash, Ack, Nack
<1> QED
  BY <1>1, <1>3, <1>4, <1>5, <1>6
     DEF Next, vars, Deliver, ClaimFails, CreateAgentRun, CancelTask,
         CompleteTask, AcceptHandoff, Revoke, ReleaseChanges, ResolveGate,
         LeaseExpires, LeaseOutlived, Sweep
LEMMA TokensStep ==
  ASSUME TypeOK, WorkerShape, ClaimTokensAreUnique, [Next]_vars
  PROVE  ClaimTokensAreUnique'
<1>1. TypeOK' /\ WorkerShape'
  BY TypeStep, ShapeStep
<1>2. CASE ~ \E w \in Worker, r \in Run : Claim(w, r)
  <2>1. RowsSettle /\ WorkersStay
    BY <1>2, RowsStep, WorkersStep
  <2>2. \A r \in Run : /\ run[r].attempt \in Nat /\ run[r].token \in Nat
                       /\ run'[r].attempt \in Nat /\ run'[r].token \in Nat
    BY <1>1 DEF TypeOK, RunRow
  <2>3. ASSUME NEW r \in Run
        PROVE  /\ run'[r].token # 0 <=> run'[r].status = "running"
               /\ run'[r].lease # "none" <=> run'[r].status = "running"
               /\ run'[r].token <= run'[r].attempt
    BY <2>1, <2>2 DEF RowsSettle, ClaimTokensAreUnique
  <2>4. ASSUME NEW w \in Worker, worker'[w].pc \in Holder
        PROVE  worker'[w].token \in 1 .. run'[worker'[w].run].attempt
    <3>1. /\ worker'[w].token = worker[w].token
          /\ worker'[w].run = worker[w].run
          /\ worker[w].pc \in Holder
      BY <2>1, <2>4 DEF WorkersStay
    <3>2. worker[w].token \in 1 .. run[worker[w].run].attempt
          /\ worker[w].run \in Run
      BY <3>1 DEF ClaimTokensAreUnique, WorkerShape, Holder
    <3>3. run'[worker[w].run].attempt >= run[worker[w].run].attempt
      BY <2>1, <3>2 DEF RowsSettle
    <3> QED BY <2>2, <3>1, <3>2, <3>3
  <2>5. ASSUME NEW v \in Worker, NEW w \in Worker, v # w,
               worker'[v].run = worker'[w].run,
               worker'[v].token = worker'[w].token
        PROVE  worker'[v].token = 0
    BY <2>1, <2>5 DEF WorkersStay, ClaimTokensAreUnique
  <2> QED BY <2>3, <2>4, <2>5 DEF ClaimTokensAreUnique, Holder
<1>3. ASSUME NEW w \in Worker, NEW r \in Run, Claim(w, r)
      PROVE  ClaimTokensAreUnique'
  <2> DEFINE n == run[r].attempt + 1
  <2>1. /\ run[r] \in RunRow /\ run[r].attempt \in Nat
        /\ run' = [run EXCEPT ![r] =
             [run[r] EXCEPT !.status = "running", !.lease = "live",
                            !.attempt = n, !.token = n]]
    BY <1>3 DEF TypeOK, Claim, RunRow
  <2>2. /\ run'[r].status = "running" /\ run'[r].lease = "live"
        /\ run'[r].attempt = n /\ run'[r].token = n
    BY <2>1 DEF TypeOK, RunRow
  <2>3. \A q \in Run \ {r} : run'[q] = run[q]
    BY <2>1 DEF TypeOK
  <2>4. /\ worker'[w].run = r /\ worker'[w].token = n
        /\ \A v \in Worker \ {w} : worker'[v] = worker[v]
    BY <1>3 DEF TypeOK, Claim
  <2>5. ASSUME NEW q \in Run
        PROVE  /\ run'[q].token # 0 <=> run'[q].status = "running"
               /\ run'[q].lease # "none" <=> run'[q].status = "running"
               /\ run'[q].token <= run'[q].attempt
    BY <2>1, <2>2, <2>3 DEF ClaimTokensAreUnique
  <2>6. \A v \in Worker \ {w} :
          /\ worker[v].token \in Nat
          /\ worker[v].pc \in Holder => worker[v].run \in Run
          /\ worker[v].pc \in Holder =>
               worker[v].token \in 1 .. run[worker[v].run].attempt
          /\ worker[v].pc \notin Holder => worker[v].token = 0
    BY DEF TypeOK, WorkerState, WorkerShape, Holder, ClaimTokensAreUnique
  <2>7. ASSUME NEW v \in Worker, worker'[v].pc \in Holder
        PROVE  worker'[v].token \in 1 .. run'[worker'[v].run].attempt
    <3>1. CASE v = w
      BY <3>1, <2>1, <2>2, <2>4
    <3>2. CASE v # w /\ worker[v].run = r
      BY <3>2, <2>1, <2>2, <2>4, <2>6, <2>7
    <3>3. CASE v # w /\ worker[v].run # r
      BY <3>3, <2>3, <2>4, <2>6, <2>7
    <3> QED BY <3>1, <3>2, <3>3
  <2>8. \A v \in Worker \ {w} : worker[v].run = r => worker[v].token # n
    BY <2>1, <2>6
  <2>9. ASSUME NEW u \in Worker, NEW v \in Worker, u # v,
               worker'[u].run = worker'[v].run,
               worker'[u].token = worker'[v].token
        PROVE  worker'[u].token = 0
    BY <2>4, <2>8, <2>9 DEF ClaimTokensAreUnique
  <2> QED BY <2>5, <2>7, <2>9 DEF ClaimTokensAreUnique, Holder
<1> QED BY <1>2, <1>3
-----------------------------------------------------------------------------
(* What a step does to rows.  Apart from a publication, a question, an     *)
(* answer and a cancellation a step moves rows among the statuses nobody   *)
(* outside the queue looks at, and leaves questions and proposals alone.   *)

InnerMove(r) ==
  \/ run'[r] = run[r]
  \/ /\ run[r].status = "absent" /\ run'[r].status = "queued"
     /\ TaskStatus(r) \notin Closed
  \/ /\ run[r].status \in {"queued", "running"}
     /\ run'[r].status \in {"queued", "running", "failed"}

Outer ==
  \/ \E t \in Task : CancelTask(t)
  \/ \E g \in Gate, p \in Principal : ResolveGate(g, p)
  \/ \E w \in Worker : Publish(w) \/ \E g \in Gate : Park(w, g)

\* A worker that records a failure under the token of the run finds the run
\* running: tokens are 0 on every other row.
LEMMA MatchIsRunning ==
  ASSUME WorkerShape, ClaimTokensAreUnique,
         NEW w \in Worker, worker[w].pc \in Holder,
         run[worker[w].run].token = worker[w].token
  PROVE  worker[w].run \in Run /\ run[worker[w].run].status = "running"
<1>1. worker[w].run \in Run
  BY DEF WorkerShape, Holder
<1>2. worker[w].token # 0
  BY DEF ClaimTokensAreUnique, Holder
<1> QED BY <1>1, <1>2 DEF ClaimTokensAreUnique

LEMMA InnerStep ==
  ASSUME TypeOK, WorkerShape, ClaimTokensAreUnique, [Next]_vars, ~Outer
  PROVE  /\ \A r \in Run : InnerMove(r)
         /\ UNCHANGED <<gate, published>>
<1> DEFINE Goal == /\ \A r \in Run : InnerMove(r)
                   /\ UNCHANGED <<gate, published>>
<1>1. CASE UNCHANGED <<run, gate, published>>
  BY <1>1 DEF InnerMove
<1>2. ASSUME NEW r \in Run, run[r].status \in {"queued", "running"},
             run'[r].status \in {"queued", "running", "failed"},
             \A q \in Run \ {r} : run'[q] = run[q],
             UNCHANGED <<gate, published>>
      PROVE  Goal
  BY <1>2 DEF InnerMove
<1>3. ASSUME NEW r \in Run, NEW p \in Principal, CreateAgentRun(r, p)
      PROVE  Goal
  <2>1. run'[r].status = "queued" /\ \A q \in Run \ {r} : run'[q] = run[q]
    BY <1>3 DEF TypeOK, RunRow, CreateAgentRun
  <2> QED BY <1>3, <2>1 DEF InnerMove, CreateAgentRun
<1>4. ASSUME NEW w \in Worker, NEW r \in Run, Claim(w, r) PROVE Goal
  <2>1. run'[r].status = "running" /\ \A q \in Run \ {r} : run'[q] = run[q]
    BY <1>4 DEF TypeOK, RunRow, Claim
  <2> QED BY <1>4, <1>2, <2>1 DEF Claim, Claimable
<1>5. ASSUME NEW w \in Worker, RecordFailure(w) PROVE Goal
  <2> DEFINE r == worker[w].run
  <2>1. CASE run[r].token = worker[w].token
    <3>1. r \in Run /\ run[r].status = "running"
      BY <1>5, <2>1, MatchIsRunning DEF RecordFailure, Holder
    <3>2. run' = [run EXCEPT ![r] = Unclaimed(run[r], "failed")]
      BY <1>5, <2>1, <3>1 DEF RecordFailure, TypeOK
    <3>3. run'[r].status = "failed" /\ \A q \in Run \ {r} : run'[q] = run[q]
      BY <3>1, <3>2, UnclaimedType DEF TypeOK, Terminal
    <3> QED BY <1>5, <1>2, <3>1, <3>3 DEF RecordFailure
  <2>2. CASE run[r].token # worker[w].token
    BY <1>5, <1>1, <2>2 DEF RecordFailure
  <2> QED BY <2>1, <2>2
<1>6. ASSUME NEW w \in Worker, PublishRefused(w) PROVE Goal
  <2> DEFINE r == worker[w].run
  <2>1. r \in Run /\ run[r].status = "running"
    BY <1>6 DEF PublishRefused, HoldsClaim, WorkerShape
  <2>2. run'[r].status = "failed" /\ \A q \in Run \ {r} : run'[q] = run[q]
    BY <1>6, <2>1, UnclaimedType DEF PublishRefused, TypeOK, Terminal
  <2> QED BY <1>6, <1>2, <2>1, <2>2 DEF PublishRefused
<1>7. ASSUME NEW r \in Run, LeaseExpires(r) \/ LeaseOutlived(r) PROVE Goal
  <2>1. run[r].status = "running"
    BY <1>7 DEF LeaseExpires, LeaseOutlived, ClaimTokensAreUnique
  <2>2. run'[r].status = run[r].status /\ \A q \in Run \ {r} : run'[q] = run[q]
    BY <1>7 DEF TypeOK, RunRow, LeaseExpires, LeaseOutlived
  <2> QED BY <1>7, <1>2, <2>1, <2>2 DEF LeaseExpires, LeaseOutlived
<1>8. ASSUME Sweep PROVE Goal
  <2>1. PICK C \in SUBSET Stale :
          run' = [r \in Run |-> IF r \in C
                  THEN [Unclaimed(run[r], "queued") EXCEPT !.attempt = @ + 1]
                  ELSE run[r]]
    BY <1>8 DEF Sweep
  <2>2. \A r \in Run : /\ Unclaimed(run[r], "queued") \in RunRow
                       /\ Unclaimed(run[r], "queued").status = "queued"
    BY UnclaimedType DEF TypeOK, Live
  <2>3. \A r \in Run : IF r \in C THEN run'[r].status = "queued"
                       ELSE run'[r] = run[r]
    BY <2>1, <2>2 DEF RunRow
  <2>4. \A r \in C : run[r].status = "running"
    BY DEF Stale
  <2> QED BY <1>8, <2>3, <2>4 DEF InnerMove, Sweep
<1> QED
  BY <1>1, <1>3, <1>4, <1>5, <1>6, <1>7, <1>8
     DEF Next, Outer, vars, Deliver, WorkerStep, CompleteTask, AcceptHandoff,
         Revoke, ReleaseChanges, ClaimRefused, ClaimFails, ProbeBusy, ProbeDone, Gather,
         HarnessFails, Displaced, ParkRefused, DraftRejected, Crash, Rescue
-----------------------------------------------------------------------------
(* The four steps seen from outside.                                       *)

LEMMA CancelStep ==
  ASSUME TypeOK, NEW t \in Task, CancelTask(t)
  PROVE  /\ \A r \in Run :
              IF TaskOf[r] = t /\ run[r].status \in Live
              THEN run'[r].status = "cancelled"
              ELSE run'[r] = run[r]
         /\ \A g \in Gate :
              IF /\ gate[g].status = "pending" /\ gate[g].run \in Run
                 /\ TaskOf[gate[g].run] = t
              THEN gate'[g].status = "cancelled"
              ELSE gate'[g] = gate[g]
         /\ \A s \in Task : task'[s].status = IF s = t THEN "cancelled"
                                              ELSE task[s].status
         /\ UNCHANGED published
<1>1. \A r \in Run : IF TaskOf[r] = t /\ run[r].status \in Live
                     THEN run'[r].status = "cancelled"
                     ELSE run'[r] = run[r]
  BY UnclaimedType DEF CancelTask, TypeOK, Terminal
<1>2. \A g \in Gate : IF /\ gate[g].status = "pending" /\ gate[g].run \in Run
                         /\ TaskOf[gate[g].run] = t
                      THEN gate'[g].status = "cancelled"
                      ELSE gate'[g] = gate[g]
  BY DEF CancelTask, TypeOK, GateRow
<1>3. \A s \in Task : task'[s].status = IF s = t THEN "cancelled"
                                        ELSE task[s].status
  BY DEF CancelTask, TypeOK, TaskRow
<1> QED BY <1>1, <1>2, <1>3 DEF CancelTask

LEMMA ResolveStep ==
  ASSUME TypeOK, QuestionsMatchWaitingRuns,
         NEW g \in Gate, NEW p \in Principal, ResolveGate(g, p)
  PROVE  /\ gate[g].run \in Run
         /\ run[gate[g].run].status = "waiting" /\ run[gate[g].run].gate = g
         /\ run'[gate[g].run].status = "queued"
         /\ \A q \in Run \ {gate[g].run} : run'[q] = run[q]
         /\ jobs' = [jobs EXCEPT ![gate[g].run] = @ + 1]
         /\ gate'[g].status = "resolved"
         /\ \A h \in Gate \ {g} : gate'[h] = gate[h]
         /\ UNCHANGED <<task, published, worker, discarded>>
<1>1. /\ gate[g].run \in Run
      /\ run[gate[g].run].status = "waiting" /\ run[gate[g].run].gate = g
  BY DEF ResolveGate, QuestionsMatchWaitingRuns
<1>2. run' = [run EXCEPT ![gate[g].run] = Unclaimed(@, "queued")]
  BY <1>1 DEF ResolveGate
<1>3. /\ run'[gate[g].run].status = "queued"
      /\ \A q \in Run \ {gate[g].run} : run'[q] = run[q]
  BY <1>1, <1>2, UnclaimedType DEF TypeOK, Live
<1>4. gate'[g].status = "resolved" /\ \A h \in Gate \ {g} : gate'[h] = gate[h]
  BY DEF ResolveGate, TypeOK, GateRow
<1> QED BY <1>1, <1>3, <1>4 DEF ResolveGate, Enqueue, people, budget

LEMMA PublishStep ==
  ASSUME TypeOK, WorkerShape, NEW w \in Worker, Publish(w)
  PROVE  /\ worker[w].run \in Run /\ run[worker[w].run].status = "running"
         /\ run'[worker[w].run].status = "succeeded"
         /\ \A q \in Run \ {worker[w].run} : run'[q] = run[q]
         /\ published' = [published EXCEPT ![worker[w].run] = @ + 1]
         /\ UNCHANGED <<gate, task, jobs, discarded>>
<1>1. worker[w].run \in Run /\ run[worker[w].run].status = "running"
  BY DEF WorkerShape, Publish, HoldsClaim
<1>2. run' = [run EXCEPT ![worker[w].run] =
                Unclaimed(run[worker[w].run], "succeeded")]
  BY <1>1 DEF Publish, TypeOK
<1>3. /\ run'[worker[w].run].status = "succeeded"
      /\ \A q \in Run \ {worker[w].run} : run'[q] = run[q]
  BY <1>1, <1>2, UnclaimedType DEF TypeOK, Terminal
<1> QED BY <1>1, <1>3 DEF Publish, Ack, people

\* A running run has no pending question, so Park never adopts one: it asks
\* a question of its own.
LEMMA ParkStep ==
  ASSUME TypeOK, WorkerShape, QuestionsMatchWaitingRuns,
         NEW w \in Worker, NEW g \in Gate, Park(w, g)
  PROVE  /\ worker[w].run \in Run /\ run[worker[w].run].status = "running"
         /\ run'[worker[w].run].status = "waiting"
         /\ run'[worker[w].run].gate = g
         /\ \A q \in Run \ {worker[w].run} : run'[q] = run[q]
         /\ gate[g].status = "absent"
         /\ gate'[g].status = "pending" /\ gate'[g].run = worker[w].run
         /\ \A h \in Gate \ {g} : gate'[h] = gate[h]
         /\ UNCHANGED <<task, published, jobs, discarded>>
<1> DEFINE r == worker[w].run
<1>1. r \in Run /\ run[r].status = "running"
  BY DEF WorkerShape, Park, HoldsClaim
<1>2. {h \in Gate : gate[h].status = "pending" /\ gate[h].run = r} = {}
  BY <1>1 DEF QuestionsMatchWaitingRuns
<1>3. /\ gate[g].status = "absent"
      /\ gate' = [gate EXCEPT ![g] = [status |-> "pending", run |-> r,
                                      respondent |-> worker[w].owner]]
  BY <1>2 DEF Park
<1>4. Unclaimed(run[r], "waiting") \in RunRow
  BY <1>1, UnclaimedType DEF TypeOK, Live
<1>5. run' = [run EXCEPT ![r] =
                [Unclaimed(run[r], "waiting") EXCEPT !.gate = g]]
  BY <1>1 DEF Park, TypeOK
<1>6. /\ run'[r].status = "waiting" /\ run'[r].gate = g
      /\ \A q \in Run \ {r} : run'[q] = run[q]
  BY <1>1, <1>4, <1>5, UnclaimedType DEF TypeOK, RunRow, Live
<1>7. /\ gate'[g].status = "pending" /\ gate'[g].run = r
      /\ \A h \in Gate \ {g} : gate'[h] = gate[h]
  BY <1>3 DEF TypeOK
<1> QED BY <1>1, <1>3, <1>6, <1>7 DEF Park, Ack, people
-----------------------------------------------------------------------------
(* The invariant is inductive, part by part.                               *)

LEMMA PublishedStep ==
  ASSUME TypeOK, WorkerShape, ClaimTokensAreUnique, PublishedOnce,
         QuestionsMatchWaitingRuns, [Next]_vars
  PROVE  PublishedOnce'
<1>1. CASE ~Outer
  BY <1>1, InnerStep DEF PublishedOnce, InnerMove
<1>2. ASSUME NEW t \in Task, CancelTask(t) PROVE PublishedOnce'
  BY <1>2, CancelStep DEF PublishedOnce, Live
<1>3. ASSUME NEW g \in Gate, NEW p \in Principal, ResolveGate(g, p)
      PROVE  PublishedOnce'
  BY <1>3, ResolveStep DEF PublishedOnce
<1>4. ASSUME NEW w \in Worker, Publish(w) PROVE PublishedOnce'
  BY <1>4, PublishStep DEF PublishedOnce, TypeOK
<1>5. ASSUME NEW w \in Worker, NEW g \in Gate, Park(w, g)
      PROVE  PublishedOnce'
  BY <1>5, ParkStep DEF PublishedOnce
<1> QED BY <1>1, <1>2, <1>3, <1>4, <1>5 DEF Outer

LEMMA QuestionsStep ==
  ASSUME TypeOK, WorkerShape, ClaimTokensAreUnique,
         QuestionsMatchWaitingRuns, [Next]_vars
  PROVE  QuestionsMatchWaitingRuns'
<1>1. CASE ~Outer
  BY <1>1, InnerStep DEF QuestionsMatchWaitingRuns, InnerMove
<1>2. ASSUME NEW t \in Task, CancelTask(t) PROVE QuestionsMatchWaitingRuns'
  BY <1>2, CancelStep DEF QuestionsMatchWaitingRuns, Live
<1>3. ASSUME NEW g \in Gate, NEW p \in Principal, ResolveGate(g, p)
      PROVE  QuestionsMatchWaitingRuns'
  BY <1>3, ResolveStep DEF QuestionsMatchWaitingRuns
<1>4. ASSUME NEW w \in Worker, Publish(w) PROVE QuestionsMatchWaitingRuns'
  BY <1>4, PublishStep DEF QuestionsMatchWaitingRuns
<1>5. ASSUME NEW w \in Worker, NEW g \in Gate, Park(w, g)
      PROVE  QuestionsMatchWaitingRuns'
  BY <1>5, ParkStep DEF QuestionsMatchWaitingRuns
<1> QED BY <1>1, <1>2, <1>3, <1>4, <1>5 DEF Outer

\* Only CancelTask makes a task cancelled, and a cancelled task stays so.
LEMMA TasksStep ==
  ASSUME TypeOK, [Next]_vars, ~ \E t \in Task : CancelTask(t)
  PROVE  \A t \in Task : task'[t].status = "cancelled" <=>
                           task[t].status = "cancelled"
<1>1. CASE UNCHANGED task
  BY <1>1
<1>2. ASSUME NEW t \in Task, CompleteTask(t)
      PROVE  \A s \in Task : task'[s].status = "cancelled" <=>
                               task[s].status = "cancelled"
  BY <1>2 DEF CompleteTask, TypeOK, TaskRow, Closed
<1>3. ASSUME NEW t \in Task, NEW p \in Principal, AcceptHandoff(t, p)
      PROVE  \A s \in Task : task'[s].status = "cancelled" <=>
                               task[s].status = "cancelled"
  BY <1>3 DEF AcceptHandoff, TypeOK, TaskRow
<1> QED
  BY <1>1, <1>2, <1>3
     DEF Next, vars, people, Deliver, WorkerStep, CreateAgentRun, Revoke,
         ReleaseChanges, ResolveGate, Claim, ClaimRefused, ClaimFails, ProbeBusy,
         ProbeDone, Gather, HarnessFails, RecordFailure, Displaced, Park,
         ParkRefused, PublishRefused, DraftRejected, Publish, Crash, Rescue,
         LeaseExpires, LeaseOutlived, Sweep

LEMMA CancelledStep ==
  ASSUME TypeOK, WorkerShape, ClaimTokensAreUnique,
         QuestionsMatchWaitingRuns, CancelledTaskIsQuiet, [Next]_vars
  PROVE  CancelledTaskIsQuiet'
<1> USE RunAssumption DEF CancelledTaskIsQuiet, TaskStatus
<1>1. CASE ~Outer
  BY <1>1, InnerStep, TasksStep DEF InnerMove, Outer, Live, Closed
<1>2. ASSUME NEW t \in Task, CancelTask(t) PROVE CancelledTaskIsQuiet'
  BY <1>2, CancelStep DEF Live
<1>3. ASSUME NEW g \in Gate, NEW p \in Principal, ResolveGate(g, p)
      PROVE  CancelledTaskIsQuiet'
  BY <1>3, ResolveStep DEF Live
<1>4. ASSUME NEW w \in Worker, Publish(w) PROVE CancelledTaskIsQuiet'
  BY <1>4, PublishStep DEF Live
<1>5. ASSUME NEW w \in Worker, NEW g \in Gate, Park(w, g)
      PROVE  CancelledTaskIsQuiet'
  BY <1>5, ParkStep DEF Live
<1> QED BY <1>1, <1>2, <1>3, <1>4, <1>5 DEF Outer
-----------------------------------------------------------------------------
(* Nobody is stranded.  A step keeps every worker that will come back, or  *)
(* ends a handler with an error (Nack) or without one (Ack).               *)

LEMMA Returning ==
  ASSUME TypeOK, NoStrandedRun,
         UNCHANGED discarded,
         \A r \in Run : jobs'[r] \in Nat /\ jobs'[r] >= jobs[r],
         \A r \in Run :
           \/ /\ run'[r].status = run[r].status
              /\ run'[r].token = run[r].token
           \/ run'[r].status \notin {"queued", "running"}
           \/ jobs'[r] > 0,
         \A w \in Worker :
           /\ worker'[w].run = worker[w].run
           /\ worker'[w].token = worker[w].token
           /\ worker'[w].job = worker[w].job
           /\ worker[w].pc = "probe" => worker'[w].pc = "probe"
  PROVE  NoStrandedRun'
<1>1. \A r \in Run : jobs[r] \in Nat
  BY DEF TypeOK
<1>2. ASSUME NEW r \in Run, run'[r].status = "queued", discarded'[r] = 0
      PROVE  jobs'[r] > 0
  BY <1>1, <1>2 DEF NoStrandedRun
<1>3. ASSUME NEW r \in Run, run'[r].status = "running", discarded'[r] = 0
      PROVE  SomeoneReturns(r)'
  BY <1>1, <1>3 DEF NoStrandedRun, SomeoneReturns
<1> QED BY <1>2, <1>3 DEF NoStrandedRun

\* A delivery comes back to the queue, or is counted as given up, and no other
\* worker moves.
LEMMA HandedBack ==
  ASSUME TypeOK, NoStrandedRun, NEW w \in Worker, worker[w].run \in Run,
         Retry(worker[w].run), UNCHANGED run,
         \A v \in Worker \ {w} : worker'[v] = worker[v]
  PROVE  NoStrandedRun'
<1> DEFINE r == worker[w].run
<1>1. /\ \A q \in Run \ {r} : jobs'[q] = jobs[q] /\ discarded'[q] = discarded[q]
      /\ discarded'[r] = 0 => discarded[r] = 0 /\ jobs'[r] > 0
  BY RetryEffect
<1>2. ASSUME NEW q \in Run, run'[q].status = "queued", discarded'[q] = 0
      PROVE  jobs'[q] > 0
  BY <1>1, <1>2 DEF NoStrandedRun
<1>3. ASSUME NEW q \in Run, run'[q].status = "running", discarded'[q] = 0
      PROVE  SomeoneReturns(q)'
  BY <1>1, <1>3 DEF NoStrandedRun, SomeoneReturns
<1> QED BY <1>2, <1>3 DEF NoStrandedRun

LEMMA Retried ==
  ASSUME TypeOK, WorkerShape, NoStrandedRun, NEW w \in Worker, Nack(w),
         worker[w].pc # "idle", UNCHANGED run
  PROVE  NoStrandedRun'
<1>1. worker[w].run \in Run
  BY DEF WorkerShape
<1>2. \A v \in Worker \ {w} : worker'[v] = worker[v]
  BY DEF Nack, TypeOK
<1>3. CASE worker[w].job
  BY <1>1, <1>2, <1>3, HandedBack DEF Nack
<1>4. CASE ~worker[w].job
  BY <1>2, <1>4 DEF Nack, NoStrandedRun, SomeoneReturns
<1> QED BY <1>3, <1>4

LEMMA Acknowledged ==
  ASSUME TypeOK, WorkerShape, NoStrandedRun, NEW w \in Worker, Ack(w),
         worker[w].pc # "idle",
         \A q \in Run \ {worker[w].run} : run'[q] = run[q],
         \/ run'[worker[w].run].status \notin {"queued", "running"}
         \/ /\ UNCHANGED run
            /\ worker[w].pc # "probe"
            /\ worker[w].token # run[worker[w].run].token
  PROVE  NoStrandedRun'
<1>1. UNCHANGED <<jobs, discarded>>
  BY DEF Ack
<1>2. \A v \in Worker \ {w} : worker'[v] = worker[v]
  BY DEF Ack, TypeOK
<1>3. ASSUME NEW q \in Run, run'[q].status = "queued", discarded'[q] = 0
      PROVE  jobs'[q] > 0
  BY <1>1, <1>3 DEF NoStrandedRun
<1>4. ASSUME NEW q \in Run, run'[q].status = "running", discarded'[q] = 0
      PROVE  SomeoneReturns(q)'
  <2>1. SomeoneReturns(q) /\ run'[q] = run[q]
    BY <1>1, <1>4 DEF NoStrandedRun
  <2>2. CASE jobs[q] > 0
    BY <1>1, <2>2 DEF SomeoneReturns
  <2>3. ASSUME NEW v \in Worker, worker[v].job, worker[v].run = q,
               worker[v].pc = "probe" \/ worker[v].token = run[q].token
        PROVE  SomeoneReturns(q)'
    <3>1. v # w
      BY <1>4, <2>3
    <3> QED BY <1>2, <2>1, <2>3, <3>1 DEF SomeoneReturns
  <2> QED BY <2>1, <2>2, <2>3 DEF SomeoneReturns
<1> QED BY <1>3, <1>4 DEF NoStrandedRun

LEMMA StrandedStep ==
  ASSUME TypeOK, WorkerShape, ClaimTokensAreUnique,
         QuestionsMatchWaitingRuns, NoStrandedRun, [Next]_vars
  PROVE  NoStrandedRun'
<1>1. CASE UNCHANGED <<run, jobs, worker, discarded>>
  BY <1>1, Returning DEF TypeOK
<1>2. ASSUME NEW r \in Run, NEW p \in Principal, CreateAgentRun(r, p)
      PROVE  NoStrandedRun'
  <2>1. jobs'[r] = jobs[r] + 1 /\ \A q \in Run \ {r} : jobs'[q] = jobs[q]
    BY <1>2 DEF CreateAgentRun, Enqueue, TypeOK
  <2>2. \A q \in Run : jobs[q] \in Nat
    BY DEF TypeOK
  <2>3. \A q \in Run \ {r} : run'[q] = run[q]
    BY <1>2 DEF CreateAgentRun, TypeOK
  <2>4. UNCHANGED <<discarded, worker>>
    BY <1>2 DEF CreateAgentRun, budget
  <2> QED BY <2>1, <2>2, <2>3, <2>4, Returning
<1>3. ASSUME NEW t \in Task, CancelTask(t) PROVE NoStrandedRun'
  <2>1. UNCHANGED <<jobs, worker, discarded>>
    BY <1>3 DEF CancelTask, budget
  <2>2. \A r \in Run : run'[r] = run[r] \/ run'[r].status = "cancelled"
    BY <1>3, CancelStep
  <2> QED BY <2>1, <2>2, Returning DEF TypeOK
<1>4. ASSUME NEW g \in Gate, NEW p \in Principal, ResolveGate(g, p)
      PROVE  NoStrandedRun'
  <2> DEFINE r == gate[g].run
  <2>1. /\ r \in Run /\ UNCHANGED <<worker, discarded>>
        /\ jobs' = [jobs EXCEPT ![r] = @ + 1]
        /\ \A q \in Run \ {r} : run'[q] = run[q]
    BY <1>4, ResolveStep
  <2>2. \A q \in Run : jobs[q] \in Nat
    BY DEF TypeOK
  <2>3. jobs'[r] = jobs[r] + 1 /\ \A q \in Run \ {r} : jobs'[q] = jobs[q]
    BY <2>1 DEF TypeOK
  <2> QED BY <2>1, <2>2, <2>3, Returning
<1>5. ASSUME NEW w \in Worker, NEW r \in Run, Claim(w, r)
      PROVE  NoStrandedRun'
  <2>1. /\ worker'[w].job /\ worker'[w].run = r
        /\ worker'[w].token = run'[r].token
        /\ run'[r].status = "running"
    BY <1>5 DEF Claim, TypeOK, RunRow
  <2>2. \A v \in Worker \ {w} : worker'[v] = worker[v]
    BY <1>5 DEF Claim, TypeOK
  <2>3. ~worker[w].job
    BY <1>5 DEF Claim, WorkerShape
  <2>4. \A q \in Run \ {r} : run'[q] = run[q] /\ jobs'[q] = jobs[q]
    BY <1>5 DEF Claim, TypeOK
  <2>5. UNCHANGED discarded
    BY <1>5 DEF Claim, budget
  <2> QED BY <2>1, <2>2, <2>3, <2>4, <2>5 DEF NoStrandedRun, SomeoneReturns
<1>6. ASSUME NEW w \in Worker, NEW r \in Run, ClaimRefused(w, r)
      PROVE  NoStrandedRun'
  <2>1. worker'[w].job /\ worker'[w].run = r /\ worker'[w].pc = "probe"
    BY <1>6 DEF ClaimRefused, TypeOK
  <2>2. \A v \in Worker \ {w} : worker'[v] = worker[v]
    BY <1>6 DEF ClaimRefused, TypeOK
  <2>3. ~worker[w].job /\ run[r].status # "queued"
    BY <1>6 DEF ClaimRefused, Claimable, WorkerShape
  <2>4. \A q \in Run \ {r} : jobs'[q] = jobs[q]
    BY <1>6 DEF ClaimRefused, TypeOK
  <2>5. UNCHANGED <<run, discarded>>
    BY <1>6 DEF ClaimRefused, budget
  <2> QED BY <2>1, <2>2, <2>3, <2>4, <2>5 DEF NoStrandedRun, SomeoneReturns
<1>7. ASSUME NEW w \in Worker, WorkerStep(w) PROVE NoStrandedRun'
  <2>1. worker[w].pc # "idle" => worker[w].run \in Run
    BY DEF WorkerShape
  <2>2. CASE ProbeBusy(w) \/ ParkRefused(w)
    BY <2>2, Retried DEF ProbeBusy, ParkRefused
  <2>3. CASE ProbeDone(w)
    <3>1. CASE run[worker[w].run].status # "queued"
      BY <2>3, <3>1, Acknowledged DEF ProbeDone
    <3>2. CASE run[worker[w].run].status = "queued"
      <4>1. UNCHANGED <<run, jobs, discarded>>
        BY <2>3 DEF ProbeDone, Ack
      <4>2. \A v \in Worker \ {w} : worker'[v] = worker[v]
        BY <2>3 DEF ProbeDone, Ack, TypeOK
      <4> QED BY <3>2, <4>1, <4>2 DEF NoStrandedRun, SomeoneReturns
    <3> QED BY <3>1, <3>2
  <2>4. CASE Gather(w) \/ HarnessFails(w) \/ DraftRejected(w)
    <3>1. UNCHANGED <<run, jobs, discarded>>
      BY <2>4 DEF Gather, HarnessFails, DraftRejected, budget
    <3>2. \A v \in Worker :
            /\ worker'[v].run = worker[v].run
            /\ worker'[v].token = worker[v].token
            /\ worker'[v].job = worker[v].job
            /\ worker[v].pc = "probe" => worker'[v].pc = "probe"
      BY <2>4 DEF Gather, HarnessFails, DraftRejected, Goto, TypeOK,
                  WorkerState
    <3> QED BY <3>1, <3>2, Returning DEF TypeOK
  <2>5. CASE RecordFailure(w)
    <3>1. CASE run[worker[w].run].token = worker[w].token
      <4>1. worker[w].run \in Run
        BY <2>1, <2>5 DEF RecordFailure
      <4>2. run' = [run EXCEPT ![worker[w].run] =
                      Unclaimed(run[worker[w].run], "failed")]
        BY <2>5, <3>1, <4>1 DEF RecordFailure, TypeOK
      <4>3. run'[worker[w].run].status = "failed"
            /\ \A q \in Run \ {worker[w].run} : run'[q] = run[q]
        BY <4>1, <4>2, UnclaimedType DEF TypeOK, Terminal
      <4> QED BY <2>5, <4>3, Acknowledged DEF RecordFailure
    <3>2. CASE run[worker[w].run].token # worker[w].token
      BY <2>5, <3>2, Acknowledged DEF RecordFailure
    <3> QED BY <3>1, <3>2
  <2>6. CASE Displaced(w)
    <3>1. CASE run[worker[w].run].token # worker[w].token
      BY <2>6, <3>1, Acknowledged DEF Displaced
    <3>2. CASE run[worker[w].run].token = worker[w].token
      BY <2>6, <3>2, MatchIsRunning DEF Displaced, HoldsClaim, Holder
    <3> QED BY <3>1, <3>2
  <2>7. CASE PublishRefused(w)
    <3>1. run' = [run EXCEPT ![worker[w].run] =
                    Unclaimed(run[worker[w].run], "failed")]
      BY <2>1, <2>7 DEF PublishRefused, TypeOK
    <3>2. run'[worker[w].run].status = "failed"
          /\ \A q \in Run \ {worker[w].run} : run'[q] = run[q]
      BY <2>1, <2>7, <3>1, UnclaimedType DEF PublishRefused, TypeOK, Terminal
    <3> QED BY <2>7, <3>2, Acknowledged DEF PublishRefused
  <2>8. CASE Publish(w)
    BY <2>8, PublishStep, Acknowledged DEF Publish
  <2>9. ASSUME NEW g \in Gate, Park(w, g) PROVE NoStrandedRun'
    BY <2>9, ParkStep, Acknowledged DEF Park
  <2> QED
    BY <1>7, <2>2, <2>3, <2>4, <2>5, <2>6, <2>7, <2>8, <2>9 DEF WorkerStep
<1>8. ASSUME NEW w \in Worker, Crash(w) PROVE NoStrandedRun'
  BY <1>8, Retried DEF Crash
<1>9. ASSUME NEW w \in Worker, Rescue(w) PROVE NoStrandedRun'
  <2>1. worker[w].run \in Run
    BY <1>9 DEF Rescue, WorkerShape
  <2>2. \A v \in Worker \ {w} : worker'[v] = worker[v]
    BY <1>9 DEF Rescue, TypeOK
  <2> QED BY <1>9, <2>1, <2>2, HandedBack DEF Rescue
<1>12. ASSUME NEW w \in Worker, NEW r \in Run, ClaimFails(w, r)
       PROVE  NoStrandedRun'
  BY <1>12, ClaimFailsEffect DEF NoStrandedRun, SomeoneReturns
<1>10. ASSUME NEW r \in Run, LeaseExpires(r) \/ LeaseOutlived(r)
       PROVE  NoStrandedRun'
  <2>1. \A q \in Run : run'[q].status = run[q].status
                       /\ run'[q].token = run[q].token
    BY <1>10 DEF TypeOK, RunRow, LeaseExpires, LeaseOutlived
  <2>2. UNCHANGED <<jobs, worker, discarded>>
    BY <1>10 DEF LeaseExpires, LeaseOutlived, budget
  <2> QED BY <2>1, <2>2, Returning DEF TypeOK
<1>11. ASSUME Sweep PROVE NoStrandedRun'
  <2>1. PICK C \in SUBSET Stale :
          /\ run' = [r \in Run |-> IF r \in C
                     THEN [Unclaimed(run[r], "queued") EXCEPT !.attempt = @ + 1]
                     ELSE run[r]]
          /\ jobs' = [r \in Run |-> IF r \in C THEN jobs[r] + 1 ELSE jobs[r]]
    BY <1>11 DEF Sweep
  <2>2. \A q \in Run : jobs[q] \in Nat
    BY DEF TypeOK
  <2>3. \A q \in Run : IF q \in C THEN jobs'[q] = jobs[q] + 1
                       ELSE run'[q] = run[q] /\ jobs'[q] = jobs[q]
    BY <2>1
  <2>4. UNCHANGED <<worker, discarded>>
    BY <1>11 DEF Sweep, budget
  <2> QED BY <2>2, <2>3, <2>4, Returning
<1> QED
  BY <1>1, <1>2, <1>3, <1>4, <1>5, <1>6, <1>7, <1>8, <1>9, <1>10, <1>11,
     <1>12
     DEF Next, vars, budget, Deliver, CompleteTask, AcceptHandoff, Revoke,
         ReleaseChanges
-----------------------------------------------------------------------------
(* The theorems.                                                           *)

LEMMA InitIInv ==
  ASSUME Init
  PROVE  IInv
<1> USE RunAssumption DEF Init
<1>1. TypeOK
  BY DEF TypeOK, RunRow, GateRow, TaskRow, WorkerState, AbsentRun, AbsentGate,
         Idle
<1>2. WorkerShape
  BY DEF WorkerShape, Idle
<1>3. ClaimTokensAreUnique
  BY DEF ClaimTokensAreUnique, AbsentRun, Idle
<1>4. PublishedOnce
  BY DEF PublishedOnce, AbsentRun
<1>5. QuestionsMatchWaitingRuns
  BY DEF QuestionsMatchWaitingRuns, AbsentRun, AbsentGate
<1>6. CancelledTaskIsQuiet
  BY DEF CancelledTaskIsQuiet, AbsentRun, Live
<1>7. NoStrandedRun
  BY DEF NoStrandedRun, AbsentRun
<1> QED BY <1>1, <1>2, <1>3, <1>4, <1>5, <1>6, <1>7 DEF IInv

LEMMA StepIInv ==
  ASSUME IInv, [Next]_vars
  PROVE  IInv'
BY TypeStep, ShapeStep, TokensStep, PublishedStep, QuestionsStep,
   CancelledStep, StrandedStep DEF IInv

\* IInv holds in every reachable state of the agent runs.
THEOREM Invariance == Spec => []IInv
<1>1. Init => IInv
  BY InitIInv
<1>2. IInv /\ [Next]_vars => IInv'
  BY StepIInv
<1> QED BY <1>1, <1>2, PTL DEF Spec

\* The rows, jobs and workers keep the shape the schema gives them.
THEOREM TypeCorrect == Spec => []TypeOK
<1>1. IInv => TypeOK
  BY DEF IInv
<1> QED BY <1>1, Invariance, PTL

\* The exactly-once publication of ExecuteAgentRun, for every number of runs,
\* workers, crashes, duplicate deliveries and reclaims.
THEOREM PublishesOnce == Spec => []PublishedOnce
<1>1. IInv => PublishedOnce
  BY DEF IInv
<1> QED BY <1>1, Invariance, PTL

\* The claim token of ExecuteAgentRun is a fence: one holder at most.
THEOREM ClaimsAreFenced == Spec => []ClaimTokensAreUnique
<1>1. IInv => ClaimTokensAreUnique
  BY DEF IInv
<1> QED BY <1>1, Invariance, PTL

\* Parked runs and pending questions always pair up, so every pending
\* question ResolveGate accepts resumes a run, and every parked run has one.
THEOREM QuestionsAndRunsPairUp == Spec => []QuestionsMatchWaitingRuns
<1>1. IInv => QuestionsMatchWaitingRuns
  BY DEF IInv
<1> QED BY <1>1, Invariance, PTL

\* What CancelTask ended stays ended, whatever is still under way.
THEOREM CancellationHolds == Spec => []CancelledTaskIsQuiet
<1>1. IInv => CancelledTaskIsQuiet
  BY DEF IInv
<1> QED BY <1>1, Invariance, PTL

\* The queue and ExecuteAgentRun's answers to it lose no run.
THEOREM NobodyIsStranded == Spec => []NoStrandedRun
<1>1. IInv => NoStrandedRun
  BY DEF IInv
<1> QED BY <1>1, Invariance, PTL
-----------------------------------------------------------------------------
(* Action properties.                                                      *)

\* Once the token moved on, the ways out of a handler write nothing.
LEMMA InertStep ==
  ASSUME TypeOK, WorkerShape, [Next]_vars,
         NEW w \in Worker, worker[w].pc \in {"run", "fail"},
         run[worker[w].run].token # worker[w].token,
         worker'[w] # worker[w]
  PROVE  UNCHANGED <<run, gate, published>>
<1>1. CASE UNCHANGED worker
  BY <1>1
<1>2. ASSUME NEW v \in Worker, v # w,
             \A u \in Worker \ {v} : worker'[u] = worker[u]
      PROVE  FALSE
  BY <1>2
<1>3. ASSUME NEW v \in Worker, NEW r \in Run, Claim(v, r) \/ ClaimRefused(v, r)
      PROVE  FALSE
  <2>1. v # w
    BY <1>3 DEF Claim, ClaimRefused
  <2>2. \A u \in Worker \ {v} : worker'[u] = worker[u]
    BY <1>3 DEF Claim, ClaimRefused, TypeOK
  <2> QED BY <1>2, <2>1, <2>2
<1>4. ASSUME NEW v \in Worker, WorkerStep(v) \/ Crash(v) \/ Rescue(v)
      PROVE  v = w
  <2>1. \A u \in Worker \ {v} : worker'[u] = worker[u]
    BY <1>4
       DEF TypeOK, WorkerStep, ProbeBusy, ProbeDone, Gather, HarnessFails,
           RecordFailure, Displaced, Park, ParkRefused, PublishRefused,
           DraftRejected, Publish, Crash, Rescue, Ack, Nack, Goto
  <2> QED BY <1>2, <2>1
<1>5. CASE WorkerStep(w) \/ Crash(w) \/ Rescue(w)
  BY <1>5
     DEF WorkerStep, ProbeBusy, ProbeDone, Gather, HarnessFails,
         RecordFailure, Displaced, Park, ParkRefused, PublishRefused,
         DraftRejected, Publish, Crash, Rescue, HoldsClaim
<1> QED
  BY <1>1, <1>3, <1>4, <1>5
     DEF Next, vars, Deliver, ClaimFails, CreateAgentRun, CancelTask,
         CompleteTask, AcceptHandoff, Revoke, ReleaseChanges, ResolveGate,
         LeaseExpires, LeaseOutlived, Sweep

\* A displaced worker is inert whichever step ends its handler.
THEOREM DisplacedWorkersAreInert == Spec => DisplacedWorkerIsInert
<1>1. IInv /\ [Next]_vars => [\A w \in Worker : InertWhenDisplaced(w)]_vars
  BY InertStep DEF IInv, InertWhenDisplaced
<1> QED BY <1>1, Invariance, PTL DEF Spec, DisplacedWorkerIsInert

\* Who can end a claim whose lease is live.
LEMMA LiveClaimStep ==
  ASSUME TypeOK, WorkerShape, ClaimTokensAreUnique, [Next]_vars,
         NEW r \in Run, run[r].lease = "live", run'[r].token # run[r].token
  PROVE  \/ task'[TaskOf[r]].status = "cancelled"
         \/ \E w \in Worker : /\ worker[w].run = r
                              /\ worker[w].token = run[r].token
                              /\ worker'[w] = Idle
<1> USE RunAssumption
<1>1. run[r].status = "running"
  BY DEF ClaimTokensAreUnique
<1>2. CASE UNCHANGED run
  BY <1>2
<1>3. ASSUME NEW q \in Run, NEW p \in Principal, CreateAgentRun(q, p)
      PROVE  FALSE
  BY <1>3, <1>1 DEF CreateAgentRun, TypeOK
<1>4. ASSUME NEW t \in Task, CancelTask(t)
      PROVE  task'[TaskOf[r]].status = "cancelled"
  BY <1>4, CancelStep DEF TypeOK
<1>5. ASSUME NEW g \in Gate, NEW p \in Principal, ResolveGate(g, p)
      PROVE  FALSE
  BY <1>5, <1>1 DEF ResolveGate, TypeOK
<1>6. ASSUME NEW w \in Worker, NEW q \in Run, Claim(w, q) PROVE FALSE
  BY <1>6, <1>1 DEF Claim, Claimable, Lapsed, TypeOK
<1>7. ASSUME NEW w \in Worker, WorkerStep(w)
      PROVE  /\ worker[w].run = r /\ worker[w].token = run[r].token
             /\ worker'[w] = Idle
  <2>1. CASE RecordFailure(w) \/ PublishRefused(w) \/ Publish(w)
    BY <2>1 DEF TypeOK, RecordFailure, PublishRefused, Publish, HoldsClaim, Ack
  <2>2. ASSUME NEW g \in Gate, Park(w, g)
        PROVE  /\ worker[w].run = r /\ worker[w].token = run[r].token
               /\ worker'[w] = Idle
    BY <2>2 DEF TypeOK, Park, HoldsClaim, Ack
  <2> QED
    BY <1>7, <1>2, <2>1, <2>2
       DEF WorkerStep, ProbeBusy, ProbeDone, Gather, HarnessFails, Displaced,
           ParkRefused, DraftRejected
<1>8. ASSUME NEW q \in Run, LeaseExpires(q) \/ LeaseOutlived(q) PROVE FALSE
  BY <1>8 DEF LeaseExpires, LeaseOutlived, TypeOK, RunRow
<1>9. ASSUME Sweep PROVE FALSE
  BY <1>9 DEF Sweep, Stale, Lapsed
<1> QED
  BY <1>2, <1>3, <1>4, <1>5, <1>6, <1>7, <1>8, <1>9
     DEF Next, vars, Deliver, CompleteTask, AcceptHandoff, Revoke,
         ReleaseChanges, ClaimRefused, ClaimFails, Crash, Rescue

\* Neither a second delivery nor the sweeper takes a claim within its lease.
THEOREM LiveClaimsAreSafe == Spec => LiveClaimIsNotStolen
<1>1. IInv /\ [Next]_vars => [\A r \in Run : EndedByItsHolder(r)]_vars
  BY LiveClaimStep DEF IInv, EndedByItsHolder
<1> QED BY <1>1, Invariance, PTL DEF Spec, LiveClaimIsNotStolen

\* Publish re-reads everything the draft was prepared under.
LEMMA PresentOwnerStep ==
  ASSUME TypeOK, WorkerShape, ClaimTokensAreUnique,
         QuestionsMatchWaitingRuns, [Next]_vars,
         NEW r \in Run, published'[r] # published[r]
  PROVE  /\ TaskStatus(r) = "open"
         /\ {task[TaskOf[r]].owner, run[r].initiator} \subseteq active
         /\ \E w \in Worker : /\ Working(w, r)
                              /\ worker[w].token = run[r].token
                              /\ worker[w].owner = task[TaskOf[r]].owner
<1> USE RunAssumption
<1>1. PICK w \in Worker : Publish(w)
  BY InnerStep, CancelStep, ResolveStep, ParkStep DEF Outer
<1>2. worker[w].run = r
  BY <1>1, PublishStep DEF TypeOK
<1>3. TaskStatus(r) \in {"open"} \cup Closed
  BY DEF TypeOK, TaskRow, TaskStatus
<1> QED BY <1>1, <1>2, <1>3 DEF Publish, MayPublish, HoldsClaim, Working

\* No draft is published for somebody who lost the task or was revoked while
\* the harness ran.
THEOREM PublishesForPresentOwner == Spec => PublishedForPresentOwner
<1>1. IInv /\ [Next]_vars => [\A r \in Run : MadeForPresentOwner(r)]_vars
  BY PresentOwnerStep DEF IInv, MadeForPresentOwner
<1> QED BY <1>1, Invariance, PTL DEF Spec, PublishedForPresentOwner
-----------------------------------------------------------------------------
(***************************************************************************)
(* The runs of AgentRuns implement RunLifecycle: seen through the phase of *)
(* each run, the proposals it published and the cancelled tasks, claims,   *)
(* leases, retries, crashes and reclaims cannot be observed.               *)
(***************************************************************************)

PhaseMap == [r \in Run |-> Phase(r)]

\* One run changes its phase and nothing else is seen.
LEMMA OnePhase ==
  ASSUME TypeOK, NEW r \in Run,
         \A q \in Run \ {r} : run'[q] = run[q]
  PROVE  PhaseMap' = [PhaseMap EXCEPT ![r] = Phase(r)']
BY DEF PhaseMap, Phase

LEMMA SamePhases ==
  ASSUME \A r \in Run : Phase(r)' = Phase(r)
  PROVE  PhaseMap' = PhaseMap
BY DEF PhaseMap

LEMMA SameCancelled ==
  ASSUME TypeOK, [Next]_vars, ~ \E t \in Task : CancelTask(t)
  PROVE  CancelledTasks' = CancelledTasks
BY TasksStep DEF CancelledTasks

\* The steps that are neither seen nor seen as the end of a run.
LEMMA HiddenStep ==
  ASSUME IInv, [Next]_vars, ~Outer,
         ~ \E r \in Run, p \in Principal : CreateAgentRun(r, p),
         ~ \E w \in Worker : RecordFailure(w) \/ PublishRefused(w)
  PROVE  \A r \in Run : Phase(r)' = Phase(r)
<1> USE DEF IInv
<1>1. CASE UNCHANGED run
  BY <1>1 DEF Phase
<1>2. ASSUME NEW w \in Worker, NEW r \in Run, Claim(w, r)
      PROVE  \A q \in Run : Phase(q)' = Phase(q)
  <2>1. run'[r].status = "running" /\ \A q \in Run \ {r} : run'[q] = run[q]
    BY <1>2 DEF TypeOK, RunRow, Claim
  <2> QED BY <1>2, <2>1 DEF Phase, Claim, Claimable
<1>3. ASSUME NEW r \in Run, LeaseExpires(r) \/ LeaseOutlived(r)
      PROVE  \A q \in Run : Phase(q)' = Phase(q)
  <2>1. run' = [run EXCEPT ![r] = [run[r] EXCEPT !.lease = "expired"]]
    BY <1>3 DEF TypeOK, LeaseExpires, LeaseOutlived
  <2>2. \A q \in Run : run'[q].status = run[q].status
    BY <2>1 DEF TypeOK, RunRow
  <2> QED BY <2>2 DEF Phase
<1>4. ASSUME Sweep
      PROVE  \A q \in Run : Phase(q)' = Phase(q)
  <2>1. PICK C \in SUBSET Stale :
          run' = [r \in Run |-> IF r \in C
                  THEN [Unclaimed(run[r], "queued") EXCEPT !.attempt = @ + 1]
                  ELSE run[r]]
    BY <1>4 DEF Sweep
  <2>2. \A r \in Run : /\ Unclaimed(run[r], "queued") \in RunRow
                       /\ Unclaimed(run[r], "queued").status = "queued"
    BY UnclaimedType DEF TypeOK, Live
  <2>3. \A r \in Run : IF r \in C THEN run'[r].status = "queued"
                       ELSE run'[r] = run[r]
    BY <2>1, <2>2 DEF RunRow
  <2>4. \A r \in C : run[r].status = "running"
    BY DEF Stale
  <2> QED BY <2>3, <2>4 DEF Phase
<1> QED
  BY <1>1, <1>2, <1>3, <1>4
     DEF Next, Outer, vars, Deliver, WorkerStep, CompleteTask, AcceptHandoff,
         Revoke, ReleaseChanges, ClaimRefused, ClaimFails, ProbeBusy, ProbeDone, Gather,
         HarnessFails, Displaced, ParkRefused, DraftRejected, Crash, Rescue

LEMMA InitMaps ==
  ASSUME Init
  PROVE  Lifecycle!Init
BY DEF Init, Lifecycle!Init, Phase, AbsentRun, CancelledTasks

LEMMA StepMaps ==
  ASSUME IInv, [Next]_vars
  PROVE  [Lifecycle!Next]_(Lifecycle!vars)
<1> USE RunAssumption DEF IInv, Lifecycle!Next, Lifecycle!vars, PhaseMap
<1>1. ASSUME NEW r \in Run, NEW p \in Principal, CreateAgentRun(r, p)
      PROVE  Lifecycle!Open(r)
  <2>1. /\ run[r].status = "absent" /\ run'[r].status = "queued"
        /\ \A q \in Run \ {r} : run'[q] = run[q]
    BY <1>1 DEF TypeOK, RunRow, CreateAgentRun
  <2>2. Phase(r) = "absent" /\ Phase(r)' = "open"
    BY <2>1 DEF Phase
  <2>3. TaskOf[r] \notin CancelledTasks
    BY <1>1 DEF CreateAgentRun, CancelledTasks, TaskStatus, Closed
  <2>4. UNCHANGED <<published, CancelledTasks>>
    BY <1>1 DEF CreateAgentRun, people, CancelledTasks
  <2> QED BY <2>1, <2>2, <2>3, <2>4, OnePhase DEF Lifecycle!Open
<1>2. ASSUME NEW t \in Task, CancelTask(t) PROVE Lifecycle!Cancel(t)
  <2>1. CancelledTasks' = CancelledTasks \cup {t}
    BY <1>2, CancelStep DEF CancelledTasks
  <2>2. \A r \in Run :
          Phase(r)' = IF TaskOf[r] = t /\ Phase(r) \in Lifecycle!Unfinished
                      THEN "cancelled" ELSE Phase(r)
    BY <1>2, CancelStep DEF Phase, Live, Lifecycle!Unfinished, TypeOK, RunRow,
       Terminal
  <2> QED BY <1>2, <2>1, <2>2, CancelStep DEF Lifecycle!Cancel
<1>3. ASSUME NEW g \in Gate, NEW p \in Principal, ResolveGate(g, p)
      PROVE  \E r \in Run : Lifecycle!Answer(r)
  <2>1. PICK r \in Run : r = gate[g].run
    BY <1>3, ResolveStep
  <2>2. Phase(r) = "asking" /\ Phase(r)' = "open"
    BY <1>3, <2>1, ResolveStep DEF Phase
  <2>3. UNCHANGED <<published, CancelledTasks>>
    BY <1>3, ResolveStep DEF CancelledTasks
  <2>4. \A q \in Run \ {r} : run'[q] = run[q]
    BY <1>3, <2>1, ResolveStep
  <2> QED BY <2>2, <2>3, <2>4, OnePhase DEF Lifecycle!Answer
<1>4. ASSUME NEW w \in Worker, Publish(w)
      PROVE  \E r \in Run : Lifecycle!Succeed(r)
  <2>1. PICK r \in Run : r = worker[w].run
    BY <1>4, PublishStep
  <2>2. Phase(r) = "open" /\ Phase(r)' = "succeeded" /\ published[r] = 0
    BY <1>4, <2>1, PublishStep DEF Phase, PublishedOnce
  <2>3. UNCHANGED CancelledTasks /\ published' = [published EXCEPT ![r] = 1]
    BY <1>4, <2>1, <2>2, PublishStep DEF CancelledTasks, TypeOK
  <2>4. \A q \in Run \ {r} : run'[q] = run[q]
    BY <1>4, <2>1, PublishStep
  <2> QED BY <2>2, <2>3, <2>4, OnePhase DEF Lifecycle!Succeed
<1>5. ASSUME NEW w \in Worker, NEW g \in Gate, Park(w, g)
      PROVE  \E r \in Run : Lifecycle!Ask(r)
  <2>1. PICK r \in Run : r = worker[w].run
    BY <1>5, ParkStep
  <2>2. Phase(r) = "open" /\ Phase(r)' = "asking"
    BY <1>5, <2>1, ParkStep DEF Phase
  <2>3. UNCHANGED <<published, CancelledTasks>>
    BY <1>5, ParkStep DEF CancelledTasks
  <2>4. \A q \in Run \ {r} : run'[q] = run[q]
    BY <1>5, <2>1, ParkStep
  <2> QED BY <2>2, <2>3, <2>4, OnePhase DEF Lifecycle!Ask
<1>6. ASSUME NEW r \in Run, run[r].status = "running",
             run' = [run EXCEPT ![r] = Unclaimed(run[r], "failed")],
             UNCHANGED <<task, published>>
      PROVE  Lifecycle!Fail(r)
  <2>1. run'[r].status = "failed" /\ \A q \in Run \ {r} : run'[q] = run[q]
    BY <1>6, UnclaimedType DEF TypeOK, Terminal
  <2>2. Phase(r) = "open" /\ Phase(r)' = "failed"
    BY <1>6, <2>1 DEF Phase
  <2>3. UNCHANGED CancelledTasks
    BY <1>6 DEF CancelledTasks
  <2> QED BY <1>6, <2>1, <2>2, <2>3, OnePhase DEF Lifecycle!Fail
<1>7. ASSUME NEW w \in Worker, PublishRefused(w)
      PROVE  \E r \in Run : Lifecycle!Fail(r)
  BY <1>7, <1>6 DEF PublishRefused, HoldsClaim, WorkerShape, TypeOK, people
<1>8. ASSUME NEW w \in Worker, RecordFailure(w)
      PROVE  \/ \E r \in Run : Lifecycle!Fail(r)
             \/ UNCHANGED <<PhaseMap, published, CancelledTasks>>
  <2>1. CASE run[worker[w].run].token = worker[w].token
    <3>1. worker[w].run \in Run /\ run[worker[w].run].status = "running"
      BY <1>8, <2>1, MatchIsRunning DEF RecordFailure, Holder
    <3>2. run' = [run EXCEPT ![worker[w].run] =
                    Unclaimed(run[worker[w].run], "failed")]
      BY <1>8, <2>1, <3>1 DEF RecordFailure, TypeOK
    <3> QED BY <1>8, <1>6, <3>1, <3>2 DEF RecordFailure, people
  <2>2. CASE run[worker[w].run].token # worker[w].token
    BY <1>8, <2>2 DEF RecordFailure, people, Phase, CancelledTasks
  <2> QED BY <2>1, <2>2
<1>9. CASE /\ ~Outer
           /\ ~ \E r \in Run, p \in Principal : CreateAgentRun(r, p)
           /\ ~ \E w \in Worker : RecordFailure(w) \/ PublishRefused(w)
  <2>1. UNCHANGED <<PhaseMap, published>>
    BY <1>9, HiddenStep, InnerStep, SamePhases
  <2>2. UNCHANGED CancelledTasks
    BY <1>9, SameCancelled DEF Outer
  <2> QED BY <2>1, <2>2
<1> QED
  BY <1>1, <1>2, <1>3, <1>4, <1>5, <1>7, <1>8, <1>9 DEF Outer

\* Whatever crashes, is delivered twice, is reclaimed or races, a run looks
\* to its people like one job with one outcome.
THEOREM RunsImplementLifecycle == Spec => ImplementsLifecycle
<1>1. Init => Lifecycle!Init
  BY InitMaps
<1>2. IInv /\ [Next]_vars => [Lifecycle!Next]_(Lifecycle!vars)
  BY StepMaps
<1> QED
  BY <1>1, <1>2, Invariance, PTL DEF Spec, ImplementsLifecycle, Lifecycle!Spec
=============================================================================
