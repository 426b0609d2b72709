------------------------------ MODULE HandoffsProofs ------------------------------
(***************************************************************************)
(* Proofs about Handoffs, for any offers, tasks, people and bound on the   *)
(* number of transfers.                                                    *)
(***************************************************************************)
EXTENDS Handoffs, FiniteSetTheorems, TLAPS

-----------------------------------------------------------------------------
(* The inductive invariant.                                                *)

\* An offer that was made names a task and two people.
Made(h) ==
  /\ offer[h].task \in Task /\ offer[h].seen \in TaskRow
  /\ offer[h].giver \in Principal /\ offer[h].taker \in Principal
Shape == \A h \in Offer : offer[h].status # "absent" => Made(h)

\* What is left of the task an offer was made for: nothing newer was seen, and as
\* long as the version is the same, so is the task, unless it came to be blocked.
\* A transfer that can still be accepted is the next one.
Fits(h) == LET t == offer[h].task  seen == offer[h].seen IN
  /\ seen.version <= task[t].version
  /\ seen.version = task[t].version => IsAsSeen(task[t], seen)
  /\ seen.version = task[t].version /\ offer[h].status \in Open /\ offer[h].role = "owner"
       => offer[h].hop = Hops(t) + 1 /\ Hops(t) < MaxHops
  /\ offer[h].status = "accepted" => seen.version < task[t].version
OffersFit == \A h \in Offer : offer[h].status # "absent" => Fits(h)

IInv ==
  /\ TypeOK /\ Shape /\ OffersFit
  /\ TransfersAreBounded /\ LineageIsComplete /\ OneOfRivalsIsTaken

LEMMA HopsType == ASSUME NEW t PROVE IsFiniteSet(Transfers(t)) /\ Hops(t) \in Nat
<1>1. Transfers(t) \subseteq Offer
  BY DEF Transfers
<1>2. IsFiniteSet(Transfers(t))
  BY <1>1, HandoffsAssumption, FS_Subset
<1> QED
  BY <1>2, FS_CardinalityType DEF Hops
-----------------------------------------------------------------------------
(* What the steps do.                                                      *)

\* The other offers are as they were.
Others(h) == \A g \in Offer \ {h} : offer'[g] = offer[g]

\* Only the status of an offer changes, and not to accepted.
Quiet == \A g \in Offer :
  \/ offer'[g] = offer[g]
  \/ /\ offer[g].status \in Open
     /\ offer'[g].status \in {"declined", "clarification_requested", "cancelled", "expired"}
     /\ offer'[g].task = offer[g].task /\ offer'[g].role = offer[g].role
     /\ offer'[g].giver = offer[g].giver /\ offer'[g].taker = offer[g].taker
     /\ offer'[g].seen = offer[g].seen /\ offer'[g].hop = offer[g].hop

\* A step that only answers or expires offers.
LEMMA QuietSteps ==
  ASSUME TypeOK, NEW h \in Offer,
         \/ DeclineHandoff(h) \/ ClarifyHandoff(h) \/ CancelHandoff(h)
         \/ ListHandoffs \/ PeekHandoff(h)
  PROVE  Quiet /\ UNCHANGED <<task, active, due, changes>> /\ offer' \in [Offer -> OfferRow]
<1> USE DEF TypeOK
<1>1. ASSUME NEW status \in {"declined", "clarification_requested", "cancelled"},
             Becomes(h, status)
      PROVE  Quiet /\ UNCHANGED <<task, active, due, changes>> /\ offer' \in [Offer -> OfferRow]
  BY <1>1 DEF Becomes, Answerable, Quiet, OfferRow, Open, Ended
<1>2. ASSUME NEW S, Expire(S)
      PROVE  Quiet /\ UNCHANGED <<task, active, due, changes>> /\ offer' \in [Offer -> OfferRow]
  BY <1>2 DEF Expire, Quiet, OfferRow, Open, Ended
<1> QED
  BY <1>1, <1>2 DEF DeclineHandoff, ClarifyHandoff, CancelHandoff, ListHandoffs, PeekHandoff

\* Making an offer.
LEMMA CreateStep ==
  ASSUME TypeOK, NEW h \in Offer, NEW t \in Task, NEW a \in Principal, NEW b \in Principal,
         NEW role \in {"owner", "assignee"}, CreateHandoff(h, t, a, b, role)
  PROVE  /\ offer[h].status = "absent" /\ Others(h)
         /\ offer'[h].status = "offered" /\ offer'[h].task = t /\ offer'[h].role = role
         /\ offer'[h].giver = a /\ offer'[h].taker = b /\ offer'[h].seen = task[t]
         /\ role = "owner" => offer'[h].hop = Hops(t) + 1 /\ Hops(t) < MaxHops
         /\ offer' \in [Offer -> OfferRow]
         /\ UNCHANGED <<task, active, due, changes>>
<1> DEFINE hop == IF role = "owner" THEN Hops(t) + 1 ELSE 1
           row == [status |-> "offered", task |-> t, role |-> role, giver |-> a,
                   taker |-> b, seen |-> task[t], hop |-> hop]
<1>1. /\ offer' = [offer EXCEPT ![h] = row] /\ offer[h].status = "absent"
      /\ role = "owner" => Hops(t) < MaxHops
      /\ UNCHANGED <<task, active, due, changes>>
  BY DEF CreateHandoff
<1>2. hop \in Nat /\ (role = "owner" => hop = Hops(t) + 1)
  BY HopsType
<1> HIDE DEF hop
<1>3. row \in OfferRow
  BY <1>2 DEF OfferRow, Open, TypeOK
<1> QED
  BY <1>1, <1>2, <1>3 DEF TypeOK, Others

\* Accepting one.
LEMMA AcceptStep ==
  ASSUME TypeOK, Shape, NEW h \in Offer, AcceptHandoff(h)
  PROVE  LET t == offer[h].task IN
         /\ t \in Task /\ offer[h].status \in Open /\ h \notin due /\ Current(h)
         /\ Others(h)
         /\ offer'[h].status = "accepted"
         /\ offer'[h].task = t /\ offer'[h].role = offer[h].role
         /\ offer'[h].giver = offer[h].giver /\ offer'[h].taker = offer[h].taker
         /\ offer'[h].seen = offer[h].seen /\ offer'[h].hop = offer[h].hop
         /\ task'[t].version = task[t].version + 1
         /\ task'[t].owner = IF offer[h].role = "owner" THEN offer[h].taker
                             ELSE task[t].owner
         /\ \A u \in Task \ {t} : task'[u] = task[u]
         /\ offer' \in [Offer -> OfferRow] /\ task' \in [Task -> TaskRow]
         /\ UNCHANGED <<active, due, changes>>
<1> DEFINE t == offer[h].task
           a == offer[h].taker
<1>1. /\ offer[h].status \in Open /\ h \notin due /\ Current(h)
      /\ offer' = [offer EXCEPT ![h].status = "accepted"]
      /\ UNCHANGED <<active, due, changes>>
  BY DEF AcceptHandoff, Answerable
<1>2. t \in Task /\ a \in Principal
  BY <1>1 DEF Shape, Made, Open
<1>3. /\ Others(h) /\ offer' \in [Offer -> OfferRow]
      /\ offer'[h].status = "accepted"
      /\ offer'[h].task = t /\ offer'[h].role = offer[h].role
      /\ offer'[h].giver = offer[h].giver /\ offer'[h].taker = offer[h].taker
      /\ offer'[h].seen = offer[h].seen /\ offer'[h].hop = offer[h].hop
  BY <1>1 DEF TypeOK, OfferRow, Ended, Others
<1>4. task[t] \in TaskRow
  BY <1>2 DEF TypeOK
<1>5. CASE offer[h].role = "owner"
  <2> DEFINE row == [owner |-> a, assignee |-> task[t].assignee,
                     status |-> task[t].status, version |-> task[t].version + 1]
  <2>1. task' = [task EXCEPT ![t] = row]
    BY <1>5 DEF AcceptHandoff
  <2>2. row \in TaskRow
    BY <1>2, <1>4 DEF TaskRow
  <2> QED
    BY <1>1, <1>2, <1>3, <1>5, <2>1, <2>2 DEF TypeOK
<1>6. CASE offer[h].role # "owner"
  <2> DEFINE row == [owner |-> task[t].owner, assignee |-> a,
                     status |-> task[t].status, version |-> task[t].version + 1]
  <2>1. task' = [task EXCEPT ![t] = row]
    BY <1>6 DEF AcceptHandoff
  <2>2. row \in TaskRow
    BY <1>2, <1>4 DEF TaskRow
  <2> QED
    BY <1>1, <1>2, <1>3, <1>6, <2>1, <2>2 DEF TypeOK
<1> QED
  BY <1>5, <1>6

\* A change of a task from elsewhere: a new version, or only a block.
OnlyBlocked(t) ==
  /\ task[t].status \notin Closed /\ task'[t].status = "blocked"
  /\ task'[t].assignee = task[t].assignee /\ task'[t].version = task[t].version

LEMMA MoveStep ==
  ASSUME TypeOK, NEW t \in Task, NEW status \in {"blocked", "done", "cancelled"},
         TaskMoves(t, status) \/ TaskBlocks(t)
  PROVE  /\ task'[t].version = task[t].version + 1 \/ OnlyBlocked(t)
         /\ task'[t].owner = task[t].owner
         /\ \A u \in Task \ {t} : task'[u] = task[u]
         /\ task' \in [Task -> TaskRow] /\ changes' \in Nat
         /\ UNCHANGED <<offer, active, due>>
<1>1. CASE TaskMoves(t, status)
  <2> DEFINE row == [owner |-> task[t].owner, assignee |-> task[t].assignee,
                     status |-> status, version |-> task[t].version + 1]
  <2>1. task' = [task EXCEPT ![t] = row] /\ UNCHANGED <<offer, active, due>>
    BY <1>1 DEF TaskMoves
  <2>2. row \in TaskRow
    BY DEF TaskRow, TypeOK, Closed
  <2>3. changes' \in Nat
    BY <1>1 DEF TaskMoves, TypeOK
  <2> QED
    BY <2>1, <2>2, <2>3 DEF TypeOK
<1>2. CASE TaskBlocks(t)
  <2> DEFINE row == [owner |-> task[t].owner, assignee |-> task[t].assignee,
                     status |-> "blocked", version |-> task[t].version]
  <2>1. /\ task' = [task EXCEPT ![t] = row] /\ UNCHANGED <<offer, active, due>>
        /\ task[t].status \notin Closed
    BY <1>2 DEF TaskBlocks
  <2>3. changes' \in Nat
    BY <1>2 DEF TaskBlocks, TypeOK
  <2>2. row \in TaskRow
    BY DEF TaskRow, TypeOK
  <2> QED
    BY <2>1, <2>2, <2>3 DEF TypeOK, OnlyBlocked
<1> QED
  BY <1>1, <1>2

\* The kinds of steps; the last one leaves offers and tasks alone.
LEMMA Steps ==
  ASSUME TypeOK, [Next]_vars
  PROVE  \/ \E h \in Offer : AcceptHandoff(h)
         \/ \E h \in Offer, t \in Task, a, b \in Principal :
              \E role \in {"owner", "assignee"} : CreateHandoff(h, t, a, b, role)
         \/ Quiet /\ UNCHANGED <<task, active, due, changes>> /\ offer' \in [Offer -> OfferRow]
         \/ \E t \in Task, status \in {"blocked", "done", "cancelled"} :
              TaskMoves(t, status) \/ TaskBlocks(t)
         \/ /\ UNCHANGED <<offer, task>> /\ due \subseteq due' /\ due' \in SUBSET Offer
            /\ active' \in SUBSET Principal /\ changes' \in Nat
<1>1. CASE UNCHANGED vars
  BY <1>1 DEF vars, TypeOK
<1>2. ASSUME NEW h \in Offer, Lapse(h) \/ PeekHandoff(h) \/ Reply(h)
      PROVE  \/ AcceptHandoff(h)
             \/ Quiet /\ UNCHANGED <<task, active, due, changes>>
                  /\ offer' \in [Offer -> OfferRow]
             \/ /\ UNCHANGED <<offer, task>> /\ due \subseteq due' /\ due' \in SUBSET Offer
                /\ active' \in SUBSET Principal /\ changes' \in Nat
  BY <1>2, QuietSteps DEF Lapse, Reply, TypeOK
<1>3. ASSUME ListHandoffs
      PROVE  Quiet /\ UNCHANGED <<task, active, due, changes>> /\ offer' \in [Offer -> OfferRow]
  <2>1. offer' = [h \in Offer |-> IF h \in due /\ offer[h].status \in Open
                                  THEN [offer[h] EXCEPT !.status = "expired"]
                                  ELSE offer[h]]
        /\ UNCHANGED <<task, active, due, changes>>
    BY <1>3 DEF ListHandoffs, Expire
  <2> QED
    BY <2>1 DEF Quiet, OfferRow, Open, Ended, TypeOK
<1>4. ASSUME NEW a \in Principal, Revoke(a)
      PROVE  /\ UNCHANGED <<offer, task>> /\ due \subseteq due' /\ due' \in SUBSET Offer
             /\ active' \in SUBSET Principal /\ changes' \in Nat
  BY <1>4 DEF Revoke, TypeOK
<1> QED
  BY <1>1, <1>2, <1>3, <1>4 DEF Next
-----------------------------------------------------------------------------
(* The invariant is inductive.                                             *)

LEMMA ShapeNext ==
  ASSUME TypeOK, Shape, [Next]_vars
  PROVE  TypeOK' /\ Shape'
<1>1. ASSUME NEW h \in Offer, AcceptHandoff(h)
      PROVE  TypeOK' /\ Shape'
  <2>1. TypeOK'
    BY <1>1, AcceptStep DEF TypeOK
  <2>2. Made(h)
    BY <1>1, AcceptStep DEF Shape, Open
  <2> QED
    BY <1>1, <2>1, <2>2, AcceptStep DEF Shape, Made, Others
<1>2. ASSUME NEW h \in Offer, NEW t \in Task, NEW a \in Principal, NEW b \in Principal,
             NEW role \in {"owner", "assignee"}, CreateHandoff(h, t, a, b, role)
      PROVE  TypeOK' /\ Shape'
  <2>1. TypeOK'
    BY <1>2, CreateStep DEF TypeOK
  <2> QED
    BY <1>2, <2>1, CreateStep DEF Shape, Made, Others, TypeOK
<1>3. ASSUME Quiet, UNCHANGED <<task, active, due, changes>>, offer' \in [Offer -> OfferRow]
      PROVE  TypeOK' /\ Shape'
  BY <1>3 DEF Quiet, TypeOK, Shape, Made, Open
<1>4. ASSUME NEW t \in Task, NEW status \in {"blocked", "done", "cancelled"},
             TaskMoves(t, status) \/ TaskBlocks(t)
      PROVE  TypeOK' /\ Shape'
  BY <1>4, MoveStep DEF TypeOK, Shape, Made
<1>5. ASSUME UNCHANGED <<offer, task>>, due' \in SUBSET Offer, active' \in SUBSET Principal,
             changes' \in Nat
      PROVE  TypeOK' /\ Shape'
  BY <1>5 DEF TypeOK, Shape, Made
<1> QED
  BY <1>1, <1>2, <1>3, <1>4, <1>5, Steps

\* The chain is only longer after a transfer was accepted.
LEMMA SameChain ==
  ASSUME \A g \in Offer : \/ offer'[g] = offer[g]
                          \/ offer[g].status # "accepted" /\ offer'[g].status # "accepted"
  PROVE  \A t \in Task : Transfers(t)' = Transfers(t) /\ Hops(t)' = Hops(t)
  BY DEF Transfers, Hops

LEMMA AcceptedChain ==
  ASSUME TypeOK, Shape, NEW h \in Offer, AcceptHandoff(h)
  PROVE  \A t \in Task :
           /\ t = offer[h].task /\ offer[h].role = "owner" =>
                /\ Transfers(t)' = Transfers(t) \cup {h} /\ h \notin Transfers(t)
                /\ Hops(t)' = Hops(t) + 1
           /\ ~(t = offer[h].task /\ offer[h].role = "owner") =>
                Transfers(t)' = Transfers(t) /\ Hops(t)' = Hops(t)
<1>1. /\ Others(h) /\ offer[h].status # "accepted" /\ offer'[h].status = "accepted"
      /\ offer'[h].task = offer[h].task /\ offer'[h].role = offer[h].role
  BY AcceptStep DEF Open
<1> SUFFICES ASSUME NEW t \in Task
             PROVE  /\ t = offer[h].task /\ offer[h].role = "owner" =>
                         /\ Transfers(t)' = Transfers(t) \cup {h} /\ h \notin Transfers(t)
                         /\ Hops(t)' = Hops(t) + 1
                    /\ ~(t = offer[h].task /\ offer[h].role = "owner") =>
                         Transfers(t)' = Transfers(t) /\ Hops(t)' = Hops(t)
  OBVIOUS
<1>2. CASE t = offer[h].task /\ offer[h].role = "owner"
  <2>1. Transfers(t)' = Transfers(t) \cup {h} /\ h \notin Transfers(t)
    BY <1>1, <1>2 DEF Transfers, Others
  <2>2. Cardinality(Transfers(t) \cup {h}) = Cardinality(Transfers(t)) + 1
    BY <2>1, HopsType, FS_AddElement
  <2> QED
    BY <1>2, <2>1, <2>2 DEF Hops
<1>3. CASE ~(t = offer[h].task /\ offer[h].role = "owner")
  <2>1. Transfers(t)' = Transfers(t)
    BY <1>1, <1>3 DEF Transfers, Others
  <2> QED
    BY <1>3, <2>1 DEF Hops
<1> QED
  BY <1>2, <1>3

LEMMA FitNext ==
  ASSUME TypeOK, Shape, OffersFit, TransfersAreBounded, [Next]_vars
  PROVE  OffersFit' /\ TransfersAreBounded'
<1> USE DEF OffersFit, TransfersAreBounded
<1>0. /\ \A t \in Task : task[t].version \in Nat /\ Hops(t) \in Nat
      /\ \A g \in Offer : offer[g].status # "absent" =>
           offer[g].task \in Task /\ offer[g].seen.version \in Nat
  BY HopsType DEF TypeOK, TaskRow, Shape, Made
<1>1. ASSUME NEW h \in Offer, AcceptHandoff(h)
      PROVE  OffersFit' /\ TransfersAreBounded'
  <2> DEFINE t == offer[h].task
  <2>1. /\ t \in Task /\ offer[h].status \in Open /\ Current(h) /\ Others(h)
        /\ offer'[h].status = "accepted" /\ offer'[h].task = t
        /\ offer'[h].seen = offer[h].seen
        /\ task'[t].version = task[t].version + 1
        /\ \A u \in Task \ {t} : task'[u] = task[u]
    BY <1>1, AcceptStep
  <2>2. Fits(h) /\ offer[h].seen.version = task[t].version
    BY <2>1 DEF Current, Open
  <2>3. Fits(h)'
    BY <1>0, <2>1, <2>2 DEF Fits, Open
  <2>4. ASSUME NEW g \in Offer \ {h}, offer[g].status # "absent"
        PROVE  Fits(g)'
    <3>1. Fits(g) /\ offer'[g] = offer[g] /\ offer[g].task \in Task
      BY <1>0, <2>1, <2>4 DEF Others
    <3>2. CASE offer[g].task = t
      BY <1>0, <2>1, <2>4, <3>1, <3>2 DEF Fits
    <3>3. CASE offer[g].task # t
      <4>1. Hops(offer[g].task)' = Hops(offer[g].task)
        BY <1>1, <3>1, <3>3, AcceptedChain
      <4> QED
        BY <2>1, <3>1, <3>3, <4>1 DEF Fits
    <3> QED
      BY <3>2, <3>3
  <2>5. ASSUME NEW u \in Task
        PROVE  Hops(u)' <= MaxHops
    <3>1. CASE u = t /\ offer[h].role = "owner"
      <4>1. Hops(u)' = Hops(u) + 1 /\ Hops(u) < MaxHops
        BY <1>1, <2>1, <2>2, <3>1, AcceptedChain DEF Fits
      <4> QED
        BY <1>0, <4>1, HandoffsAssumption
    <3>2. CASE ~(u = t /\ offer[h].role = "owner")
      BY <1>1, <3>2, AcceptedChain
    <3> QED
      BY <3>1, <3>2
  <2> QED
    BY <2>1, <2>3, <2>4, <2>5 DEF Others
<1>2. ASSUME NEW h \in Offer, NEW t \in Task, NEW a \in Principal, NEW b \in Principal,
             NEW role \in {"owner", "assignee"}, CreateHandoff(h, t, a, b, role)
      PROVE  OffersFit' /\ TransfersAreBounded'
  <2>1. /\ offer[h].status = "absent" /\ Others(h)
        /\ offer'[h].status = "offered" /\ offer'[h].task = t /\ offer'[h].role = role
        /\ offer'[h].seen = task[t] /\ UNCHANGED task
        /\ role = "owner" => offer'[h].hop = Hops(t) + 1 /\ Hops(t) < MaxHops
    BY <1>2, CreateStep
  <2>2. \A u \in Task : Hops(u)' = Hops(u)
    BY <2>1, SameChain DEF Others
  <2>3. Fits(h)'
    <3>1. Hops(offer[h].task)' = Hops(t)
      BY <2>1, <2>2
    <3> QED
      BY <1>0, <2>1, <3>1 DEF Fits, IsAsSeen
  <2>4. ASSUME NEW g \in Offer \ {h}, offer[g].status # "absent"
        PROVE  Fits(g)'
    <3>1. Fits(g) /\ offer'[g] = offer[g] /\ Hops(offer[g].task)' = Hops(offer[g].task)
      BY <1>0, <2>1, <2>2, <2>4 DEF Others
    <3> QED
      BY <2>1, <3>1 DEF Fits
  <2> QED
    BY <2>1, <2>2, <2>3, <2>4 DEF Others
<1>3. ASSUME Quiet, UNCHANGED task
      PROVE  OffersFit' /\ TransfersAreBounded'
  <2>1. \A u \in Task : Hops(u)' = Hops(u)
    BY <1>3, SameChain DEF Quiet, Open
  <2>2. ASSUME NEW g \in Offer, offer'[g].status # "absent"
        PROVE  Fits(g)'
    <3>1. /\ Fits(g) /\ offer'[g].task = offer[g].task /\ offer[g].task \in Task
          /\ offer'[g].seen = offer[g].seen /\ offer'[g].hop = offer[g].hop
          /\ offer'[g].role = offer[g].role
          /\ offer'[g].status \in Open => offer[g].status \in Open
          /\ offer'[g].status = "accepted" => offer[g].status = "accepted"
      BY <1>0, <1>3, <2>2 DEF Quiet, Open
    <3>2. Hops(offer[g].task)' = Hops(offer[g].task)
      BY <2>1, <3>1
    <3> QED
      BY <1>3, <3>1, <3>2 DEF Fits
  <2> QED
    BY <2>1, <2>2
<1>4. ASSUME NEW t \in Task, NEW status \in {"blocked", "done", "cancelled"},
             TaskMoves(t, status) \/ TaskBlocks(t)
      PROVE  OffersFit' /\ TransfersAreBounded'
  <2>1. /\ task'[t].version = task[t].version + 1 \/ OnlyBlocked(t)
        /\ UNCHANGED offer /\ task'[t].owner = task[t].owner
        /\ \A u \in Task \ {t} : task'[u] = task[u]
    BY <1>4, MoveStep
  <2>2. \A u \in Task : Hops(u)' = Hops(u)
    BY <2>1, SameChain
  <2>3. ASSUME NEW g \in Offer, offer[g].status # "absent"
        PROVE  Fits(g)'
    <3>1. Fits(g) /\ offer[g].task \in Task /\ Hops(offer[g].task)' = Hops(offer[g].task)
      BY <1>0, <2>1, <2>2, <2>3
    <3>2. CASE OnlyBlocked(t)
      BY <2>1, <2>3, <3>1, <3>2 DEF Fits, OnlyBlocked, IsAsSeen
    <3>3. CASE task'[t].version = task[t].version + 1
      BY <1>0, <2>1, <2>3, <3>1, <3>3 DEF Fits
    <3> QED
      BY <2>1, <3>2, <3>3
  <2> QED
    BY <2>1, <2>2, <2>3
<1>5. ASSUME UNCHANGED <<offer, task>>
      PROVE  OffersFit' /\ TransfersAreBounded'
  BY <1>3, <1>5 DEF Quiet
<1> QED
  BY <1>1, <1>2, <1>3, <1>4, <1>5, Steps

\* A chain in which nothing was accepted is the chain it was.
LEMMA SameLineage ==
  ASSUME LineageIsComplete, OneOfRivalsIsTaken,
         \A g \in Offer :
           \/ offer'[g] = offer[g]
           \/ offer[g].status # "accepted" /\ offer'[g].status # "accepted",
         \A t \in Task : task'[t].owner = task[t].owner
  PROVE  LineageIsComplete' /\ OneOfRivalsIsTaken'
<1>1. \A t \in Task : Transfers(t)' = Transfers(t) /\ Hops(t)' = Hops(t)
  BY SameChain
<1>2. \A t \in Task : \A g \in Transfers(t) : g \in Offer /\ offer'[g] = offer[g]
  BY DEF Transfers
<1>3. LineageIsComplete'
  BY <1>1, <1>2 DEF LineageIsComplete
<1>4. OneOfRivalsIsTaken'
  BY DEF OneOfRivalsIsTaken
<1> QED
  BY <1>3, <1>4

LEMMA LineageNext ==
  ASSUME TypeOK, Shape, OffersFit, LineageIsComplete, OneOfRivalsIsTaken, [Next]_vars
  PROVE  LineageIsComplete' /\ OneOfRivalsIsTaken'
<1>1. ASSUME NEW h \in Offer, AcceptHandoff(h)
      PROVE  LineageIsComplete' /\ OneOfRivalsIsTaken'
  <2> DEFINE t == offer[h].task
  <2>1. /\ t \in Task /\ offer[h].status \in Open /\ Current(h) /\ Others(h)
        /\ offer'[h].status = "accepted" /\ offer'[h].task = t
        /\ offer'[h].giver = offer[h].giver /\ offer'[h].taker = offer[h].taker
        /\ offer'[h].seen = offer[h].seen /\ offer'[h].hop = offer[h].hop
        /\ task'[t].owner = IF offer[h].role = "owner" THEN offer[h].taker
                            ELSE task[t].owner
        /\ \A u \in Task \ {t} : task'[u] = task[u]
    BY <1>1, AcceptStep
  <2>2. Fits(h) /\ offer[h].giver = task[t].owner /\ offer[h].seen.version = task[t].version
    BY <2>1 DEF Current, Open, OffersFit
  <2>3. OneOfRivalsIsTaken'
    <3>1. ASSUME NEW g \in Offer \ {h}, offer[g].task = t, offer[g].status = "accepted"
          PROVE  offer[g].seen.version # offer[h].seen.version
      <4>1. Fits(g) /\ offer[g].seen.version \in Nat /\ task[t].version \in Nat
        BY <2>1, <3>1 DEF OffersFit, Shape, Made, TypeOK, TaskRow
      <4> QED
        BY <2>2, <3>1, <4>1 DEF Fits
    <3> QED
      BY <2>1, <3>1 DEF OneOfRivalsIsTaken, Others
  <2>4. ASSUME NEW u \in Task
        PROVE  /\ \A g \in Transfers(u)' : offer'[g].hop \in 1..Hops(u)'
               /\ \A f, g \in Transfers(u)' :
                    /\ offer'[f].hop = offer'[g].hop => f = g
                    /\ offer'[g].hop = offer'[f].hop + 1 => offer'[g].giver = offer'[f].taker
               /\ \A g \in Transfers(u)' : offer'[g].hop = Hops(u)' =>
                    offer'[g].taker = task'[u].owner
    <3>1. /\ \A g \in Transfers(u) : /\ g \in Offer /\ g # h /\ offer'[g] = offer[g]
                                      /\ offer[g].hop \in 1..Hops(u)
          /\ \A f, g \in Transfers(u) :
               /\ offer[f].hop = offer[g].hop => f = g
               /\ offer[g].hop = offer[f].hop + 1 => offer[g].giver = offer[f].taker
          /\ \A g \in Transfers(u) : offer[g].hop = Hops(u) => offer[g].taker = task[u].owner
      BY <2>1 DEF Transfers, LineageIsComplete, Others, Open
    <3>2. CASE u = t /\ offer[h].role = "owner"
      <4>1. /\ Transfers(u)' = Transfers(u) \cup {h} /\ Hops(u)' = Hops(u) + 1
            /\ offer'[h].hop = Hops(u) + 1 /\ Hops(u) \in Nat
            /\ task'[u].owner = offer'[h].taker /\ offer'[h].giver = task[u].owner
        BY <1>1, <2>1, <2>2, <3>2, AcceptedChain, HopsType DEF Fits
      <4>2. \A g \in Transfers(u)' : offer'[g].hop \in 1..Hops(u)'
        BY <3>1, <4>1
      <4>3. ASSUME NEW f \in Transfers(u)', NEW g \in Transfers(u)'
            PROVE  /\ offer'[f].hop = offer'[g].hop => f = g
                   /\ offer'[g].hop = offer'[f].hop + 1 => offer'[g].giver = offer'[f].taker
        <5>1. CASE f # h /\ g # h
          BY <3>1, <4>1, <4>3, <5>1
        <5>2. CASE f = h /\ g # h
          BY <3>1, <4>1, <4>3, <5>2
        <5>3. CASE f # h /\ g = h
          BY <3>1, <4>1, <4>3, <5>3
        <5>4. CASE f = h /\ g = h
          BY <4>1, <5>4
        <5> QED
          BY <5>1, <5>2, <5>3, <5>4
      <4>4. \A g \in Transfers(u)' : offer'[g].hop = Hops(u)' => offer'[g].taker = task'[u].owner
        BY <3>1, <4>1
      <4> QED
        BY <4>2, <4>3, <4>4
    <3>3. CASE ~(u = t /\ offer[h].role = "owner")
      <4>1. Transfers(u)' = Transfers(u) /\ Hops(u)' = Hops(u) /\ task'[u].owner = task[u].owner
        BY <1>1, <2>1, <3>3, AcceptedChain
      <4> QED
        BY <3>1, <4>1
    <3> QED
      BY <3>2, <3>3
  <2> QED
    BY <2>3, <2>4 DEF LineageIsComplete
<1>2. ASSUME NEW h \in Offer, NEW t \in Task, NEW a \in Principal, NEW b \in Principal,
             NEW role \in {"owner", "assignee"}, CreateHandoff(h, t, a, b, role)
      PROVE  LineageIsComplete' /\ OneOfRivalsIsTaken'
  BY <1>2, CreateStep, SameLineage DEF Others
<1>3. ASSUME Quiet, UNCHANGED task
      PROVE  LineageIsComplete' /\ OneOfRivalsIsTaken'
  BY <1>3, SameLineage DEF Quiet, Open
<1>4. ASSUME NEW t \in Task, NEW status \in {"blocked", "done", "cancelled"},
             TaskMoves(t, status) \/ TaskBlocks(t)
      PROVE  LineageIsComplete' /\ OneOfRivalsIsTaken'
  BY <1>4, MoveStep, SameLineage
<1>5. ASSUME UNCHANGED <<offer, task>>
      PROVE  LineageIsComplete' /\ OneOfRivalsIsTaken'
  BY <1>5, SameLineage
<1> QED
  BY <1>1, <1>2, <1>3, <1>4, <1>5, Steps
-----------------------------------------------------------------------------
(* Theorems.                                                               *)

LEMMA InitIInv == Init => IInv
<1> SUFFICES ASSUME Init PROVE IInv
  OBVIOUS
<1>1. \A h \in Offer : offer[h] = Absent
  BY DEF Init
<1>2. TypeOK
  BY HandoffsAssumption DEF Init, TypeOK, OfferRow, TaskRow, Absent
<1>3. \A t : Transfers(t) = {} /\ Hops(t) = 0
  BY <1>1, FS_EmptySet DEF Transfers, Hops, Absent
<1>4. TransfersAreBounded /\ LineageIsComplete
  BY <1>3, HandoffsAssumption DEF TransfersAreBounded, LineageIsComplete
<1>5. Shape /\ OffersFit /\ OneOfRivalsIsTaken
  BY <1>1 DEF Shape, OffersFit, OneOfRivalsIsTaken, Absent
<1> QED
  BY <1>2, <1>4, <1>5 DEF IInv

\* The types, what is left of the task an offer was made for, and the chain of
\* transfers hold after any number of offers, replies and changes of tasks.
THEOREM Invariance == Spec => []IInv
<1>1. Init => IInv
  BY InitIInv
<1>2. IInv /\ [Next]_vars => IInv'
  BY ShapeNext, FitNext, LineageNext DEF IInv
<1> QED
  BY <1>1, <1>2, PTL DEF Spec

\* The accepted transfers of a task form one chain that ends at its owner and is
\* no longer than maxHandoffHops, although the length is only looked at when an
\* offer is made (createHandoff, AcceptHandoff).
THEOREM TransfersChain == Spec => []TransfersFormOneChain
<1>1. IInv => TransfersFormOneChain
  BY DEF IInv, TransfersFormOneChain
<1> QED
  BY <1>1, Invariance, PTL

\* An offer is taken for the owner, the executor and the open or closed task it
\* was made for, within its lifetime and once (AcceptHandoff, expireDueHandoffs,
\* recipientResolve).
THEOREM OffersKept == Spec => OffersAreKept
<1>1. ASSUME IInv, [Next]_vars
      PROVE  \A h \in Offer : AcceptedAsOffered(h) /\ EndedOfferRests(h)
  <2> USE <1>1 DEF IInv, AcceptedAsOffered, EndedOfferRests
  <2>1. ASSUME NEW g \in Offer, AcceptHandoff(g)
        PROVE  \A h \in Offer : AcceptedAsOffered(h) /\ EndedOfferRests(h)
    <3>1. /\ offer[g].status \in Open /\ g \notin due /\ Current(g) /\ Others(g)
      BY <2>1, AcceptStep
    <3>2. IsAsSeen(task[offer[g].task], offer[g].seen)
      BY <3>1 DEF OffersFit, Fits, Current, Open
    <3> QED
      BY <3>1, <3>2 DEF Others, Open, Ended
  <2>2. ASSUME NEW g \in Offer, NEW t \in Task, NEW a \in Principal, NEW b \in Principal,
               NEW role \in {"owner", "assignee"}, CreateHandoff(g, t, a, b, role)
        PROVE  \A h \in Offer : AcceptedAsOffered(h) /\ EndedOfferRests(h)
    BY <2>2, CreateStep DEF Others, Open, Ended
  <2>3. ASSUME NEW g \in Offer, \/ DeclineHandoff(g) \/ ClarifyHandoff(g) \/ CancelHandoff(g)
        PROVE  \A h \in Offer : AcceptedAsOffered(h) /\ EndedOfferRests(h)
    <3>1. ASSUME NEW status \in {"declined", "clarification_requested", "cancelled"},
                 Becomes(g, status)
          PROVE  \A h \in Offer : AcceptedAsOffered(h) /\ EndedOfferRests(h)
      BY <3>1 DEF Becomes, Answerable, TypeOK, OfferRow, Open, Ended
    <3> QED
      BY <2>3, <3>1 DEF DeclineHandoff, ClarifyHandoff, CancelHandoff
  <2>4. ASSUME NEW S, Expire(S)
        PROVE  \A h \in Offer : AcceptedAsOffered(h) /\ EndedOfferRests(h)
    BY <2>4 DEF Expire, TypeOK, OfferRow, Open, Ended
  <2>5. ASSUME UNCHANGED offer
        PROVE  \A h \in Offer : AcceptedAsOffered(h) /\ EndedOfferRests(h)
    BY <2>5 DEF Open, Ended
  <2> QED
    BY <2>1, <2>2, <2>3, <2>4, <2>5
       DEF Next, Reply, PeekHandoff, ListHandoffs, Lapse, TaskMoves, TaskBlocks,
           Revoke, vars
<1>2. (\A h \in Offer : AcceptedAsOffered(h) /\ EndedOfferRests(h)) =>
        [\A h \in Offer : AcceptedAsOffered(h) /\ EndedOfferRests(h)]_vars
  OBVIOUS
<1> QED
  BY <1>1, <1>2, Invariance, PTL DEF Spec, OffersAreKept
-----------------------------------------------------------------------------
(* Handoffs implement Accountability.                                      *)

owners == [t \in Task |-> task[t].owner]
asked  == [t \in Task |-> Asking(t)]
hops   == [t \in Task |-> Hops(t)]

LEMMA AskedType ==
  ASSUME TypeOK, Shape
  PROVE  \A t \in Task : Asking(t) \in SUBSET Principal
  BY DEF Asking, Answerable, Open, Shape, Made

\* Who was asked is still asked, or no longer.
LEMMA FewerAsked ==
  ASSUME TypeOK, Shape, Shape', OffersFit, due \subseteq due',
         \A g \in Offer :
           \/ offer'[g] = offer[g]
           \/ /\ offer[g].status \in Open /\ offer'[g].status \in Ended \cup Open
              /\ offer'[g].task = offer[g].task /\ offer'[g].role = offer[g].role
              /\ offer'[g].giver = offer[g].giver /\ offer'[g].taker = offer[g].taker
              /\ offer'[g].seen = offer[g].seen,
         \A t \in Task :
           \/ task'[t].owner = task[t].owner /\ task'[t].version = task[t].version
           \/ task'[t].version = task[t].version + 1
  PROVE  \A t \in Task : /\ Asking(t)' \subseteq Asking(t)
                         /\ task'[t].version = task[t].version + 1 => Asking(t)' = {}
<1> SUFFICES ASSUME NEW t \in Task, NEW g \in Offer, offer'[g].task = t,
                    offer'[g].role = "owner", Answerable(g)', Current(g)'
             PROVE  /\ offer[g].task = t /\ offer[g].role = "owner"
                    /\ Answerable(g) /\ Current(g) /\ offer'[g].taker = offer[g].taker
                    /\ task'[t].version # task[t].version + 1
  BY DEF Asking
<1>1. /\ offer[g].status \in Open /\ offer[g].task = t /\ offer[g].role = "owner"
      /\ offer'[g].giver = offer[g].giver /\ offer'[g].taker = offer[g].taker
      /\ offer'[g].seen = offer[g].seen /\ g \notin due
  BY DEF Answerable, Open, Ended
<1>2. offer[g].seen.version <= task[t].version
  BY <1>1 DEF OffersFit, Fits, Open
<1>3. offer[g].seen.version \in Nat /\ task[t].version \in Nat
  BY <1>1 DEF Shape, Made, TypeOK, TaskRow, Open
<1>4. offer[g].seen.version = task'[t].version
  BY <1>1 DEF Current
<1>5. task'[t].version # task[t].version + 1
  BY <1>2, <1>3, <1>4
<1>6. task'[t].owner = task[t].owner /\ task'[t].version = task[t].version
  BY <1>5
<1> QED
  BY <1>1, <1>5, <1>6 DEF Answerable, Current

LEMMA Refines ==
  ASSUME IInv, IInv', [Next]_vars
  PROVE  [A!Next]_(A!vars)
<1> USE DEF IInv
<1>0. \A t \in Task : Asking(t) \in SUBSET Principal /\ Asking(t)' \in SUBSET Principal
  <2>1. \A t \in Task : Asking(t) \in SUBSET Principal
    BY AskedType
  <2>2. \A t \in Task : Asking(t)' \in SUBSET Principal
    BY DEF Asking, Answerable, Open, Shape, Made
  <2> QED
    BY <2>1, <2>2
<1>1. ASSUME UNCHANGED <<owners, hops>>, \A t \in Task : Asking(t)' \subseteq Asking(t)
      PROVE  A!Next
  BY <1>0, <1>1 DEF A!Next, A!Forget, owners, hops
<1>2. ASSUME NEW u \in Task, NEW b \in Principal, A!Take(u, b)
      PROVE  A!Next
  BY <1>2 DEF A!Next
<1>3. ASSUME NEW h \in Offer, AcceptHandoff(h)
      PROVE  A!Next
  <2> DEFINE t == offer[h].task
             a == offer[h].taker
  <2>1. /\ t \in Task /\ offer[h].status \in Open /\ h \notin due /\ Current(h)
        /\ Others(h) /\ UNCHANGED due
        /\ offer'[h].status = "accepted"
        /\ offer'[h].task = t /\ offer'[h].role = offer[h].role
        /\ offer'[h].giver = offer[h].giver /\ offer'[h].taker = offer[h].taker
        /\ offer'[h].seen = offer[h].seen
        /\ task'[t].version = task[t].version + 1
        /\ task'[t].owner = IF offer[h].role = "owner" THEN a ELSE task[t].owner
        /\ \A u \in Task \ {t} : task'[u] = task[u]
    BY <1>3, AcceptStep
  <2>2. \A u \in Task : /\ Asking(u)' \subseteq Asking(u)
                        /\ task'[u].version = task[u].version + 1 => Asking(u)' = {}
    BY <2>1, FewerAsked DEF Others, Ended
  <2>3. CASE offer[h].role = "owner"
    <3>1. a \in Asking(t) /\ a \in Principal
      BY <1>0, <2>1, <2>3 DEF Asking, Answerable
    <3>2. Hops(t) < MaxHops
      BY <2>1, <2>3 DEF OffersFit, Fits, Current, Open
    <3>3. ASSUME NEW u \in Task \ {t}
          PROVE  Asking(u)' = Asking(u)
      <4>1. \A g \in Offer : offer[g].task = u \/ offer'[g].task = u =>
              offer'[g] = offer[g] /\ task'[u] = task[u]
        BY <2>1 DEF Others
      <4>2. \A g \in Offer : offer[g].task = u \/ offer'[g].task = u =>
              (Answerable(g)' <=> Answerable(g)) /\ (Current(g)' <=> Current(g))
        BY <2>1, <4>1 DEF Answerable, Current
      <4> QED
        BY <4>1, <4>2 DEF Asking
    <3>4. /\ Hops(t)' = Hops(t) + 1
          /\ \A u \in Task \ {t} : Hops(u)' = Hops(u)
      BY <1>3, <2>1, <2>3, AcceptedChain
    <3>5. /\ owners' = [owners EXCEPT ![t] = a]
          /\ hops' = [hops EXCEPT ![t] = @ + 1]
          /\ asked' = [asked EXCEPT ![t] = {}]
      BY <2>1, <2>2, <2>3, <3>3, <3>4 DEF owners, hops, asked
    <3>6. ASSUME NEW u \in Task, NEW b \in Principal, u = t, b = a
          PROVE  A!Take(u, b)
      BY <2>1, <3>1, <3>2, <3>5, <3>6 DEF A!Take, owners, hops, asked
    <3> QED
      BY <1>2, <2>1, <3>1, <3>6
  <2>4. CASE offer[h].role # "owner"
    <3>1. UNCHANGED <<owners, hops>>
      BY <1>3, <2>1, <2>4, AcceptedChain DEF owners, hops
    <3> QED
      BY <1>1, <2>2, <3>1
  <2> QED
    BY <2>3, <2>4
<1>4. ASSUME NEW h \in Offer, NEW t \in Task, NEW a \in Principal, NEW b \in Principal,
             NEW role \in {"owner", "assignee"}, CreateHandoff(h, t, a, b, role)
      PROVE  [A!Next]_(A!vars)
  <2>1. /\ offer[h].status = "absent" /\ Others(h)
        /\ offer'[h].status = "offered" /\ offer'[h].task = t /\ offer'[h].role = role
        /\ offer'[h].giver = a /\ offer'[h].taker = b /\ offer'[h].seen = task[t]
        /\ role = "owner" => Hops(t) < MaxHops
        /\ UNCHANGED <<task, due>>
    BY <1>4, CreateStep
  <2>2. UNCHANGED <<owners, hops>>
    BY <2>1, SameChain DEF Others, owners, hops
  <2>3. \A u \in Task \ {t} : Asking(u)' = Asking(u)
    BY <2>1 DEF Asking, Others, Answerable, Current, Open
  <2>4. CASE role = "owner" /\ a = task[t].owner /\ h \notin due
    <3>1. Asking(t)' = Asking(t) \cup {b}
      BY <2>1, <2>4 DEF Asking, Others, Answerable, Current, Open
    <3>2. asked' = [asked EXCEPT ![t] = @ \cup {b}]
      BY <2>3, <3>1 DEF asked
    <3> QED
      BY <2>1, <2>2, <2>4, <3>2 DEF A!Next, A!Ask, owners, hops, asked
  <2>5. CASE ~(role = "owner" /\ a = task[t].owner /\ h \notin due)
    <3>1. Asking(t)' = Asking(t)
      BY <2>1, <2>5 DEF Asking, Others, Answerable, Current, Open
    <3>2. UNCHANGED asked
      BY <2>3, <3>1 DEF asked
    <3> QED
      BY <2>2, <3>2 DEF A!vars, owners, hops, asked
  <2> QED
    BY <2>4, <2>5
<1>5. ASSUME Quiet, UNCHANGED <<task, due>>
      PROVE  A!Next
  <2>1. UNCHANGED <<owners, hops>>
    BY <1>5, SameChain DEF Quiet, Open, owners, hops
  <2>2. \A t \in Task : Asking(t)' \subseteq Asking(t)
    BY <1>5, FewerAsked DEF Quiet, Open, Ended
  <2> QED
    BY <1>1, <2>1, <2>2
<1>6. ASSUME NEW t \in Task, NEW status \in {"blocked", "done", "cancelled"},
             TaskMoves(t, status) \/ TaskBlocks(t)
      PROVE  A!Next
  <2>1. /\ task'[t].version = task[t].version + 1 \/ OnlyBlocked(t)
        /\ task'[t].owner = task[t].owner
        /\ \A u \in Task \ {t} : task'[u] = task[u]
        /\ UNCHANGED <<offer, due>>
    BY <1>6, MoveStep
  <2>2. UNCHANGED <<owners, hops>>
    BY <2>1, SameChain DEF owners, hops
  <2>3. \A u \in Task : Asking(u)' \subseteq Asking(u)
    BY <2>1, FewerAsked DEF OnlyBlocked
  <2> QED
    BY <1>1, <2>2, <2>3
<1>7. ASSUME UNCHANGED <<offer, task>>, due \subseteq due'
      PROVE  A!Next
  <2>1. UNCHANGED <<owners, hops>>
    BY <1>7, SameChain DEF owners, hops
  <2>2. \A u \in Task : Asking(u)' \subseteq Asking(u)
    BY <1>7, FewerAsked
  <2> QED
    BY <1>1, <2>1, <2>2
<1> QED
  BY <1>3, <1>4, <1>5, <1>6, <1>7, Steps

\* Accountability for a task moves from whoever has it to somebody who was asked by
\* that person since the task last changed, maxHandoffHops times at most, whatever
\* else is offered, answered, withdrawn or expires (AcceptHandoff).
THEOREM HandoffsImplementAccountability == Spec => ImplementsAccountability
<1>1. Init => A!Init
  <2> SUFFICES ASSUME Init PROVE A!Init
    OBVIOUS
  <2>1. \A h \in Offer : offer[h] = Absent
    BY DEF Init
  <2>2. \A t \in Task : Asking(t) = {} /\ Hops(t) = 0
    BY <2>1, FS_EmptySet DEF Asking, Answerable, Open, Transfers, Hops, Absent
  <2>3. [t \in Task |-> task[t].owner] \in [Task -> Principal]
    BY DEF Init
  <2> QED
    BY <2>2, <2>3 DEF A!Init
<1>2. IInv /\ IInv' /\ [Next]_vars => [A!Next]_(A!vars)
  BY Refines
<1> QED
  BY <1>1, <1>2, Invariance, PTL DEF Spec, ImplementsAccountability, A!Spec
=============================================================================
