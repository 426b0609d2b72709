---------------------------- MODULE GovernedChange ----------------------------
(***************************************************************************)
(* What the people of an organisation rely on, without jobs, ledger        *)
(* entries, tasks or executors: a change is prepared against the records   *)
(* as they are, endorsed, approved and then applied in one step - or       *)
(* dropped on the way, for good.  It is applied only while the records are *)
(* what they were when it was prepared, and a business key only once.      *)
(***************************************************************************)
EXTENDS Naturals

CONSTANTS Proposal, Key, Record

VARIABLES
  phase,    \* how far each change is
  content,  \* the operations it was prepared with
  version,  \* the version of each record
  used      \* the business keys that were applied

vars == <<phase, content, version, used>>

InReview == {"prepared", "endorsed", "approved"}

Init ==
  /\ phase = [p \in Proposal |-> "absent"]
  /\ content = [p \in Proposal |-> {}]
  /\ version = [r \in Record |-> 1]
  /\ used = {}

\* What is in review and given up, for another change or for none.
Dropped(D) ==
  [p \in Proposal |-> IF p \in D /\ phase[p] \in InReview
                      THEN "dropped" ELSE phase[p]]

Current(o) == version[o.content.record] = o.content.version

Prepare(p) ==
  /\ phase[p] = "absent"
  /\ \E D \in SUBSET Proposal : phase' = [Dropped(D) EXCEPT ![p] = "prepared"]
  /\ content'[p] # {}
  /\ \A o \in content'[p] : Current(o) /\ o.key \notin used
  /\ content' = [content EXCEPT ![p] = content'[p]]
  /\ UNCHANGED <<version, used>>

Endorse(p) ==
  /\ phase[p] = "prepared"
  /\ phase' = [phase EXCEPT ![p] = "endorsed"]
  /\ UNCHANGED <<content, version, used>>

Approve(p) ==
  /\ phase[p] = "endorsed"
  /\ phase' = [phase EXCEPT ![p] = "approved"]
  /\ UNCHANGED <<content, version, used>>

Drop ==
  /\ \E D \in SUBSET Proposal : phase' = Dropped(D)
  /\ UNCHANGED <<content, version, used>>

\* ops are the authorized operations: all of them, unless ids were repeated.
Apply(p) ==
  \E ops \in SUBSET content[p] :
    /\ phase[p] = "approved"
    /\ ops # {}
    /\ \A o \in ops : Current(o) /\ o.key \notin used
    /\ phase' = [phase EXCEPT ![p] = "applied"]
    /\ version' = [r \in Record |->
         IF \E o \in ops : o.content.record = r THEN version[r] + 1
         ELSE version[r]]
    /\ used' = used \cup {o.key : o \in ops}
    /\ UNCHANGED content

Next ==
  \/ \E p \in Proposal : Prepare(p) \/ Endorse(p) \/ Approve(p) \/ Apply(p)
  \/ Drop

Spec == Init /\ [][Next]_vars
=============================================================================
