------------------------------- MODULE Harness -------------------------------
(***************************************************************************)
(* One execution of an external harness: the process and its descendants,  *)
(* the pipe they print into, the goroutine that copies it into a bounded   *)
(* buffer and kills the process group on overflow, the deadline, and Run,  *)
(* which waits for whichever comes first.  What the output says is read as *)
(* in Protocol.                                                            *)
(*                                                                         *)
(* Sizes are counted in lines.  Of stderr and stdin there is only whether a *)
(* descendant holds them; the working directory and the environment of the *)
(* child are left out.                                                     *)
(***************************************************************************)
EXTENDS Protocol, FiniteSets

CONSTANTS
  Limit,      \* maxOutput
  Child,      \* the descendants it may start
  MaxLines    \* bound: lines that are printed

\* A descendant is in the process group of the harness or in one of its own, and
\* holds the stdout it inherited; or only stderr, or stdin with more in it than
\* was read; or none of them.
Descendant == [grouped : BOOLEAN, holds : {"stdout", "stderr", "nothing"}]

ASSUME HarnessAssumption ==
  Limit \in Nat \ {0} /\ MaxLines \in Nat /\ Child \subseteq Descendant

VARIABLES
  phase,       \* where Run is: idle, waiting, killing, returned
  leader,      \* the process: none, alive, or exited
  code,        \* its exit code; 137 when it was killed
  children,    \* its living descendants
  pipe,        \* lines printed and not yet copied
  out,         \* the buffer of capWriter
  overflowed,
  expired,     \* runCtx is done: the deadline, or the caller gave up
  printed,     \* history: every line printed
  verdict      \* the Result of Run

vars == <<phase, leader, code, children, pipe, out, overflowed, expired,
          printed, verdict>>

Phases == {"idle", "waiting", "killing", "returned"}

TypeOK ==
  /\ phase \in Phases
  /\ leader \in {"none", "alive", "exited"} /\ code \in {0, 1, 137}
  /\ children \in SUBSET Child
  /\ pipe \in Seq(Line) /\ out \in Seq(Line) /\ printed \in Seq(Line)
  /\ Len(out) <= Limit
  /\ overflowed \in BOOLEAN /\ expired \in BOOLEAN
  /\ verdict \in IF phase = "returned" THEN Result ELSE {None}

Init ==
  /\ phase = "idle" /\ leader = "none" /\ code = 0 /\ children = {}
  /\ pipe = <<>> /\ out = <<>> /\ printed = <<>>
  /\ overflowed = FALSE /\ expired = FALSE /\ verdict = None

Writers == {c \in children : c.holds = "stdout"}
Holders == {c \in children : c.holds # "nothing"}
Group   == {c \in children : c.grouped}

\* cmd.Wait returns when the process is gone and its three copying goroutines
\* have ended: stdout and stderr are read up to the end of the file, which comes
\* when nobody holds them, and stdin is written or nobody is left to read it.
WaitDone == leader = "exited" /\ pipe = <<>> /\ Holders = {}
-----------------------------------------------------------------------------
Return(result) == phase' = "returned" /\ verdict' = result

\* isolationAcknowledged, resolveBinary, MkdirAll, MkdirTemp, cmd.Start.
Refuse ==
  /\ phase = "idle"
  /\ \E reason \in {"isolation_required", "harness_unavailable", "internal_error"} :
       Return(Failed(reason))
  /\ UNCHANGED <<leader, code, children, pipe, out, overflowed, expired, printed>>

Start ==
  /\ phase = "idle"
  /\ phase' = "waiting" /\ leader' = "alive"
  /\ UNCHANGED <<code, children, pipe, out, overflowed, expired, printed, verdict>>

\* What the harness does: none of it is certain to happen.
Emit(line) ==
  /\ leader = "alive" \/ Writers # {}
  /\ Len(printed) < MaxLines
  /\ pipe' = Append(pipe, line) /\ printed' = Append(printed, line)
  /\ UNCHANGED <<phase, leader, code, children, out, overflowed, expired, verdict>>

Spawn(child) ==
  /\ leader = "alive" /\ child \notin children
  /\ children' = children \cup {child}
  /\ UNCHANGED <<phase, leader, code, pipe, out, overflowed, expired, printed, verdict>>

Exit(c) ==
  /\ leader = "alive"
  /\ leader' = "exited" /\ code' = c
  /\ UNCHANGED <<phase, children, pipe, out, overflowed, expired, printed, verdict>>

ChildExits(child) ==
  /\ child \in children
  /\ children' = children \ {child}
  /\ UNCHANGED <<phase, leader, code, pipe, out, overflowed, expired, printed, verdict>>

\* SIGKILL to the process group; it outlives its leader.
KillGroup ==
  /\ leader' = IF leader = "alive" THEN "exited" ELSE leader
  /\ code' = IF leader = "alive" THEN 137 ELSE code
  /\ children' = children \ Group

\* capWriter.Write of n lines: keeps what fits, and kills the group the first
\* time that something does not.
Write(n) ==
  LET room == Limit - Len(out)
  IN  /\ out' = IF overflowed THEN out
                ELSE out \o SubSeq(pipe, 1, IF n > room THEN room ELSE n)
      /\ overflowed' = (overflowed \/ n > room)
      /\ IF overflowed' /\ ~overflowed THEN KillGroup
                                       ELSE UNCHANGED <<leader, code, children>>

\* The copying goroutine takes what is there, in one read or in several.
Copy ==
  /\ \E n \in 1..Len(pipe) :
       Write(n) /\ pipe' = SubSeq(pipe, n + 1, Len(pipe))
  /\ UNCHANGED <<phase, expired, printed, verdict>>

Expire ==
  /\ phase = "waiting" /\ ~expired
  /\ expired' = TRUE
  /\ UNCHANGED <<phase, leader, code, children, pipe, out, overflowed, printed, verdict>>

\* select takes the exit of the process, though the deadline may have passed.
Finish ==
  /\ phase = "waiting" /\ WaitDone
  /\ Return(IF overflowed THEN Failed("output_overflow")
            ELSE IF code # 0 THEN Failed("nonzero_exit") ELSE Judge(out))
  /\ IF overflowed THEN KillGroup ELSE UNCHANGED <<leader, code, children>>
  /\ UNCHANGED <<pipe, out, overflowed, expired, printed>>

\* Mutant: the harness is left to notice the deadline itself.
CancelWaiting ==
  /\ phase = "waiting" /\ expired
  /\ phase' = "killing"
  /\ UNCHANGED <<leader, code, children, pipe, out, overflowed, expired, printed, verdict>>

\* select takes the deadline, though the process may have exited.
Cancel ==
  /\ phase = "waiting" /\ expired
  /\ phase' = "killing"
  /\ KillGroup
  /\ UNCHANGED <<pipe, out, overflowed, expired, printed, verdict>>

FinishKilled ==
  /\ phase = "killing" /\ WaitDone
  /\ Return(Failed(IF overflowed THEN "output_overflow" ELSE "timeout"))
  /\ UNCHANGED <<leader, code, children, pipe, out, overflowed, expired, printed>>

HarnessSteps ==
  \/ \E line \in Line : Emit(line)
  \/ \E child \in Child : Spawn(child)
  \/ \E c \in {0, 1} : Exit(c)
  \/ \E child \in Child : ChildExits(child)

Next ==
  \/ Refuse \/ Start
  \/ HarnessSteps
  \/ Copy \/ Expire \/ Finish \/ Cancel \/ FinishKilled

\* The goroutines of Run are scheduled, the deadline comes and a kill is
\* carried out; the harness owes nothing.
Fairness ==
  WF_vars(Copy) /\ WF_vars(Expire) /\ WF_vars(Finish) /\ WF_vars(Cancel)
    /\ WF_vars(FinishKilled)

Spec == Init /\ [][Next]_vars
FairSpec == Spec /\ Fairness
-----------------------------------------------------------------------------
\* A draft or a question is taken only from a process that ended well, and
\* only when everything that it and its descendants printed was read: no
\* truncated output passes for a complete one (Run, capWriter).
TakenIsWhole ==
  phase = "returned" /\ verdict.reply # None => code = 0 /\ out = printed

\* A stream in which some line reports a failure yields neither a draft nor a
\* question, wherever the line is (extractProtocol).  It says nothing of a text
\* inside an envelope, of which the first line that decodes is the reply.
FailureInStreamWins ==
  phase = "returned" /\ verdict.reply # None =>
    \A i \in DOMAIN printed :
      TryDecode(printed[i]) # None => TryDecode(printed[i]).status # "failed"

\* What is taken was printed as a reply, and nothing around it says readably that
\* it is an error (tryDecode).  An envelope with is_error:true and, say, a text
\* for its exit_code does not say so readably, and is opened.
TakenIsVouchedFor ==
  phase = "returned" /\ verdict.reply # None =>
    \E i \in DOMAIN printed : verdict.reply \in Vouched(printed[i])

\* When Run gave up, for the deadline or for too much output, nothing of the
\* process group is left (killGroup).
GivingUpKillsTheGroup ==
  phase = "returned" /\ verdict.reason \in {"timeout", "output_overflow"} =>
    leader = "exited" /\ Group = {}

\* Run's answer is worth something, whatever was printed and however the
\* process ended: what is taken is whole, meant and not taken back, and what is
\* given up is gone.
AnswerIsEarned ==
  TypeOK /\ TakenIsWhole /\ FailureInStreamWins /\ TakenIsVouchedFor
    /\ GivingUpKillsTheGroup

\* A harness that was started is answered for, whatever it does, except that a
\* descendant which left the process group holds stdout, stderr or stdin, and
\* with it Run, for as long as it lives.
RunReturns ==
  (phase = "waiting") ~> (phase = "returned" \/ Holders \ Group # {})
=============================================================================
