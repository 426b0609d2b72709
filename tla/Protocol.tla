----------------------------- MODULE Protocol -----------------------------
(***************************************************************************)
(* How the output of an external harness is read: which document of it is  *)
(* the reply, and what a reply must hold to become a draft.                *)
(*                                                                         *)
(* An output is a sequence of lines.  A line is a JSON object or noise, and *)
(* an object is our reply, or an envelope that may report an error and may *)
(* carry another object, or a text with lines of its own, as its result.   *)
(*                                                                         *)
(* Lines hold lines, to any depth.  What reads them goes MaxUnwrapDepth    *)
(* levels down, so it is a function of the levels that are left.           *)
(***************************************************************************)
EXTENDS Integers, Sequences

CONSTANTS
  Line,            \* the lines that may be printed, and those inside them
  Noise,           \* a line that is no JSON object
  None,
  MaxUnwrapDepth,  \* maxUnwrapDepth
  MaxOperations    \* maxCLIOperations

\* A reply: its status, its operations, whether its gate has a prompt, and
\* what its failure reason is made of ("code" is a short code of the harness's
\* own, told apart here from those of Run even when it is spelled like one).
Operation == [complete : BOOLEAN, version : 0..1, namesRun : BOOLEAN, valid : BOOLEAN]
Reply == [status : {"succeeded", "waiting", "failed"}, ops : Seq(Operation),
          prompt : BOOLEAN, reason : {"", "code", "diagnostics", "harness_reported_error"}]

\* An object: the reply it is (or None), whether is_error or subtype say that
\* it failed, whether these two and exit_code are of their types, and its result:
\* None, an object, or a text.  An object that does not decode into a reply, for
\* a field of another type, is one without any of these.
Object == [reply : Reply \cup {None}, error : BOOLEAN, typed : BOOLEAN,
           result : {None} \cup [object : Line] \cup [lines : Seq(Line)]]
IsText(result) == DOMAIN result = {"lines"}

\* What Run returns: its reply is kept when it becomes a draft or a question.
Reasons == {"", "code", "harness_reported_error", "invalid_output",
            "isolation_required", "harness_unavailable", "internal_error",
            "nonzero_exit", "output_overflow", "timeout"}
Result == [status : {"succeeded", "waiting", "failed"}, reason : Reasons,
           reply : Reply \cup {None}]

ASSUME ProtocolAssumption ==
  /\ MaxUnwrapDepth \in Nat /\ MaxOperations \in Nat
  /\ Line \subseteq {Noise} \cup Object
  /\ None \notin Reply \cup Result \cup [object : Line] \cup [lines : Seq(Line)]

ReportedError == [status |-> "failed", ops |-> <<>>, prompt |-> FALSE,
                  reason |-> "harness_reported_error"]

First(replies) ==
  IF \E i \in DOMAIN replies : replies[i] # None
  THEN replies[CHOOSE i \in DOMAIN replies :
                 /\ replies[i] # None
                 /\ \A j \in DOMAIN replies : j < i => replies[j] = None]
  ELSE None

\* The flags of an envelope are decoded together: when one of them is not of its
\* type, none is read.
ReportsError(d) == d.error /\ d.typed

\* What d is read as, if `inner` reads what is inside it.  A text of one line is
\* decoded as a whole, and gives the same as its line; a text that does not begin
\* with an object is not looked at.
Unwrapped(d, inner) ==
  IF ReportsError(d) THEN ReportedError
  ELSE IF d.result = None THEN None
  ELSE IF ~IsText(d.result) THEN inner[d.result.object]
  ELSE IF d.result.lines = <<>> \/ d.result.lines[1] = Noise THEN None
  ELSE First([i \in DOMAIN d.result.lines |-> inner[d.result.lines[i]]])

Decoding[left \in 0..MaxUnwrapDepth] == [d \in Line |->
  IF d = Noise THEN None
  ELSE IF d.reply # None THEN d.reply
  ELSE IF left = 0 THEN None
  ELSE Unwrapped(d, Decoding[left - 1])]

\* tryDecode of a line of the output, where every level is left.
TryDecode(d) == Decoding[MaxUnwrapDepth][d]

Decoded(lines) == {i \in DOMAIN lines : TryDecode(lines[i]) # None}
Last(S) == CHOOSE i \in S : \A j \in S : j <= i

\* Mutant: the last document of the stream is the reply.
ExtractProtocolLast(lines) ==
  IF Decoded(lines) = {} THEN None ELSE TryDecode(lines[Last(Decoded(lines))])

\* The last failure of the stream, or else its last document.
ExtractProtocol(lines) ==
  LET failed == {i \in Decoded(lines) : TryDecode(lines[i]).status = "failed"}
  IN  IF Decoded(lines) = {} THEN None
      ELSE TryDecode(lines[Last(IF failed = {} THEN Decoded(lines) ELSE failed)])

\* toDraft: the operations of a reply that becomes a draft.
ToDraft(reply) ==
  /\ Len(reply.ops) \in 1..MaxOperations
  /\ \A i \in DOMAIN reply.ops :
       /\ reply.ops[i].complete /\ reply.ops[i].version >= 1
       /\ ~reply.ops[i].namesRun /\ reply.ops[i].valid

SanitizeReason(reason) ==
  CASE reason = ""            -> "invalid_output"
    [] reason = "diagnostics" -> "invalid_output"
    [] OTHER                  -> reason

Failed(reason) == [status |-> "failed", reason |-> reason, reply |-> None]

\* What Run makes of the whole output of a harness that exited with 0.
Judge(lines) ==
  LET reply == ExtractProtocol(lines)
      taken == [status |-> reply.status, reason |-> "", reply |-> reply]
  IN  IF reply = None THEN Failed("invalid_output")
      ELSE CASE reply.status = "succeeded" ->
                  IF ToDraft(reply) THEN taken ELSE Failed("invalid_output")
             [] reply.status = "waiting" ->
                  IF reply.prompt THEN taken ELSE Failed("invalid_output")
             [] reply.status = "failed" -> Failed(SanitizeReason(reply.reason))
-----------------------------------------------------------------------------
\* A reference definition, independent of the order in which tryDecode works.

\* What an object carries that does not report an error, readably.
Carried(d) ==
  IF d = Noise THEN {}
  ELSE IF d.reply # None \/ ReportsError(d) \/ d.result = None THEN {}
  ELSE IF IsText(d.result) THEN {d.result.lines[i] : i \in DOMAIN d.result.lines}
  ELSE {d.result.object}

\* What is reached by opening such objects, at most so many levels down.
Opened[levels \in 0..MaxUnwrapDepth] == [d \in Line |->
  IF levels = 0 THEN {d} ELSE {d} \cup UNION {Opened[levels - 1][e] : e \in Carried(d)}]

\* The replies that a line holds, not too deep, and that are not inside an
\* envelope that reports an error readably.
Vouched(d) == {e.reply : e \in Opened[MaxUnwrapDepth][d] \ {Noise}} \ {None}
=============================================================================
