------------------------------- MODULE MCHarness -------------------------------
(***************************************************************************)
(* Instances of Harness for TLC.                                           *)
(***************************************************************************)
EXTENDS Harness

Op(complete) == [complete |-> complete, version |-> 1, namesRun |-> FALSE, valid |-> TRUE]
Says(status, ops, prompt, reason) ==
  [status |-> status, ops |-> ops, prompt |-> prompt, reason |-> reason]

Draft    == Says("succeeded", <<Op(TRUE)>>, FALSE, "")
Question == Says("waiting", <<>>, TRUE, "")
Failure  == Says("failed", <<>>, FALSE, "code")

MCReply == {Draft, Question, Failure}
MCBadReply ==
  {Says("succeeded", <<>>, FALSE, ""), Says("succeeded", <<Op(TRUE), Op(TRUE)>>, FALSE, ""),
   Says("succeeded", <<Op(FALSE)>>, FALSE, ""), Says("waiting", <<>>, FALSE, ""),
   Says("failed", <<>>, FALSE, ""), Says("failed", <<>>, FALSE, "diagnostics")}

Bare(reply)    == [reply |-> reply, error |-> FALSE, typed |-> TRUE, result |-> None]
Event          == Bare(None)
Wrap(error, d) == [reply |-> None, error |-> error, typed |-> TRUE, result |-> [object |-> d]]
Tell(error, lines) == [reply |-> None, error |-> error, typed |-> TRUE, result |-> [lines |-> lines]]

Mistyped(d)    == [d EXCEPT !.typed = FALSE]

\* Bare replies, good and bad; envelopes of each kind and depth around them, and
\* what is inside these.
MCLine ==
  {Noise, Event}
    \cup {Bare(r) : r \in MCReply \cup MCBadReply}
    \cup {Wrap(e, Bare(r)) : e \in BOOLEAN, r \in {Draft, Failure}}
    \cup {Tell(e, <<Bare(r)>>) : e \in BOOLEAN, r \in {Draft, Failure}}
    \cup {Mistyped(Wrap(e, Bare(Draft))) : e \in BOOLEAN}
    \cup {Tell(FALSE, <<l, Bare(Draft)>>) : l \in {Event, Noise}}
    \cup {Wrap(FALSE, Tell(e, <<Bare(Draft)>>)) : e \in BOOLEAN}
    \cup {Wrap(FALSE, Wrap(FALSE, Bare(Draft))),
          Wrap(FALSE, Wrap(FALSE, Wrap(FALSE, Bare(Draft)))),
          Wrap(FALSE, Wrap(FALSE, Wrap(FALSE, Wrap(FALSE, Bare(Draft)))))}

MCChild ==
  [grouped : BOOLEAN, holds : {"stdout", "stderr"}] \cup [grouped : {TRUE}, holds : {"nothing"}]

\* The harness either prints lines of every shape and is alone, or prints two
\* kinds of lines while its descendants come and go.  It restricts only what
\* the harness does, to which no fairness is owed.
Focus ==
  \/ children = {}
  \/ \A i \in DOMAIN printed : printed[i] \in {Bare(Draft), Event}
=============================================================================
