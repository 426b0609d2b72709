------------------------------ MODULE MCValues ------------------------------
(***************************************************************************)
(* The instance of Questions and Connectors that TLC checks: the two places *)
(* where the numbers that people and harnesses write are read.  MaxExact is *)
(* 4, so that 5 reads as 4 and 7 as 8 in a float64, and 9 is too large to  *)
(* be one.                                                                 *)
(*                                                                         *)
(* The components share no state and no property speaks of both, so TLC    *)
(* walks their sum and not their product: in a behaviour one of them moves *)
(* and the other stays in an initial state.                                *)
(***************************************************************************)
EXTENDS Questions, Connectors

CONSTANTS a, b
-----------------------------------------------------------------------------
(* Answers and schemas.                                                    *)

Numeral(n, plain) == [kind |-> "number", data |-> n, plain |-> plain, items |-> <<>>]
Item(k, n) == [kind |-> k, data |-> n, plain |-> TRUE]
Items(seq) == [kind |-> "array", data |-> 0, plain |-> TRUE, items |-> seq]

MCValue ==
  {Simple(k) : k \in Kinds}
    \cup {[Simple("string") EXCEPT !.data = 1]}
    \cup {Numeral(n, TRUE) : n \in {4, 5, 7, 9, -5}} \cup {Numeral(4, FALSE)}
    \cup {Items(<<Item("number", n)>>) : n \in {4, 5}}
    \cup {Items([i \in 1..n |-> Item("string", 0)]) : n \in 2..3}
    \cup {Items(<<Item("string", 0), Item("number", 4)>>)}

\* Specifications of one field.
Specs ==
  [type : Scalars \cup {"other"}, items : {None}]
    \cup [type : {"array"}, items : {"string", "integer", "number", "array", None}]
    \cup [type : {"integer"}, items : {"integer"}]

Once == [type : {"integer", "other"}, items : {None}]
Maps == UNION {[D -> Specs] : D \in SUBSET Field}

\* Texts that say everything once, and texts that declare some field twice, or
\* in the first of two maps only.
MCSchema ==
  {Anything}
    \cup [properties : Maps, requested : {<<>>}, required : SUBSET Field,
          earlier : {<<>>}]
    \cup [properties : {None}, requested : [{a} -> Specs] \cup {<<>>},
          required : SUBSET Field, earlier : {<<>>}]
    \cup [properties : {<<>>}, requested : [{a} -> Specs], required : {{a}},
          earlier : {<<>>}]
    \cup [properties : [{b} -> Once] \cup {<<>>, None}, requested : {<<>>},
          required : SUBSET Field, earlier : [{a} -> Once] \cup [{b} -> Once]]
-----------------------------------------------------------------------------
(* Payloads.                                                               *)

Pair(k, v) == <<k, v>>
Null  == Whole("null", 0)
Mixed == Whole("mixed", 0)
Fraction(n, part) == [Num(n) EXCEPT !.part = part]

Deltas ==
  {<<Pair("delta", Num(n))>> : n \in {-3, -2, -1, 1, 2, 4, 5}}
    \cup {<<Pair("delta", Fraction(0, "half"))>>, <<Pair("delta", Fraction(2, "half"))>>,
          <<Pair("delta", Fraction(-3, "half"))>>, <<Pair("delta", Fraction(0, "high"))>>,
          <<Pair("delta", Str(1))>>,
          <<Pair("delta", Num(1)), Pair("delta", Num(2))>>}

Letter(subject) ==
  <<Pair("recipients", List(1)), Pair("subject", Str(subject)), Pair("body", Str(1))>>

Writings ==
  {<<Pair("title", v)>> : v \in {Str(0), Str(1), Num(1), Null}}
    \cup {<<Pair("title", Str(1)), Pair("content", Str(2))>>,
          <<Pair("title", Str(1)), Pair("title", Str(2))>>,
          <<Pair("content", Str(1))>>, <<Pair("content", Null)>>,
          <<Pair("body", Str(1))>>, <<>>, NotObject}
    \cup {Letter(n) : n \in 0..1}
    \cup {Append(Letter(1), Pair("bcc", v)) : v \in {List(0), List(1), Holes(2), Null, Mixed}}
    \cup {Append(Letter(1), Pair("subject", Str(2)))}

MCPayload == Deltas \cup Writings

\* Each record changes once, by one operation at a time, or two operations that
\* are about numbers wait together and records change as often as they may.
Focus ==
  \/ Cardinality(proposed) <= 1 /\ \A t \in DOMAIN record : record[t].version <= 2
  \/ /\ \A op \in proposed : op.payload \in Deltas
     /\ last # <<>> => last[1].payload \in Deltas
-----------------------------------------------------------------------------
MCInit == Init /\ OpsInit

MCNext ==
  \/ Next /\ OpsInit /\ UNCHANGED ops
  \/ OpsNext /\ Init /\ UNCHANGED vars

MCSpec == MCInit /\ [][MCNext]_<<vars, ops>>
=============================================================================
