----------------------------- MODULE Questions -----------------------------
(***************************************************************************)
(* What a question to a human may ask for, which answers it accepts, what  *)
(* is recorded and when a repeated answer counts as the recorded one.      *)
(*                                                                         *)
(* AgentRuns models when a question is opened, adopted, answered and       *)
(* cancelled, with schemas and answers that are valid or not.  This module *)
(* is about which ones are.  Of a JSON value it keeps the kind, which      *)
(* value of that kind it is, and how a number is written; the values of    *)
(* numbers are integers.  MaxExact is maxExactInteger.                     *)
(*                                                                         *)
(* A schema is text to begin with.  Text may write the key `properties`    *)
(* (or `requested`) twice: encoding/json reads both into one map, a column *)
(* of type jsonb keeps the second alone.                                   *)
(***************************************************************************)
EXTENDS Doubles, Sequences

CONSTANTS
  Field,        \* names of fields
  Gate,         \* identities of decision_gates rows
  Principal,
  Anything,     \* the schema {}
  None,
  Value,        \* the JSON values that answers are made of
  Schema,       \* the texts of the schemas that a harness asks with
  MaxFinite,    \* the largest number that is a finite float64
  MaxItems      \* maxGateArrayItems: 64 in the code

Scalars == {"string", "integer", "number", "boolean"}
Kinds   == {"string", "number", "boolean", "array", "null"}

FieldSpec == [type : Scalars \cup {"array", "other"},
              items : Scalars \cup {"array", "other", None}]
Fields   == UNION {[D -> FieldSpec] : D \in SUBSET Field}
NoFields == [k \in {} |-> None]

\* `earlier` is what an earlier occurrence of the same key declares.
AnySchema == [properties : Fields \cup {None}, requested : Fields,
              required : SUBSET Field, earlier : Fields]

\* `data` is the value of a number and names the value otherwise; `plain` is
\* a number written in digits, neither with an exponent nor a fraction.
Scalar    == [kind : Kinds, data : Int, plain : BOOLEAN]
AnyValue  == {v \in [kind : Kinds, data : Int, plain : BOOLEAN, items : Seq(Scalar)] :
                v.kind # "array" => v.items = <<>>}
Simple(k) == [kind |-> k, data |-> 0, plain |-> TRUE, items |-> <<>>]

Answers == UNION {[D -> Value] : D \in SUBSET Field}

ASSUME QuestionsAssumption ==
  /\ MaxFinite \in Nat /\ MaxItems \in Nat
  /\ MaxExact <= MaxFinite
  /\ Value \subseteq AnyValue
  /\ \A k \in Kinds : Simple(k) \in Value
  /\ Anything \notin AnySchema
  /\ None \notin Fields
  /\ None \notin Scalars \cup {"array", "other"}
  /\ Schema \subseteq {Anything} \cup AnySchema

VARIABLES
  gate,      \* decision_gates: status, schema, respondent and response, and
             \* history: the text of the schema as the harness asked
  active,    \* the active principals
  confirmed  \* the last answer to each gate that ResolveGate reported as taken

vars == <<gate, active, confirmed>>
-----------------------------------------------------------------------------
\* What the column input_schema keeps of a text.
Stored(s) == IF s = Anything THEN s ELSE [s EXCEPT !.earlier = NoFields]

GateRow == [status : {"absent", "pending", "resolved"},
            schema : {Stored(s) : s \in Schema} \cup {None},
            asked : Schema \cup {None},
            respondent : Principal \cup {None},
            response : Answers \cup {None}]

TypeOK ==
  /\ gate \in [Gate -> GateRow]
  /\ active \in SUBSET Principal
  /\ confirmed \in [Gate -> Answers \cup {None}]

Init ==
  /\ gate = [g \in Gate |-> [status |-> "absent", schema |-> None, asked |-> None,
                             respondent |-> None, response |-> None]]
  /\ active = Principal
  /\ confirmed = [g \in Gate |-> None]
-----------------------------------------------------------------------------
\* A map that is decoded twice: the second time adds and overrides.
Overlaid(f, g) ==
  [k \in DOMAIN f \cup DOMAIN g |-> IF k \in DOMAIN g THEN g[k] ELSE f[k]]

\* `properties`, or `requested` when there are none at all.
Declared(s) ==
  Overlaid(s.earlier, IF s.properties # None THEN s.properties ELSE s.requested)

FieldSupported(f) ==
  \/ f.type \in Scalars
  \/ f.type = "array" /\ f.items \in Scalars

\* Mutant: what is required need not be declared.
ValidateGateSchemaLoosely(s) ==
  s # Anything =>
     /\ DOMAIN Declared(s) # {}
     /\ \A k \in DOMAIN Declared(s) : FieldSupported(Declared(s)[k])

ValidateGateSchema(s) ==
  s # Anything =>
     /\ DOMAIN Declared(s) # {}
     /\ \A k \in DOMAIN Declared(s) : FieldSupported(Declared(s)[k])
     /\ s.required \subseteq DOMAIN Declared(s)

\* Mutant: an integer is what fits into a float64.
ScalarAllowedInexactly(v, t) ==
  \/ t = "string"  /\ v.kind = "string"
  \/ t \in {"integer", "number"} /\ v.kind = "number"
                   /\ v.data \in -MaxFinite..MaxFinite
  \/ t = "boolean" /\ v.kind = "boolean"

\* A number out of the range of int64 is out of the exact range as well.
ScalarAllowed(v, t) ==
  \/ t = "string"  /\ v.kind = "string"
  \/ t = "integer" /\ v.kind = "number" /\ v.plain
                   /\ v.data \in -MaxExact..MaxExact
  \/ t = "number"  /\ v.kind = "number" /\ v.data \in -MaxFinite..MaxFinite
  \/ t = "boolean" /\ v.kind = "boolean"

GateValueAllowed(v, f) ==
  IF f.type = "array"
  THEN /\ f.items # None
       /\ v.kind = "array" /\ Len(v.items) <= MaxItems
       /\ \A i \in DOMAIN v.items : ScalarAllowed(v.items[i], f.items)
  ELSE ScalarAllowed(v, f.type)

ValidateGateResponse(s, r) ==
  s # Anything =>
     /\ DOMAIN r \subseteq DOMAIN Declared(s)
     /\ \A k \in DOMAIN r : GateValueAllowed(r[k], Declared(s)[k])
     /\ s.required \subseteq DOMAIN r
-----------------------------------------------------------------------------
Readable(v) == v.kind = "number" => v.data \in -MaxFinite..MaxFinite

EqualScalar(v, w) ==
  /\ v.kind = w.kind
  /\ IF v.kind = "number" THEN Float64(v.data) = Float64(w.data)
                          ELSE v.data = w.data

EqualValue(v, w) ==
  /\ EqualScalar(v, w)
  /\ DOMAIN v.items = DOMAIN w.items
  /\ \A i \in DOMAIN v.items : EqualScalar(v.items[i], w.items[i])

ReadableAnswer(r) ==
  \A k \in DOMAIN r :
    Readable(r[k]) /\ \A i \in DOMAIN r[k].items : Readable(r[k].items[i])

\* Two documents, both decoded into Go values.
JsonEqual(a, b) ==
  /\ ReadableAnswer(a) /\ ReadableAnswer(b)
  /\ DOMAIN a = DOMAIN b
  /\ \A k \in DOMAIN a : EqualValue(a[k], b[k])
-----------------------------------------------------------------------------
\* The part of ExecuteAgentRun that opens a question: an unsupported schema is
\* refused before anything is stored.  The text is what is checked, and what
\* the column keeps of it is what answers are checked against.
Park(g, s, p) ==
  /\ gate[g].status = "absent"
  /\ ValidateGateSchema(s)
  /\ gate' = [gate EXCEPT ![g] = [status |-> "pending", schema |-> Stored(s),
                                  asked |-> s, respondent |-> p, response |-> None]]
  /\ UNCHANGED <<active, confirmed>>

\* A first answer.  The revision a caller states is the only one there is.
ResolveGate(g, p, r) ==
  /\ p \in active /\ gate[g].respondent = p
  /\ gate[g].status = "pending"
  /\ ValidateGateResponse(gate[g].schema, r)
  /\ gate' = [gate EXCEPT ![g].status = "resolved", ![g].response = r]
  /\ confirmed' = [confirmed EXCEPT ![g] = r]
  /\ UNCHANGED active

\* A later answer: reported as taken when it repeats the recorded one.
RepeatAnswer(g, p, r) ==
  /\ p \in active /\ gate[g].respondent = p
  /\ gate[g].status = "resolved"
  /\ JsonEqual(gate[g].response, r)
  /\ confirmed' = [confirmed EXCEPT ![g] = r]
  /\ UNCHANGED <<gate, active>>

\* Administration of principals, outside the store.
SetActive(p) ==
  /\ active' = IF p \in active THEN active \ {p} ELSE active \cup {p}
  /\ UNCHANGED <<gate, confirmed>>

Next ==
  \/ \E g \in Gate, s \in Schema, p \in Principal : Park(g, s, p)
  \/ \E g \in Gate, p \in Principal, r \in Answers : ResolveGate(g, p, r)
  \/ \E g \in Gate, p \in Principal, r \in Answers : RepeatAnswer(g, p, r)
  \/ \E p \in Principal : SetActive(p)

Spec == Init /\ [][Next]_vars
-----------------------------------------------------------------------------
\* A field that is required was declared by the text and is no longer declared
\* by what is left of it.
Forgets(s) ==
  /\ s # Anything
  /\ \E k \in s.required \cap DOMAIN Declared(s) : k \notin DOMAIN Declared(Stored(s))

\* Every question that was opened has an answer that it accepts: nothing gets
\* through ValidateGateSchema that validateGateResponse always refuses, in
\* particular no question that requires a field it never declared, or one of a
\* type without values.  The comment at agent_runs.go:270 says so of all; the
\* check is of the text, and a text that declares a required field in the first
\* of two `properties` alone passes it and has no answer (ForgottenHasNoAnswer).
Answerable ==
  \A g \in Gate : gate[g].status = "pending" =>
    \/ \E r \in Answers : ValidateGateResponse(gate[g].schema, r)
    \/ Forgets(gate[g].asked)

\* The value that a reader gets who decodes numbers into float64, as the web
\* client does.
DecodedAs(v) == [v EXCEPT !.data = IF v.kind = "number" THEN Float64(@) ELSE @]

IntegerFields(s) ==
  {k \in DOMAIN Declared(s) : "integer" \in {Declared(s)[k].type, Declared(s)[k].items}}

\* A number that was asked for as an integer is recorded as one that every
\* reader of JSON sees as the respondent stated it, and the same answer sent
\* again is recognised (validateGateResponse, scalarAllowed, jsonEqual).
RecordedExactly ==
  \A g \in Gate :
    gate[g].status = "resolved" /\ gate[g].schema # Anything =>
      LET r == gate[g].response
      IN  /\ JsonEqual(r, r)
          /\ \A k \in DOMAIN r \cap IntegerFields(gate[g].schema) :
               LET integers == IF Declared(gate[g].schema)[k].type = "array"
                               THEN {r[k].items[i] : i \in DOMAIN r[k].items}
                               ELSE IF Declared(gate[g].schema)[k].type = "integer"
                               THEN {r[k]} ELSE {}
               IN  \A v \in integers : DecodedAs(v) = v

\* Equal as JSON values: a number is what it is, however it is written.
SameScalar(v, w) == v.kind = w.kind /\ v.data = w.data
SameAnswer(a, b) ==
  /\ DOMAIN a = DOMAIN b
  /\ \A k \in DOMAIN a :
       /\ SameScalar(a[k], b[k])
       /\ DOMAIN a[k].items = DOMAIN b[k].items
       /\ \A i \in DOMAIN a[k].items : SameScalar(a[k].items[i], b[k].items[i])

\* No number of the answer is beyond the integers that a float64 holds.
Exact(r) ==
  \A k \in DOMAIN r : \A v \in {r[k]} \cup {r[k].items[i] : i \in DOMAIN r[k].items} :
    v.kind = "number" => v.data \in -MaxExact..MaxExact

\* An answer that is reported as taken is the recorded one, as a value: a repeat
\* that says something else is refused, whatever the order and the number of
\* repeats.  The comment of jsonEqual promises it of all numbers; decoded into
\* float64 it holds of those that are exact.
ExactRepeatsAreTheRecord ==
  \A g \in Gate :
    confirmed[g] # None /\ Exact(confirmed[g]) /\ Exact(gate[g].response) =>
      SameAnswer(gate[g].response, confirmed[g])

\* What a respondent stated is what is recorded, and what is confirmed later is
\* what is recorded: no number is replaced by one that it rounds to.
StatedExactly == RecordedExactly /\ ExactRepeatsAreTheRecord
=============================================================================
