---------------------------- MODULE ValuesProofs ----------------------------
(***************************************************************************)
(* Proofs about Questions, for every set of fields, schemas and values and *)
(* every value of the limits, and about Connectors, for every set of       *)
(* records and payloads.                                                   *)
(***************************************************************************)
EXTENDS Questions, Connectors, TLAPS

\* What a schema declares is fields, and so is what is left of it.
LEMMA DeclaredFields ==
  ASSUME NEW s \in AnySchema
  PROVE  /\ Declared(s) \in Fields
         /\ DOMAIN Declared(s) \in SUBSET Field
         /\ \A k \in DOMAIN Declared(s) : Declared(s)[k] \in FieldSpec
         /\ s.required \in SUBSET Field
<1> DEFINE f == s.earlier
           g == IF s.properties # None THEN s.properties ELSE s.requested
           D == DOMAIN f \cup DOMAIN g
<1>1. f \in Fields /\ g \in Fields /\ s.required \in SUBSET Field
  BY DEF AnySchema
<1>2. PICK A \in SUBSET Field : f \in [A -> FieldSpec]
  BY <1>1 DEF Fields
<1>3. PICK B \in SUBSET Field : g \in [B -> FieldSpec]
  BY <1>1 DEF Fields
<1>4. Declared(s) = [k \in D |-> IF k \in DOMAIN g THEN g[k] ELSE f[k]]
  BY DEF Declared, Overlaid
<1> HIDE DEF f, g
<1>5. D \in SUBSET Field /\ Declared(s) \in [D -> FieldSpec]
  BY <1>2, <1>3, <1>4
<1> QED
  BY <1>1, <1>5 DEF Fields

\* What a column keeps of a schema is a schema, and requires the same fields.
LEMMA StoredSchema ==
  ASSUME NEW s \in AnySchema
  PROVE  /\ Stored(s) \in AnySchema /\ Stored(s) # Anything
         /\ Stored(s).required = s.required
         /\ DOMAIN Declared(Stored(s)) \subseteq DOMAIN Declared(s)
         /\ \A k \in DOMAIN Declared(Stored(s)) : Declared(Stored(s))[k] = Declared(s)[k]
<1>1. s # Anything
  BY QuestionsAssumption
<1>2. NoFields \in Fields
  BY DEF NoFields, Fields
<1>3. Stored(s) = [s EXCEPT !.earlier = NoFields]
  BY <1>1 DEF Stored
<1>4. /\ Stored(s) \in AnySchema /\ Stored(s).earlier = NoFields
      /\ Stored(s).required = s.required /\ Stored(s).properties = s.properties
      /\ Stored(s).requested = s.requested
  BY <1>2, <1>3 DEF AnySchema
<1> DEFINE g == IF s.properties # None THEN s.properties ELSE s.requested
<1>5. Declared(s) = Overlaid(s.earlier, g) /\ Declared(Stored(s)) = Overlaid(NoFields, g)
  BY <1>4 DEF Declared
<1> HIDE DEF g
<1>6. DOMAIN NoFields = {}
  BY DEF NoFields
<1>7. /\ DOMAIN Overlaid(NoFields, g) = DOMAIN g
      /\ \A k \in DOMAIN g : Overlaid(NoFields, g)[k] = g[k]
      /\ DOMAIN g \subseteq DOMAIN Overlaid(s.earlier, g)
      /\ \A k \in DOMAIN g : Overlaid(s.earlier, g)[k] = g[k]
  BY <1>6 DEF Overlaid
<1> QED
  BY <1>4, <1>5, <1>7, QuestionsAssumption

\* A simple value of the type that a supported field asks for.
Sample(f) == Simple(IF f.type \in {"integer", "number"} THEN "number" ELSE f.type)

LEMMA SampleAllowed ==
  ASSUME NEW f \in FieldSpec, FieldSupported(f)
  PROVE  Sample(f) \in Value /\ GateValueAllowed(Sample(f), f)
<1>1. CASE f.type = "array"
  <2>1. Sample(f) = Simple("array") /\ Simple("array").items = <<>>
    BY <1>1 DEF Sample, Simple
  <2>2. f.items # None /\ f.items \in Scalars
    BY <1>1, QuestionsAssumption DEF FieldSupported, Scalars
  <2>3. Len(<<>>) <= MaxItems /\ DOMAIN <<>> = {}
    BY QuestionsAssumption
  <2>4. Simple("array") \in Value /\ Simple("array").kind = "array"
    BY QuestionsAssumption DEF Kinds, Simple
  <2> QED
    BY <1>1, <2>1, <2>2, <2>3, <2>4 DEF GateValueAllowed
<1>2. CASE f.type \in Scalars
  <2>1. Sample(f) \in Value
    BY <1>2, QuestionsAssumption DEF Sample, Kinds, Scalars
  <2>2. 0 \in -MaxExact..MaxExact /\ 0 \in -MaxFinite..MaxFinite
    BY DoublesAssumption, QuestionsAssumption
  <2> QED
    BY <1>2, <2>1, <2>2 DEF Sample, Simple, GateValueAllowed, ScalarAllowed, Scalars
<1> QED
  BY <1>1, <1>2 DEF FieldSupported

\* A schema whose declared fields are of types that have values, and that
\* requires no other, has an answer: the one that fills in every field.
LEMMA FieldsHaveAnswer ==
  ASSUME NEW s \in AnySchema,
         \A k \in DOMAIN Declared(s) : FieldSupported(Declared(s)[k]),
         s.required \subseteq DOMAIN Declared(s)
  PROVE  \E r \in Answers : ValidateGateResponse(s, r)
<1> DEFINE D == DOMAIN Declared(s)
           r == [k \in D |-> Sample(Declared(s)[k])]
<1>1. D \in SUBSET Field /\ \A k \in D : Declared(s)[k] \in FieldSpec
  BY DeclaredFields
<1>2. \A k \in D : r[k] \in Value /\ GateValueAllowed(r[k], Declared(s)[k])
  BY <1>1, SampleAllowed
<1>3. r \in Answers
  <2>1. r \in [D -> Value]
    BY <1>2
  <2> QED
    BY <1>1, <2>1 DEF Answers
<1>4. ValidateGateResponse(s, r)
  BY <1>2 DEF ValidateGateResponse
<1> QED
  BY <1>3, <1>4

\* Of a schema that passed ValidateGateSchema the column keeps one that has an
\* answer, unless it forgets a required field.
THEOREM AcceptedSchemaHasAnswer ==
  ASSUME NEW s \in Schema, ValidateGateSchema(s), ~Forgets(s)
  PROVE  \E r \in Answers : ValidateGateResponse(Stored(s), r)
<1>1. CASE s = Anything
  <2>1. [k \in {} |-> Simple("null")] \in Answers
    BY DEF Answers
  <2> QED
    BY <1>1, <2>1 DEF ValidateGateResponse, Stored
<1>2. CASE s # Anything
  <2>1. s \in AnySchema
    BY <1>2, QuestionsAssumption
  <2>2. /\ \A k \in DOMAIN Declared(s) : FieldSupported(Declared(s)[k])
        /\ s.required \subseteq DOMAIN Declared(s)
    BY <1>2 DEF ValidateGateSchema
  <2>3. s.required \subseteq DOMAIN Declared(Stored(s))
    BY <1>2, <2>2 DEF Forgets
  <2> QED
    BY <2>1, <2>2, <2>3, StoredSchema, FieldsHaveAnswer
<1> QED
  BY <1>1, <1>2

\* A question that forgets a required field refuses every answer: one that
\* fills the field in names a field that is not declared.
THEOREM ForgottenHasNoAnswer ==
  ASSUME NEW s \in Schema, Forgets(s)
  PROVE  ~\E r \in Answers : ValidateGateResponse(Stored(s), r)
<1>1. s # Anything /\ s \in AnySchema
  BY QuestionsAssumption DEF Forgets
<1>2. PICK k \in s.required : k \notin DOMAIN Declared(Stored(s))
  BY DEF Forgets
<1>3. Stored(s) # Anything /\ k \in Stored(s).required
  BY <1>1, StoredSchema
<1> QED
  BY <1>2, <1>3 DEF ValidateGateResponse
-----------------------------------------------------------------------------
(***************************************************************************)
(* The inductive invariant.                                                *)
(***************************************************************************)

\* The text of a question passed ValidateGateSchema, and its schema is what is
\* left of it; a recorded answer passed validateGateResponse; what was confirmed
\* is the record or repeats it.
IInv ==
  /\ TypeOK
  /\ \A g \in Gate :
       /\ gate[g].status # "absent" =>
            /\ gate[g].asked \in Schema /\ ValidateGateSchema(gate[g].asked)
            /\ gate[g].schema = Stored(gate[g].asked)
       /\ gate[g].status = "resolved" =>
            /\ gate[g].response \in Answers
            /\ ValidateGateResponse(gate[g].schema, gate[g].response)
       /\ confirmed[g] # None =>
            /\ gate[g].status = "resolved" /\ confirmed[g] \in Answers
            /\ \/ confirmed[g] = gate[g].response
               \/ JsonEqual(gate[g].response, confirmed[g])

LEMMA InitIInv == Init => IInv
  BY DEF Init, IInv, TypeOK, GateRow

LEMMA NextIInv == IInv /\ [Next]_vars => IInv'
<1> SUFFICES ASSUME IInv, [Next]_vars PROVE IInv'
  OBVIOUS
<1> USE DEF IInv, TypeOK, GateRow
<1>1. ASSUME NEW g \in Gate, NEW s \in Schema, NEW p \in Principal, Park(g, s, p)
      PROVE  IInv'
  BY <1>1 DEF Park
<1>2. ASSUME NEW g \in Gate, NEW p \in Principal, NEW r \in Answers,
             ResolveGate(g, p, r)
      PROVE  IInv'
  BY <1>2 DEF ResolveGate
<1>3. ASSUME NEW g \in Gate, NEW p \in Principal, NEW r \in Answers,
             RepeatAnswer(g, p, r)
      PROVE  IInv'
  BY <1>3 DEF RepeatAnswer
<1>4. ASSUME NEW p \in Principal, SetActive(p)
      PROVE  IInv'
  BY <1>4 DEF SetActive
<1>5. CASE UNCHANGED vars
  BY <1>5 DEF vars
<1> QED
  BY <1>1, <1>2, <1>3, <1>4, <1>5 DEF Next

THEOREM Invariance == Spec => []IInv
  BY InitIInv, NextIInv, PTL DEF Spec

\* The type invariant.
THEOREM TypeCorrect == Spec => []TypeOK
<1>1. IInv => TypeOK
  BY DEF IInv
<1> QED
  BY <1>1, Invariance, PTL

\* No run is parked on a question that nobody can answer, but for one whose text
\* declares a required field in the first of two maps only.
THEOREM QuestionsAreAnswerable == Spec => []Answerable
<1>1. IInv => Answerable
  BY AcceptedSchemaHasAnswer DEF IInv, Answerable
<1> QED
  BY <1>1, Invariance, PTL
-----------------------------------------------------------------------------
(***************************************************************************)
(* Answers are recorded as they were stated, and repeats repeat the record. *)
(***************************************************************************)

LEMMA ExactFloat ==
  ASSUME NEW n \in -MaxExact..MaxExact
  PROVE  Float64(n) = n
  BY DEF Float64

LEMMA AnswerValues ==
  ASSUME NEW r \in Answers, NEW k \in DOMAIN r
  PROVE  /\ r[k] \in AnyValue
         /\ \A i \in DOMAIN r[k].items : r[k].items[i] \in Scalar
<1>1. PICK D \in SUBSET Field : r \in [D -> Value]
  BY DEF Answers
<1>2. r[k] \in AnyValue
  BY <1>1, QuestionsAssumption
<1>3. r[k].items \in Seq(Scalar)
  BY <1>2 DEF AnyValue
<1> QED
  BY <1>2, <1>3

LEMMA AllowedIsReadable ==
  ASSUME NEW v, NEW t, ScalarAllowed(v, t)
  PROVE  Readable(v)
<1>1. \A n \in -MaxExact..MaxExact : n \in -MaxFinite..MaxFinite
  BY DoublesAssumption, QuestionsAssumption
<1> QED
  BY <1>1 DEF ScalarAllowed, Readable

LEMMA AllowedAnswerIsReadable ==
  ASSUME NEW s, s # Anything, NEW r \in Answers, ValidateGateResponse(s, r)
  PROVE  ReadableAnswer(r)
<1> SUFFICES ASSUME NEW k \in DOMAIN r
             PROVE  /\ Readable(r[k])
                    /\ \A i \in DOMAIN r[k].items : Readable(r[k].items[i])
  BY DEF ReadableAnswer
<1> DEFINE f == Declared(s)[k]
<1>1. GateValueAllowed(r[k], f)
  BY DEF ValidateGateResponse
<1>2. CASE f.type = "array"
  <2>1. /\ r[k].kind = "array"
        /\ \A i \in DOMAIN r[k].items : ScalarAllowed(r[k].items[i], f.items)
    BY <1>1, <1>2 DEF GateValueAllowed
  <2> QED
    BY <2>1, AllowedIsReadable DEF Readable
<1>3. CASE f.type # "array"
  <2>1. ScalarAllowed(r[k], f.type)
    BY <1>1, <1>3 DEF GateValueAllowed
  <2>2. r[k].items = <<>>
    BY <2>1, AnswerValues DEF ScalarAllowed, AnyValue
  <2> QED
    BY <2>1, <2>2, AllowedIsReadable
<1> QED
  BY <1>2, <1>3

LEMMA ReadableRepeatsItself ==
  ASSUME NEW r, ReadableAnswer(r)
  PROVE  JsonEqual(r, r)
  BY DEF JsonEqual, EqualValue, EqualScalar

LEMMA IntegerIsExact ==
  ASSUME NEW v, v \in AnyValue \/ v \in Scalar, ScalarAllowed(v, "integer")
  PROVE  DecodedAs(v) = v
<1>1. v.kind = "number" /\ v.data \in -MaxExact..MaxExact
  BY DEF ScalarAllowed
<1>2. DecodedAs(v) = [v EXCEPT !.data = v.data]
  BY <1>1, ExactFloat DEF DecodedAs
<1> QED
  BY <1>2 DEF AnyValue, Scalar

\* The integers of an accepted answer are exact.
LEMMA IntegersAreExact ==
  ASSUME NEW s, s # Anything, NEW r \in Answers,
         ValidateGateResponse(s, r), NEW k \in DOMAIN r
  PROVE  /\ Declared(s)[k].type = "array" /\ Declared(s)[k].items = "integer" =>
              \A i \in DOMAIN r[k].items : DecodedAs(r[k].items[i]) = r[k].items[i]
         /\ Declared(s)[k].type = "integer" => DecodedAs(r[k]) = r[k]
<1>1. GateValueAllowed(r[k], Declared(s)[k])
  BY DEF ValidateGateResponse
<1> QED
  BY <1>1, AnswerValues, IntegerIsExact DEF GateValueAllowed

LEMMA RecordIsExact == IInv => RecordedExactly
<1>1. ASSUME IInv PROVE RecordedExactly
  <2> SUFFICES ASSUME NEW g \in Gate, gate[g].status = "resolved",
                      gate[g].schema # Anything
               PROVE  /\ JsonEqual(gate[g].response, gate[g].response)
                      /\ \A k \in DOMAIN gate[g].response \cap IntegerFields(gate[g].schema) :
                           LET r == gate[g].response
                               integers == IF Declared(gate[g].schema)[k].type = "array"
                               THEN {r[k].items[i] : i \in DOMAIN r[k].items}
                               ELSE IF Declared(gate[g].schema)[k].type = "integer"
                               THEN {r[k]} ELSE {}
                           IN  \A v \in integers : DecodedAs(v) = v
    BY DEF RecordedExactly
  <2> DEFINE s == gate[g].schema
             r == gate[g].response
  <2>1. r \in Answers /\ ValidateGateResponse(s, r)
    BY <1>1 DEF IInv
  <2>2. JsonEqual(r, r)
    BY <2>1, AllowedAnswerIsReadable, ReadableRepeatsItself
  <2>3. ASSUME NEW k \in DOMAIN r \cap IntegerFields(s)
        PROVE  /\ Declared(s)[k].type = "array" =>
                    \A i \in DOMAIN r[k].items : DecodedAs(r[k].items[i]) = r[k].items[i]
               /\ Declared(s)[k].type = "integer" => DecodedAs(r[k]) = r[k]
    <3>1. "integer" \in {Declared(s)[k].type, Declared(s)[k].items}
      BY DEF IntegerFields
    <3> QED
      BY <2>1, <3>1, IntegersAreExact
  <2> QED
    BY <2>2, <2>3
<1> QED
  BY <1>1

LEMMA ExactEqualIsSame ==
  ASSUME NEW a \in Answers, NEW b \in Answers, Exact(a), Exact(b),
         JsonEqual(a, b)
  PROVE  SameAnswer(a, b)
<1>1. ASSUME NEW v, NEW w, EqualScalar(v, w),
             v.kind = "number" => v.data \in -MaxExact..MaxExact,
             w.kind = "number" => w.data \in -MaxExact..MaxExact
      PROVE  SameScalar(v, w)
  BY <1>1, ExactFloat DEF EqualScalar, SameScalar
<1>2. DOMAIN a = DOMAIN b /\ \A k \in DOMAIN a : EqualValue(a[k], b[k])
  BY DEF JsonEqual
<1>3. ASSUME NEW k \in DOMAIN a
      PROVE  /\ SameScalar(a[k], b[k])
             /\ DOMAIN a[k].items = DOMAIN b[k].items
             /\ \A i \in DOMAIN a[k].items : SameScalar(a[k].items[i], b[k].items[i])
  BY <1>1, <1>2 DEF EqualValue, Exact
<1> QED
  BY <1>2, <1>3 DEF SameAnswer

\* Among exact numbers, an answer that ResolveGate reports as taken is the
\* recorded one, however often and by whomever it is repeated.
LEMMA RecordIsRepeated == IInv => ExactRepeatsAreTheRecord
<1>1. ASSUME IInv PROVE ExactRepeatsAreTheRecord
  <2> SUFFICES ASSUME NEW g \in Gate, confirmed[g] # None,
                      Exact(confirmed[g]), Exact(gate[g].response)
               PROVE  SameAnswer(gate[g].response, confirmed[g])
    BY DEF ExactRepeatsAreTheRecord
  <2>1. /\ gate[g].status = "resolved" /\ confirmed[g] \in Answers
        /\ \/ confirmed[g] = gate[g].response
           \/ JsonEqual(gate[g].response, confirmed[g])
    BY <1>1 DEF IInv
  <2>2. gate[g].response \in Answers
    BY <1>1, <2>1 DEF IInv
  <2>3. SameAnswer(confirmed[g], confirmed[g])
    BY DEF SameAnswer, SameScalar
  <2> QED
    BY <2>1, <2>2, <2>3, ExactEqualIsSame
<1> QED
  BY <1>1

\* A number asked for as an integer is recorded as the respondent stated it, the
\* recorded answer sent again is recognised, and another one is not.
THEOREM AnswersAreStatedExactly == Spec => []StatedExactly
<1>1. IInv => StatedExactly
  BY RecordIsExact, RecordIsRepeated DEF StatedExactly
<1> QED
  BY <1>1, Invariance, PTL
-----------------------------------------------------------------------------
(***************************************************************************)
(* Connectors: what an accepted payload says.                              *)
(***************************************************************************)

\* A payload that was parsed is pairs of keys and things, one of a key.
LEMMA ParsedPayload ==
  ASSUME NEW p \in Payload, NEW allowed, Parse(p, allowed)
  PROVE  /\ p \in Seq(STRING \X Thing)
         /\ \A i \in DOMAIN p : p[i][1] \in allowed /\ p[i][2] \in Thing
         /\ \A i, j \in DOMAIN p : p[i][1] = p[j][1] => i = j
<1>1. p \in Seq(STRING \X Thing)
  BY ConnectorsAssumption DEF Parse
<1>2. \A i \in DOMAIN p : p[i] \in STRING \X Thing
  BY <1>1
<1> QED
  BY <1>1, <1>2 DEF Parse, Keys

\* What is said of a key is in one of the pairs; of the others its zero is said.
LEMMA ValueIsSaid ==
  ASSUME NEW p, NEW key, NEW zero
  PROVE  /\ Said(p, key) => \E i \in DOMAIN p : /\ p[i][1] = key /\ p[i][2].type # "null"
                                                /\ ValueOf(p, key, zero) = Decoded(p[i][2])
         /\ ~Said(p, key) => ValueOf(p, key, zero) = zero
<1>1. CASE Said(p, key)
  <2> DEFINE i == CHOOSE i \in DOMAIN p : p[i][1] = key /\ p[i][2].type # "null"
  <2>1. i \in DOMAIN p /\ p[i][1] = key /\ p[i][2].type # "null"
    BY <1>1, Zenon DEF Said
  <2>2. ValueOf(p, key, zero) = Decoded(p[i][2])
    BY <1>1 DEF ValueOf
  <2> HIDE DEF i
  <2> QED
    BY <1>1, <2>1, <2>2
<1>2. CASE ~Said(p, key)
  BY <1>2 DEF ValueOf
<1> QED
  BY <1>1, <1>2

\* Of a parsed payload each pair is the value of its key.
LEMMA SaidIsValue ==
  ASSUME NEW p \in Payload, NEW allowed, Parse(p, allowed), NEW zero, NEW i \in DOMAIN p,
         p[i][2].type # "null"
  PROVE  Said(p, p[i][1]) /\ ValueOf(p, p[i][1], zero) = Decoded(p[i][2])
<1>1. Said(p, p[i][1])
  BY DEF Said
<1>2. PICK j \in DOMAIN p : /\ p[j][1] = p[i][1]
                            /\ ValueOf(p, p[i][1], zero) = Decoded(p[j][2])
  BY <1>1, ValueIsSaid
<1>3. j = i
  BY <1>2, ParsedPayload
<1> QED
  BY <1>1, <1>2, <1>3

\* Decoding leaves everything alone but lists with holes.
LEMMA DecodedThing ==
  ASSUME NEW v \in Thing
  PROVE  /\ Decoded(v) \in Thing
         /\ v.type # "holes" => Decoded(v) = v
         /\ v.type = "holes" => Decoded(v).type = "list"
  BY DEF Decoded, Thing, List, Whole, Types, Parts

LEMMA ValueIsThing ==
  ASSUME NEW p \in Payload, NEW allowed, Parse(p, allowed), NEW key, NEW zero \in Thing
  PROVE  ValueOf(p, key, zero) \in Thing
<1>1. CASE Said(p, key)
  BY <1>1, ValueIsSaid, ParsedPayload, DecodedThing
<1>2. CASE ~Said(p, key)
  BY <1>2, ValueIsSaid
<1> QED
  BY <1>1, <1>2

\* A number that reads as an integer below 2^53 is that integer, or a fraction
\* that is next to it: no integer above is read as one below.
LEMMA SmallIsExact ==
  ASSUME NEW n \in Int, NEW part \in Parts, Nearest(n, part) \in -MaxSafe..MaxSafe
  PROVE  IF part = "none" THEN Nearest(n, part) = n
                          ELSE Nearest(n, part) \in {n, n + 1}
<1>1. CASE part # "none"
  BY <1>1 DEF Nearest
<1>2. CASE part = "none" /\ (n \in -MaxExact..MaxExact \/ Even(n))
  BY <1>2 DEF Nearest, Float64
<1>3. CASE part = "none" /\ ~(n \in -MaxExact..MaxExact \/ Even(n))
  <2>1. Nearest(n, part) = n - 1 \/ Nearest(n, part) = n + 1
    BY <1>3 DEF Nearest, Float64
  <2>2. n > MaxExact \/ n < -MaxExact
    BY <1>3, DoublesAssumption
  <2> QED
    BY <2>1, <2>2, DoublesAssumption DEF MaxSafe
<1> QED
  BY <1>1, <1>2, <1>3

\* An accepted change of a quantity is a number that one pair states, and leads
\* from an exact quantity to an exact quantity.
LEMMA AcceptedDelta ==
  ASSUME NEW data \in Data, NEW p \in Payload, AcceptsInventory(data, p)
  PROVE  LET delta == ValueOf(p, "delta", Str(0))
             q     == AsInteger(data["quantity"])
         IN  /\ Parse(p, {"delta"})
             /\ \E i \in DOMAIN p : CountsAs(p[i][2], AsInteger(delta))
             /\ AsInteger(delta) \in Int /\ q \in Int
             /\ q + AsInteger(delta) \in 0..MaxSafe
<1> DEFINE delta == ValueOf(p, "delta", Str(0))
           q     == AsInteger(data["quantity"])
<1>1. /\ Parse(p, {"delta"}) /\ Integer(delta)
      /\ q \in 0..MaxSafe /\ AsInteger(delta) \in -q..(MaxSafe - q)
  BY DEF AcceptsInventory
<1>2. Said(p, "delta")
  BY <1>1, ValueIsSaid DEF Integer, Str, Whole
<1>3. PICK i \in DOMAIN p : p[i][2] \in Thing /\ delta = Decoded(p[i][2])
  BY <1>1, <1>2, ValueIsSaid, ParsedPayload
<1>4. delta = p[i][2] /\ delta \in Thing
  BY <1>1, <1>3, DecodedThing DEF Integer
<1> HIDE DEF delta, q
<1>5. CountsAs(delta, AsInteger(delta))
  BY <1>1, <1>4, SmallIsExact DEF Integer, AsInteger, CountsAs, Thing
<1>6. MaxSafe \in Int
  BY DoublesAssumption DEF MaxSafe
<1>7. AsInteger(delta) \in Int /\ q \in Int /\ q + AsInteger(delta) \in 0..MaxSafe
  BY <1>1, <1>6 DEF Integer
<1> QED
  BY <1>1, <1>4, <1>5, <1>7 DEF delta, q
-----------------------------------------------------------------------------
(***************************************************************************)
(* Connectors: what an accepted operation makes of a record.               *)
(***************************************************************************)

ExactQuantity == {Num(n) : n \in 0..MaxSafe}

\* new is old as op says.
Says(op, old, new) ==
  /\ \A i \in DOMAIN op.payload :
       LET said == op.payload[i]
       IN  said[1] # "delta" /\ said[2].type # "null" => new[said[1]] = Decoded(said[2])
  /\ \A f \in AllFields :
       \/ f \in Keys(op.payload)
       \/ f = "quantity" /\ op.integration = "inventory"
       \/ f \in MailFields /\ op.integration = "mail"
       \/ new[f] = old[f]

\* new is old, and more or less by the number that op states.
Counts(op, old, new) ==
  op.integration = "inventory" =>
    \E i \in DOMAIN op.payload :
      CountsAs(op.payload[i][2], new["quantity"].data - AsInteger(old["quantity"]))

LEMMA InventoryChange ==
  ASSUME NEW old \in Data, NEW op \in Operation, op.integration = "inventory",
         AcceptsInventory(old, op.payload), NEW new, new = Changed(op, old)
  PROVE  /\ new \in Data /\ Says(op, old, new) /\ Counts(op, old, new)
         /\ new["quantity"] \in ExactQuantity
<1> DEFINE p == op.payload
           delta == AsInteger(ValueOf(p, "delta", Str(0)))
           q == AsInteger(old["quantity"])
<1>1. p \in Payload
  BY DEF Operation
<1>2. /\ Parse(p, {"delta"})
      /\ \E i \in DOMAIN p : CountsAs(p[i][2], delta)
      /\ delta \in Int /\ q \in Int /\ q + delta \in 0..MaxSafe
  BY <1>1, AcceptedDelta
<1>3. new = Set(old, [f \in {"quantity"} |-> Num(AsInteger(old[f]) + delta)])
  BY DEF Changed
<1> HIDE DEF delta
<1>4. new = [f \in AllFields |-> IF f = "quantity" THEN Num(q + delta) ELSE old[f]]
  BY <1>3 DEF Set
<1> HIDE DEF q
<1>5. new["quantity"] = Num(q + delta) /\ new["quantity"].data - q = delta
  BY <1>2, <1>4 DEF AllFields, Num, Whole
<1>6. \A f \in AllFields \ {"quantity"} : new[f] = old[f]
  BY <1>4
<1>7. new \in Data
  <2>1. Num(q + delta) \in Thing
    BY <1>2 DEF Num, Whole, Thing, Types, Parts
  <2> QED
    BY <1>4, <2>1 DEF Data
<1>8. \A i \in DOMAIN p : p[i][1] = "delta"
  BY <1>1, <1>2, ParsedPayload
<1>9. Says(op, old, new)
  BY <1>6, <1>8 DEF Says
<1>10. Counts(op, old, new)
  BY <1>2, <1>5 DEF Counts, q
<1>11. new["quantity"] \in ExactQuantity
  BY <1>2, <1>5 DEF ExactQuantity
<1> QED
  BY <1>7, <1>9, <1>10, <1>11

LEMMA MailChange ==
  ASSUME NEW old \in Data, NEW op \in Operation, op.integration = "mail",
         AcceptsMail(op.payload), NEW new, new = Changed(op, old)
  PROVE  /\ new \in Data /\ Says(op, old, new)
         /\ new["quantity"] = old["quantity"]
<1> DEFINE p == op.payload
           zero(f) == IF f \in {"subject", "body"} THEN Str(0) ELSE List(0)
<1>1. p \in Payload /\ Parse(p, MailFields)
  BY DEF Operation, AcceptsMail
<1>2. new = Set(old, [f \in MailFields |-> ValueOf(p, f, zero(f))])
  BY DEF Changed
<1>3. MailFields \subseteq AllFields /\ "quantity" \in AllFields \ MailFields
      /\ "delta" \notin MailFields
  BY DEF AllFields, MailFields
<1>4. \A f : zero(f) \in Thing
  BY DEF Str, List, Whole, Thing, Types, Parts
<1> HIDE DEF zero
<1>5. new = [f \in AllFields |-> IF f \in MailFields THEN ValueOf(p, f, zero(f)) ELSE old[f]]
  BY <1>2 DEF Set
<1>6. new \in Data
  <2>1. \A f \in MailFields : ValueOf(p, f, zero(f)) \in Thing
    BY <1>1, <1>4, ValueIsThing
  <2> QED
    BY <1>5, <2>1 DEF Data
<1>7. Says(op, old, new)
  <2>1. ASSUME NEW i \in DOMAIN p, p[i][2].type # "null"
        PROVE  new[p[i][1]] = Decoded(p[i][2])
    <3>1. p[i][1] \in MailFields
      BY <1>1, ParsedPayload
    <3>2. ValueOf(p, p[i][1], zero(p[i][1])) = Decoded(p[i][2])
      BY <1>1, <2>1, SaidIsValue
    <3> QED
      BY <1>3, <1>5, <3>1, <3>2
  <2>2. \A f \in AllFields \ MailFields : new[f] = old[f]
    BY <1>5
  <2> QED
    BY <2>1, <2>2 DEF Says
<1> QED
  BY <1>3, <1>5, <1>6, <1>7

LEMMA DocumentChange ==
  ASSUME NEW old \in Data, NEW op \in Operation, op.integration = "documents",
         AcceptsDocument(op.payload), NEW new, new = Changed(op, old)
  PROVE  /\ new \in Data /\ Says(op, old, new)
         /\ new["quantity"] = old["quantity"]
<1> DEFINE p == op.payload
           set == {f \in {"title", "content"} : Said(p, f)}
<1>1. p \in Payload /\ Parse(p, {"title", "content"})
  BY DEF Operation, AcceptsDocument
<1>2. new = Set(old, [f \in set |-> ValueOf(p, f, Str(0))])
  BY DEF Changed
<1>3. set \subseteq AllFields /\ "quantity" \in AllFields \ set
  BY DEF AllFields
<1>4. Str(0) \in Thing
  BY DEF Str, Whole, Thing, Types, Parts
<1>5. \A i \in DOMAIN p : p[i][1] \in {"title", "content"}
  BY <1>1, ParsedPayload
<1>6. \A i \in DOMAIN p : p[i][2].type # "null" => p[i][1] \in set
  BY <1>5 DEF Said
<1>7. \A f \in set : f \in Keys(p)
  BY DEF Said, Keys
<1> HIDE DEF set
<1>8. new = [f \in AllFields |-> IF f \in set THEN ValueOf(p, f, Str(0)) ELSE old[f]]
  BY <1>2 DEF Set
<1>9. new \in Data
  <2>1. \A f \in set : ValueOf(p, f, Str(0)) \in Thing
    BY <1>1, <1>4, ValueIsThing
  <2> QED
    BY <1>8, <2>1 DEF Data
<1>10. Says(op, old, new)
  <2>1. ASSUME NEW i \in DOMAIN p, p[i][2].type # "null"
        PROVE  new[p[i][1]] = Decoded(p[i][2])
    <3>1. ValueOf(p, p[i][1], Str(0)) = Decoded(p[i][2])
      BY <1>1, <2>1, SaidIsValue
    <3> QED
      BY <1>3, <1>6, <1>8, <2>1, <3>1
  <2>2. \A f \in AllFields \ set : new[f] = old[f]
    BY <1>8
  <2> QED
    BY <1>7, <2>1, <2>2 DEF Says
<1> QED
  BY <1>3, <1>8, <1>9, <1>10

\* Whatever an integration accepts it does as stated, and it leaves a quantity
\* alone or exact.
LEMMA AcceptedDoesAsStated ==
  ASSUME NEW row \in RecordRow, NEW op \in Operation, Accepts(row, op),
         NEW new, new = Changed(op, row.data)
  PROVE  /\ new \in Data /\ Says(op, row.data, new) /\ Counts(op, row.data, new)
         /\ new["quantity"] \in ExactQuantity \cup {row.data["quantity"]}
<1>1. row.data \in Data /\ op.integration \in Integrations
  BY DEF RecordRow, Operation
<1>2. CASE op.integration = "inventory"
  <2>1. AcceptsInventory(row.data, op.payload)
    BY <1>2 DEF Accepts
  <2> QED
    BY <1>1, <1>2, <2>1, InventoryChange
<1>3. CASE op.integration = "mail"
  <2>1. AcceptsMail(op.payload)
    BY <1>3 DEF Accepts
  <2> QED
    BY <1>1, <1>3, <2>1, MailChange DEF Counts
<1>4. CASE op.integration = "documents"
  <2>1. AcceptsDocument(op.payload)
    BY <1>4 DEF Accepts
  <2> QED
    BY <1>1, <1>4, <2>1, DocumentChange DEF Counts
<1> QED
  BY <1>1, <1>2, <1>3, <1>4 DEF Integrations
-----------------------------------------------------------------------------
(***************************************************************************)
(* Connectors: the inductive invariant.                                    *)
(***************************************************************************)

\* No operation is about a version that its record has not had yet.
NotAhead == \A op \in proposed : op.version <= record[op.target].version

\* The record that was changed last is as the operation said.
LastSays ==
  last # <<>> =>
    /\ Says(last[1], last[2].data, record[last[1].target].data)
    /\ Counts(last[1], last[2].data, record[last[1].target].data)

OpsInv == OpsTypeOK /\ NotAhead /\ PreviewedOpsApply /\ QuantitiesAreExact /\ LastSays

\* Seeded records are rows, with exact quantities.
LEMMA SeededRows ==
  ASSUME OpsInit
  PROVE  OpsInv
<1>1. \A t \in Target : record[t].data \in Seeded(t) /\ record[t].version = 1
  BY DEF OpsInit
<1>2. ASSUME NEW t \in Target
      PROVE  /\ record[t].data \in Data
             /\ t \in Inventory => record[t].data["quantity"] \in ExactQuantity
  <2>1. \A n \in Quantities : n \in 0..MaxSafe /\ n \in Int
    BY ConnectorsAssumption, DoublesAssumption DEF MaxSafe
  <2>2. Blank \in Data /\ "quantity" \in AllFields
    BY DEF Blank, Data, AllFields
  <2>3. Str(1) \in Thing /\ \A n \in Int : Num(n) \in Thing
    BY DEF Str, Num, Whole, Thing, Types, Parts
  <2>4. CASE t \in Inventory
    <3>1. PICK n \in Quantities : record[t].data = [Blank EXCEPT !["quantity"] = Num(n)]
      BY <1>1, <2>4 DEF Seeded
    <3>2. Num(n) \in Thing /\ Num(n) \in ExactQuantity
      BY <2>1, <2>3 DEF ExactQuantity
    <3> QED
      BY <2>2, <3>1, <3>2 DEF Data
  <2>5. CASE t \notin Inventory /\ t \in Documents
    <3>1. record[t].data = [Blank EXCEPT !["title"] = Str(1), !["content"] = Str(1)]
      BY <1>1, <2>5 DEF Seeded
    <3> QED
      BY <2>2, <2>3, <2>5, <3>1 DEF Data
  <2>6. CASE t \notin Inventory /\ t \notin Documents
    <3>1. record[t].data = Blank
      BY <1>1, <2>6 DEF Seeded
    <3> QED
      BY <2>2, <2>6, <3>1
  <2> QED
    BY <2>4, <2>5, <2>6
<1>3. record \in [Target -> RecordRow]
  <2>1. record \in [Target -> [version : {1}, data : UNION {Seeded(t) : t \in Target}]]
    BY DEF OpsInit
  <2>2. ASSUME NEW t \in Target PROVE record[t] \in RecordRow
    <3>1. record[t] \in [version : {1}, data : UNION {Seeded(u) : u \in Target}]
      BY <2>1
    <3>2. 1 \in 1..MaxVersion
      BY ConnectorsAssumption
    <3> QED
      BY <1>2, <3>1, <3>2 DEF RecordRow
  <2> QED
    BY <2>1, <2>2
<1>4. proposed = {} /\ last = <<>>
  BY DEF OpsInit
<1>5. QuantitiesAreExact
  BY <1>2 DEF QuantitiesAreExact, ExactQuantity, Target
<1> QED
  BY <1>3, <1>4, <1>5 DEF OpsInv, OpsTypeOK, NotAhead, PreviewedOpsApply, LastSays

\* An operation that passes its preview is about the present version.
LEMMA ProposeKeeps ==
  ASSUME OpsInv, NEW op \in Operation, Propose(op)
  PROVE  OpsInv'
<1>1. /\ proposed' = proposed \cup {op} /\ Accepts(record[op.target], op)
      /\ UNCHANGED <<record, last>>
  BY DEF Propose
<1>2. op.version = record[op.target].version
  BY <1>1 DEF Accepts
<1>3. record[op.target].version \in Int
  BY ConnectorsAssumption DEF OpsInv, OpsTypeOK, Operation, RecordRow
<1>4. OpsTypeOK' /\ QuantitiesAreExact' /\ LastSays'
  BY <1>1 DEF OpsInv, OpsTypeOK, QuantitiesAreExact, LastSays
<1>5. NotAhead'
  BY <1>1, <1>2, <1>3 DEF OpsInv, NotAhead
<1>6. PreviewedOpsApply'
  BY <1>1 DEF OpsInv, PreviewedOpsApply
<1> QED
  BY <1>4, <1>5, <1>6 DEF OpsInv

\* What an operation is applied to gets a version that nothing waits for.
LEMMA ApplyKeeps ==
  ASSUME OpsInv, NEW op \in proposed, Apply(op)
  PROVE  OpsInv'
<1> DEFINE row == record[op.target]
           new == Changed(op, row.data)
           next == [version |-> row.version + 1, data |-> new]
<1>1. /\ Accepts(row, op) /\ row.version < MaxVersion
      /\ record' = [record EXCEPT ![op.target] = next]
      /\ proposed' = proposed \ {op} /\ last' = <<op, row>>
  BY DEF Apply, Prepare
<1>2. op \in Operation /\ op.target \in Target /\ row \in RecordRow
  BY DEF OpsInv, OpsTypeOK, Operation
<1>3. /\ new \in Data /\ Says(op, row.data, new) /\ Counts(op, row.data, new)
      /\ new["quantity"] \in ExactQuantity \cup {row.data["quantity"]}
  BY <1>1, <1>2, AcceptedDoesAsStated
<1>4. row.version \in Int /\ row.version + 1 \in 1..MaxVersion
  BY <1>1, <1>2, ConnectorsAssumption DEF RecordRow
<1> HIDE DEF new
<1>5. next \in RecordRow /\ next.version = row.version + 1 /\ next.data = new
  BY <1>3, <1>4 DEF RecordRow
<1> HIDE DEF next
<1>6. /\ record' \in [Target -> RecordRow] /\ record'[op.target] = next
      /\ \A t \in Target \ {op.target} : record'[t] = record[t]
  BY <1>1, <1>2, <1>5 DEF OpsInv, OpsTypeOK
<1>7. OpsTypeOK'
  BY <1>1, <1>2, <1>6 DEF OpsInv, OpsTypeOK
<1>8. ASSUME NEW other \in proposed'
      PROVE  /\ other.version <= record'[other.target].version
             /\ record'[other.target].version = other.version =>
                  Accepts(record'[other.target], other)
  <2>1. /\ other \in proposed /\ other.target \in Target /\ other.version \in Int
        /\ other.version <= record[other.target].version
        /\ record[other.target].version = other.version =>
             Accepts(record[other.target], other)
    BY <1>1, ConnectorsAssumption DEF OpsInv, OpsTypeOK, NotAhead, PreviewedOpsApply, Operation
  <2>2. CASE other.target = op.target
    BY <1>4, <1>5, <1>6, <2>1, <2>2
  <2>3. CASE other.target # op.target
    BY <1>6, <2>1, <2>3
  <2> QED
    BY <2>2, <2>3
<1>9. QuantitiesAreExact'
  <2> SUFFICES ASSUME NEW t \in Inventory
               PROVE  record'[t].data["quantity"] \in ExactQuantity
    BY DEF QuantitiesAreExact, ExactQuantity
  <2>1. t \in Target /\ record[t].data["quantity"] \in ExactQuantity
    BY DEF OpsInv, QuantitiesAreExact, ExactQuantity, Target
  <2> QED
    BY <1>3, <1>5, <1>6, <2>1
<1>10. LastSays'
  <2>1. Says(op, row.data, record'[op.target].data) /\ Counts(op, row.data, record'[op.target].data)
    BY <1>3, <1>5, <1>6
  <2>2. last'[1] = op /\ last'[2] = row
    BY <1>1
  <2> QED
    BY <2>1, <2>2 DEF LastSays
<1> QED
  BY <1>7, <1>8, <1>9, <1>10 DEF OpsInv, NotAhead, PreviewedOpsApply

LEMMA DropKeeps ==
  ASSUME OpsInv, NEW op \in proposed, Drop(op)
  PROVE  OpsInv'
  BY DEF Drop, OpsInv, OpsTypeOK, NotAhead, PreviewedOpsApply, QuantitiesAreExact, LastSays

\* The invariant holds of every state of Connectors.
THEOREM OpsInvariance == OpsSpec => []OpsInv
<1>1. OpsInv /\ UNCHANGED ops => OpsInv'
  BY DEF ops, OpsInv, OpsTypeOK, NotAhead, PreviewedOpsApply, QuantitiesAreExact, LastSays
<1>2. OpsInv /\ [OpsNext]_ops => OpsInv'
  BY <1>1, ProposeKeeps, ApplyKeeps, DropKeeps DEF OpsNext
<1> QED
  BY <1>2, SeededRows, PTL DEF OpsSpec

\* An operation that passed its preview is refused later for no other reason than
\* that its record was changed in between.
THEOREM PreviewsHold == OpsSpec => []PreviewedOpsApply
<1>1. OpsInv => PreviewedOpsApply
  BY DEF OpsInv
<1> QED
  BY <1>1, OpsInvariance, PTL

\* What an operation states is what becomes of its record, an integer to the
\* digit, and quantities stay exact, for every payload and every limit of exact
\* numbers.
THEOREM OperationsSayWhatTheyDo == OpsSpec => []OperationsDoAsStated
<1>1. ASSUME OpsInv PROVE OperationsDoAsStated
  <2>1. AppliedAsStated
    BY <1>1 DEF OpsInv, LastSays, Counts, AppliedAsStated
  <2>2. SaysWhatItDoes
    BY <1>1 DEF OpsInv, LastSays, Says, SaysWhatItDoes
  <2> QED
    BY <1>1, <2>1, <2>2 DEF OpsInv, OperationsDoAsStated
<1> QED
  BY <1>1, OpsInvariance, PTL
=============================================================================
