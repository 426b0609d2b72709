----------------------------- MODULE Connectors -----------------------------
(***************************************************************************)
(* The typed simulator integrations: what an operation must say to be      *)
(* accepted, and what it makes of the record it is about.  Governance      *)
(* models when an operation is proposed, approved and executed; here it is *)
(* previewed once, by createProposalTx, and prepared again by the executor. *)
(*                                                                         *)
(* Of a value this module keeps its type, and its number or whether it is  *)
(* empty.  A payload is a sequence of pairs, for an object may repeat keys. *)
(* Both are stored as jsonb in between, which keeps such values as they are. *)
(***************************************************************************)
EXTENDS Doubles, Sequences, FiniteSets

CONSTANTS
  Inventory, Mail, Documents,  \* the records of each integration
  Payload,       \* the payloads that operations are proposed with
  NotObject,     \* a payload that is no object
  Absent,        \* of a field that a record does not have
  Quantities,    \* quantities that records are seeded with
  MaxVersion,    \* bound: versions of a record
  MaxProposed    \* bound: operations that passed their preview

\* The largest integer that `integer` accepts: 2^53 - 1.
MaxSafe == MaxExact - 1

Target == Inventory \cup Mail \cup Documents

Types == {"number", "string", "list", "holes", "mixed", "null"}
Thing == [type : Types, data : Int, part : Parts]
Whole(type, n) == [type |-> type, data |-> n, part |-> "none"]
Str(n)   == Whole("string", n)  \* 0 is the empty string
List(n)  == Whole("list", n)    \* strings; 0 is the empty list
Holes(n) == Whole("holes", n)   \* List(n), with null for a string that is empty
Num(n)   == Whole("number", n)

ASSUME ConnectorsAssumption ==
  /\ Inventory \cap Mail = {} /\ Inventory \cap Documents = {} /\ Mail \cap Documents = {}
  /\ Payload \ {NotObject} \subseteq Seq(STRING \X Thing)
  /\ Quantities \subseteq 0..MaxSafe
  /\ MaxVersion \in Nat \ {0}
  /\ Absent \notin Thing

VARIABLES
  record,    \* simulator_records: version and data
  proposed,  \* operations that passed their preview and wait
  last       \* history: the operation applied last and the record before it

ops == <<record, proposed, last>>

Integrations == {"inventory", "mail", "documents"}

\* Nothing compares the integration of an operation with that of its record.
Operation == [integration : Integrations, target : Target,
              version : 1..MaxVersion, payload : Payload]

MailFields == {"recipients", "subject", "body", "bcc", "attachments"}
AllFields  == MailFields \cup {"quantity", "title", "content"}
Data       == [AllFields -> Thing \cup {Absent}]
RecordRow  == [version : 1..MaxVersion, data : Data]

OpsTypeOK ==
  /\ record \in [Target -> RecordRow]
  /\ proposed \in SUBSET Operation
  /\ last \in {<<>>} \cup (Operation \X RecordRow)

\* Seed.
Blank == [f \in AllFields |-> Absent]
Seeded(t) ==
  IF t \in Inventory THEN {[Blank EXCEPT !["quantity"] = Num(n)] : n \in Quantities}
  ELSE IF t \in Documents
  THEN {[Blank EXCEPT !["title"] = Str(1), !["content"] = Str(1)]}
  ELSE {Blank}

OpsInit ==
  /\ record \in [Target -> [version : {1}, data : UNION {Seeded(t) : t \in Target}]]
  /\ \A t \in Target : record[t].data \in Seeded(t)
  /\ proposed = {} /\ last = <<>>
-----------------------------------------------------------------------------
Keys(p) == {p[i][1] : i \in DOMAIN p}

\* parse: an object of known keys, none of them twice.
Parse(p, allowed) ==
  /\ p # NotObject
  /\ Keys(p) \subseteq allowed
  /\ \A i, j \in DOMAIN p : p[i][1] = p[j][1] => i = j

\* A null among strings decodes into the empty string.
Decoded(v) == IF v.type = "holes" THEN List(v.data) ELSE v

\* What a key decodes into: the zero value of its type when it is absent or
\* null.  (With parse in force there is at most one pair of a key.)
Said(p, key) == \E i \in DOMAIN p : p[i][1] = key /\ p[i][2].type # "null"
ValueOf(p, key, zero) ==
  IF Said(p, key)
  THEN Decoded(p[CHOOSE i \in DOMAIN p : p[i][1] = key /\ p[i][2].type # "null"][2])
  ELSE zero

\* json.Unmarshal into a field of that type.
Decodes(p, keys, type) == \A k \in keys : Said(p, k) => ValueOf(p, k, Str(0)).type = type

\* integer, of a number that was read into a float64.
AsInteger(v) == Nearest(v.data, v.part)
Integer(v) ==
  /\ v.type = "number" /\ ~StaysHalf(v.data, v.part)
  /\ AsInteger(v) \in -MaxSafe..MaxSafe

\* Mutant: the bound is the largest exact integer, which rounding can reach.
AcceptsInventoryToExact(data, p) ==
  LET delta == ValueOf(p, "delta", Str(0))
  IN  /\ Parse(p, {"delta"}) /\ delta.type = "number"
      /\ data["quantity"] # Absent
      /\ AsInteger(delta) \in -data["quantity"].data..(MaxExact - data["quantity"].data)

AcceptsInventory(data, p) ==
  LET delta == ValueOf(p, "delta", Str(0))
      q     == AsInteger(data["quantity"])
  IN  /\ Parse(p, {"delta"}) /\ Integer(delta)
      /\ data["quantity"] # Absent /\ Integer(data["quantity"])
      /\ q \in 0..MaxSafe /\ AsInteger(delta) \in -q..(MaxSafe - q)

AcceptsMail(p) ==
  /\ Parse(p, MailFields)
  /\ Decodes(p, {"subject", "body"}, "string")
  /\ Decodes(p, {"recipients", "bcc", "attachments"}, "list")
  /\ ValueOf(p, "recipients", List(0)) # List(0)
  /\ ValueOf(p, "subject", Str(0)) # Str(0) /\ ValueOf(p, "body", Str(0)) # Str(0)

AcceptsDocument(p) ==
  /\ Parse(p, {"title", "content"})
  /\ Decodes(p, {"title", "content"}, "string")
  /\ Said(p, "title") \/ Said(p, "content")

\* prep and the function of the connector: whether the operation goes through.
Accepts(row, op) ==
  /\ op.version = row.version
  /\ CASE op.integration = "inventory" -> AcceptsInventory(row.data, op.payload)
       [] op.integration = "mail"      -> AcceptsMail(op.payload)
       [] op.integration = "documents" -> AcceptsDocument(op.payload)

\* data, with the fields of new set.
Set(data, new) == [f \in AllFields |-> IF f \in DOMAIN new THEN new[f] ELSE data[f]]

\* What becomes of the data.  A mail sets all of its fields, absent lists to
\* []; what an update of a document leaves out stays as it is.
Changed(op, data) ==
  LET p     == op.payload
      delta == AsInteger(ValueOf(p, "delta", Str(0)))
  IN  CASE op.integration = "inventory" -> Set(data,
             [f \in {"quantity"} |-> Num(AsInteger(data[f]) + delta)])
        [] op.integration = "mail" -> Set(data,
             [f \in MailFields |->
                ValueOf(p, f, IF f \in {"subject", "body"} THEN Str(0) ELSE List(0))])
        [] op.integration = "documents" -> Set(data,
             [f \in {g \in {"title", "content"} : Said(p, g)} |-> ValueOf(p, f, Str(0))])

\* Mutant: a version counts the first change only.
PrepareOnce(row, op) == [version |-> 2, data |-> Changed(op, row.data)]

Prepare(row, op) == [version |-> row.version + 1, data |-> Changed(op, row.data)]
-----------------------------------------------------------------------------
\* createProposalTx: the preview.  Its result is thrown away.
Propose(op) ==
  /\ Cardinality(proposed) < MaxProposed
  /\ Accepts(record[op.target], op)
  /\ proposed' = proposed \cup {op}
  /\ UNCHANGED <<record, last>>

\* applyProposal, for one operation.
Apply(op) ==
  /\ op \in proposed
  /\ Accepts(record[op.target], op)
  /\ record[op.target].version < MaxVersion
  /\ record' = [record EXCEPT ![op.target] = Prepare(@, op)]
  /\ proposed' = proposed \ {op}
  /\ last' = <<op, record[op.target]>>

\* A stale proposal, or one that is given up.
Drop(op) ==
  /\ op \in proposed
  /\ proposed' = proposed \ {op}
  /\ UNCHANGED <<record, last>>

OpsNext ==
  \/ \E op \in Operation : Propose(op)
  \/ \E op \in proposed : Apply(op) \/ Drop(op)

OpsSpec == OpsInit /\ [][OpsNext]_ops
-----------------------------------------------------------------------------
\* An operation that passed its preview can be refused for one reason only:
\* somebody changed its record since.  The connector does not change its mind
\* (Prepare is called by createProposalTx and again by applyProposal).
PreviewedOpsApply ==
  \A op \in proposed :
    record[op.target].version = op.version => Accepts(record[op.target], op)

\* The quantity of an inventory record is never negative and never beyond what
\* a float64 holds exactly, whichever integrations wrote to the record.
QuantitiesAreExact ==
  \A t \in Inventory : record[t].data["quantity"] \in {Num(n) : n \in 0..MaxSafe}

\* A number counts as what it is when it is an integer, and otherwise as the
\* integer before or after it.
CountsAs(v, n) ==
  IF v.part = "none" THEN n = v.data ELSE n \in {v.data, v.data + 1}

\* An integer that a payload states moves the quantity by exactly itself, though
\* it went through a float64 (integer).  A fraction is applied when no float64
\* tells it from an integer, as the integer next to it.
AppliedAsStated ==
  last # <<>> /\ last[1].integration = "inventory" =>
    \E i \in DOMAIN last[1].payload :
      CountsAs(last[1].payload[i][2],
               record[last[1].target].data["quantity"].data
                 - AsInteger(last[2].data["quantity"]))

\* Each pair of a payload takes effect, none overruled by another one, and a
\* field that an operation does not mention is kept, except that a mail sets
\* its own fields (parse, documentConnector.Prepare, mailConnector.Prepare).
\* A null among the strings of a list is taken for an empty string.
SaysWhatItDoes ==
  last # <<>> =>
    LET op  == last[1]
        old == last[2].data
        new == record[op.target].data
    IN  /\ \A i \in DOMAIN op.payload :
             LET said == op.payload[i]
             IN  said[1] # "delta" /\ said[2].type # "null" => new[said[1]] = Decoded(said[2])
        /\ \A f \in AllFields :
             \/ f \in Keys(op.payload)
             \/ f = "quantity" /\ op.integration = "inventory"
             \/ f \in MailFields /\ op.integration = "mail"
             \/ new[f] = old[f]

\* What a human reads in a proposal is what becomes of the record.
OperationsDoAsStated ==
  OpsTypeOK /\ AppliedAsStated /\ QuantitiesAreExact /\ SaysWhatItDoes
=============================================================================
