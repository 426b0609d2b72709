\* One question over two fields, with every combination of their types; a
\* document and an inventory record, deltas on both sides of the exact range.
CONSTANTS
  a = a
  b = b
  Field = {a, b}
  Gate = {g1}
  Principal = {ann, bob}
  Anything = Anything
  None = None
  Value <- MCValue
  Schema <- MCSchema
  MaxExact = 4
  MaxFinite = 8
  MaxItems = 2
  Inventory = {i1}
  Mail = {}
  Documents = {d1}
  Payload <- MCPayload
  NotObject = NotObject
  Absent = Absent
  Quantities = {2}
  MaxVersion = 3
  MaxProposed = 2
SPECIFICATION MCSpec
CONSTRAINT Focus
INVARIANTS  StatedExactly PreviewedOpsApply OperationsDoAsStated
