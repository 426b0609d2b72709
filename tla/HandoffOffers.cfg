\* Three offers of one task among two people, two of which may move its owner.
CONSTANTS
  Offer = {h1, h2, h3}
  Task = {t1}
  Principal = {p1, p2}
  NoTask = NoTask
  NoOne = NoOne
  MaxHops = 2
  MaxChanges = 1
SPECIFICATION Spec
SYMMETRY MCSymmetry
INVARIANTS TransfersFormOneChain
PROPERTIES OffersAreKept ImplementsAccountability
