\* Up to three milestones in any order, or one that is revised; reporting lines of
\* three people over three instants and the time after.
CONSTANTS
  Milestone = {m1, m2, m3}
  Planner = {pat, pia}
  Day = {d1, d2}
  None = None
  MaxVersion = 4
  Person = {ann, bea, cal}
  Position = {board, lab}
  Relationship = {i1, i2, i3, i4}
  Kind = {"reports_to", "member_of", "covers_for"}
  MaxTime = 2
  MaxDepth = 2
  MaxRevocations = 1
  NoRow = NoRow
SPECIFICATION MCSpec
SYMMETRY MCSymmetry
INVARIANTS PlanIsFollowed PeopleFormAHierarchy
PROPERTIES MetAsRead
CHECK_DEADLOCK FALSE
