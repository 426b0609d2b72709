\* Up to five organisations, two to a page.
CONSTANTS
  Org <- MCOrg
  SweepBatch = 2
  MaxLapses = 2
SPECIFICATION WalkSpec
PROPERTIES WalkSkipsNothing EveryOrgIsSwept
