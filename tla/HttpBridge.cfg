\* A streamed request and one that is not, on one or two slots, under fairness.
SPECIFICATION FairSpec
CONSTANTS
  s1 = s1
  j1 = j1
  Requests = {s1, j1}
  Streamed = {s1}
  Limits = {1, 2}
INVARIANTS
  TypeOK SlotsExact
PROPERTIES
  ToldInOrder SlotsFreed
