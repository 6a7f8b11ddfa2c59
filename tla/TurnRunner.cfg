\* Two calls on one session or of the pool, and single ones of each other kind, on two
\* processes, under fairness.
SPECIFICATION Spec
CONSTANTS
  c1 = c1
  c2 = c2
  Calls = {c1, c2}
  MaxProcs = 2
  ShortTurns = {c1}
  Scenarios <- MCScenarios
INVARIANTS
  TypeOK
  WorkersAccounted
  OwnOutput
  SurvivesOtherwise
PROPERTIES
  NoTurnForNobody
  EveryCallEnds
\* The instance stops when every call has ended.
CHECK_DEADLOCK FALSE
