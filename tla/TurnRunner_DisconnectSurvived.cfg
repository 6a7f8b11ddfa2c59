\* Refuted: see the property's comment.
SPECIFICATION Spec
CONSTANTS
  c1 = c1
  c2 = c2
  Calls = {c1, c2}
  MaxProcs = 2
  ShortTurns = {c1}
  Scenarios <- MCScenarios
INVARIANTS
  DisconnectSurvived
CHECK_DEADLOCK FALSE
