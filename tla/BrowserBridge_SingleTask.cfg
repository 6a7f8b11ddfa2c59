\* Refuted: see the property's comment.
SPECIFICATION Spec
CONSTANTS
  r1 = r1  r2 = r2  c1 = c1  c2 = c2  c3 = c3
  Requests = {r1, r2}
  Calls = {c1, c2, c3}
  Attempts = 3
INVARIANTS
  SingleTask
CHECK_DEADLOCK FALSE
