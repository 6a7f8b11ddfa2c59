\* Refuted: see the property's comment.
SPECIFICATION Spec
CONSTANTS
  r1 = r1  r2 = r2  r3 = r3  r4 = r4  p1 = p1
  a = a  b = b  c = c
  NoWorker = NoWorker
  Requests <- Requests4
  KeyOf <- KeyOf4
  Keys <- Keys2
  Prewarms <- Prewarm1
  Max = 1
  Ttl = 1
INVARIANTS
  SomebodyWillRelease
CHECK_DEADLOCK FALSE
