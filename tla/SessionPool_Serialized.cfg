\* Refuted: see the property's comment.
SPECIFICATION Spec
CONSTANTS
  r1 = r1  r2 = r2  r3 = r3
  k1 = k1  k2 = k2  h1 = h1
  Requests <- Three
  Keys <- TwoKeys
  Sessions = {h1}
  KeyOf <- SharedKeyOf
  SessionOf <- OneSession
  Max = 1
  Ttl = 0
  AbsoluteTtl = 0
INVARIANTS
  Serialized
CHECK_DEADLOCK FALSE
