\* Five calls, three keys, a pool of two workers, under fairness.
SPECIFICATION FairSpec
CONSTANTS
  r1 = r1  r2 = r2  r3 = r3  r4 = r4  p1 = p1
  a = a  b = b  c = c
  NoWorker = NoWorker
  Requests <- Requests5
  KeyOf <- KeyOf5
  Keys <- Keys3
  Prewarms <- Prewarm1
  Max = 2
  Ttl = 1
INVARIANTS
  TypeOK LeasesSound LeasedExact CapacityAccounted
PROPERTIES
  HandedOutFresh WaitersServed
\* The instance stops when every call has ended.
CHECK_DEADLOCK FALSE
